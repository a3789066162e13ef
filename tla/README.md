# vest in TLA+

vest is an offline-first security scanner written in Rust: a command line program that runs
built-in scanners (web, files, binary, network, memory, browser, nuclei) against one target,
optionally hands their findings to agents driven by a large language model, and keeps scans,
findings and per-scanner checkpoints in an SQLite database. This directory is a verification
development of it: TLA+ modules translated from the source, TLC runs on small instances, and
theorems about every instance, checked by TLAPS. Line numbers refer to files under `src/`;
`PROJECT.json` maps every definition to its lines.

1. [Inventory](#1-inventory) — the parts of the system
2. [Modules](#2-modules) — which module models which part, and how
3. [Runs](#3-runs) — what TLC checks, with which bounds, and what it shows
4. [Disagreements](#4-disagreements) — where code and documentation differ
5. [Fairness](#5-fairness)
6. [Proofs](#6-proofs)
7. [Limits](#7-limits) — what is only model-checked, what is not modelled
8. [Plan](#8-plan)

## 1. Inventory

How the parts interact. `vest scan` (vest-cli) resolves a configuration (vest-config), inserts
a row in the database (vest-storage), runs the scanners (vest-scanner, vest-tools) one after
the other, commits what each found, hands the result to the agents (vest-agent) when a
provider is configured (vest-providers), and replaces the findings by the ones the agents
kept. Two invocations of vest share nothing but the database file. Inside an invocation the
agents of a swarm are tokio tasks that share one `SafetyChecker`.

| Component | State | Operations | What is hard | What makes it correct |
|---|---|---|---|---|
| **Scan lifecycle** (`vest-cli/src/commands/scan.rs`, `vest-storage`) | tables `scans`, `scan_checkpoints`, `findings`; the memory of a process | start, run scanners and checkpoint, agent phase, finalize, resume, delete | crashes between transactions, two invocations on one scan id, failures of some scanners | a checkpoint never covers findings that are lost; completed means covered and is final; children have rows; an interrupted scan can be ended |
| **Tool approval** (`vest-agent/src/policy.rs`, `approved.rs`, `interactive_approval.rs`, `safety.rs`) | one-shot tokens behind a tokio RwLock, effect grants, rate-limiter bucket | evaluate, grant, prompt, spend, authorise, execute | agents share tokens; the lock is tried and not waited for; answers and expiry race | nothing runs without consent or out of scope; one yes is one run; a yes is heard; only the operator is waited for |
| **Tool-use loop** (`patterns/tooluse.rs`, `context.rs`) | iterations, conversation | ask the model, run a tool, finish | provider failures, rejections that use up iterations | it ends |
| **Agent patterns** (`orchestrator.rs`, `patterns/{swarm,pipeline,hierarchical}.rs`) | tasks, semaphore, collected findings | plan, spawn, join, merge by vote, union or strictly, add the scanners' | tasks that panic or end in any order, permits, iterations divided down to zero | votes decide and order does not; scanners' findings come through; the phase ends |
| **Validation and memory** (`validator.rs`, `memory.rs`) | a batch of findings, false positives of the session | judge with a model or by heuristics, remember | replies that fail or make no sense; a resume validates again what was validated | what is filtered out was judged; repetition wears nothing away |
| **Scopes** (`fs_scope.rs`, `net_scope.rs`, `net_safety.rs`, `http_client.rs`) | roots; an origin; the hops of an exchange | resolve a path, authorise a URL, follow a redirect, pin addresses | `..`, links and aliases; names that resolve differently at each hop | nothing outside is opened or asked |
| **Agent tools and egress** (`commands/agent_tools.rs`, `tool_registry.rs`, `egress.rs`) | what may leave, the context of the model | call a tool, filter its result | the declared class against the classified one, over a sequence of calls | contents leave only if allowed, and of an answer never more than the limit |
| **Provider clients and fallback** (`vest-providers/src`) | errors so far, answers outstanding | ask one after the other or all at once; read an answer | timeout against late answer, which errors go on to the next provider | an answer in time is returned; an error only when nobody answered |
| **Crawler and HTTP client** (`vest-scanner/src/{web,http_client}.rs`) | frontier, visited set, request and byte budgets | crawl, exchange, redirect | depth first with a visited set, limits that count duplicates, redirects out of scope | never out of scope, never over budget; what no limit cuts off is tried; it ends |
| **Active probes** (in `web.rs`) | page, check, attempt, payload, a counter for each check of a page | passive checks, one request after the other, dedupe | budgets, failing requests, findings deduplicated over pages | a hole an attempt can see is reported; nothing is sent without consent |
| **File traversal** (`vest-scanner/src/files.rs`) | stack of directories, visited set | traverse, open, read bounded | links, depth and count limits | nothing outside the root; truncation is reported |
| **Scanners of data at rest** (`files.rs`, `browser.rs`, `binary.rs`, `network.rs`, `memory.rs`) | items looked at, findings | look at an item, skip it, fail | items that are gone, unreadable or cut a character | one item takes nothing from another |
| **Pattern search** (`memory.rs`) | place in the data, matches | plain and accelerated search | overlapping matches, either end | both find the same |
| **Nuclei runner** (`vest-tools/src/nuclei.rs`, `vest-scanner/src/nuclei.rs`) | child process, timeout flag, output | find the program, spawn, wait, kill | the killer thread races the end of the child | output counts only if the whole of it is there |
| **Scan command** (`commands/scan.rs`) | command line, exit code, report | refuse or accept, gates, baseline | failures and kills at every stage, run after run | exit code, report and row agree; a new finding is noticed |
| **Findings, reports, scans, targets** (`commands/*.rs`, `vest-report`, `vest-storage`) | rows of five tables | list, show, validate, delete, generate, compare | statements of two commands interleaved, rows that cannot be read | a verdict stays; a delete takes one scan and all of it; a report leaves nothing out |
| **Configuration** (`vest-config`, `commands/config.rs`) | files in two places | find, load, validate, default, set | each command looks elsewhere; a file may be broken or edited by hand | a value that was written is the one that is read, or nothing is |
| **Doctor, tools, sandbox; payload tables; test utilities** | none of Vest's own | run programs and print | | |

`PROJECT.json` lists all components with their status, and the hazards of this code, each at the
line where it bites and with the properties that speak about it.

## 2. Modules

### ScanLifecycle, ScanRecord

`ScanLifecycle` models the database as concurrent invocations of vest see it. An action is one
transaction, or one autocommitted statement, with the private work of the process since the
one before; a crash (`Abort`) may come between any two.

| TLA+ | Code |
|---|---|
| `row[c]` | the row of `scans`: status, provider, frozen scanner list (`scanner_plan`), `total_findings` |
| `ckpt[c]` | completed rows of `scan_checkpoints` |
| `stored[c]` | rows of `findings`; a finding is its dedupe key and the run that reported it, which stands for its UUID |
| `proc[p]` | the local variables of an invocation: place, scan, skip set, findings in memory, which errors occurred, dry run |
| `given`, `dismissed` | history: what the checkpointed run of a scanner reported; what an agent phase left out |
| `StartScan` | `start_running_scan` |
| `ResumeOpen` … `ResumePlan` | the statements of `resume_scan`, in their order: read row, read checkpoints, read findings, mark running, look at `--dry-run` |
| `SkipScanner`, `ScannerSucceeds`, `ScannerFails`, `CheckpointRejected`, `ScannersDone` | `run_builtin_scanners` and `persist_scanner_checkpoint` |
| `NoAgent`, `AgentFails`, `AgentReplaces` | the agent phase, with `dedupe_findings` |
| `Finalize` | `finalize_scan`: findings replaced and row updated in one transaction |
| `DeleteCheckpoints`, `DeleteFindings`, `DeleteRow` | `delete_scan`, which is not a transaction |

A scanner is the set of results it may report (`Results`); an agent is a choice of findings to
keep and to add. `ScanRecord` is the abstract specification: a scan begins with a frozen list,
covers its scanners one by one and durably, is completed only when all are covered, and can be
taken up again until then. `ScanLifecycle` implements it when no two invocations work on one
scan at a time (`ImplementsRecord`; `covered` is the checkpoint table).

### ToolApproval

`ToolApproval` models the agents of one scan around the policy they share. An action is what an
agent does up to the next point where it takes or leaves the lock, or waits.

| TLA+ | Code |
|---|---|
| `tokens` | `PolicyEngine::tokens`, each by its cache key; all are one-shot tokens of one session |
| `lock` | the tokio `RwLock` around them: readers, writer, first-come queue of waiting writers |
| `grants` | effect grants made from the command line before the agents start; they expire |
| `bucket` | tokens of the rate limiter |
| `agent[a]` | place, current call, whether the operator was asked for it, iterations left |
| `yes`, `ran` | history: answers and handler runs for each call |
| `EffectOf`, `Key`, `InScope` | the normalised effect, the cache key and the static checks of a call |
| `StartLooking`, `EndLooking` | `find_matching_token`: `try_read`, clone, release |
| `StartSpending`, `EndSpending` | the removal of a one-shot token under `try_write` |
| `Judge` | the rest of `evaluate`, and what the loop does with it |
| `ShowPrompt`, `TerminalFree`, `Answer` | the prompt, which holds stderr and stdin from the question to the answer |
| `StartGranting`, `EndGranting` | `grant` with `write().await` |
| `Limit`, `Run` | rate limiter and `execute_authorised` |
| `AskTool`, `Talk`, `Finish` | the tool-use loop around it, one iteration each |

A call is a record of tool, path, URL and method; the digest of arguments in the cache key is
the tuple of the last three. Scopes are sets of paths and URLs. `write().await` queues behind
readers and earlier writers, and a queued writer makes `try_read` and `try_write` fail: that
is tokio's documented fairness, and the places where it matters are the interesting ones. A prompt
waits for the terminal (`ask`), then holds it (`prompt`); one prompt is shown at a time.
The wording of prompts and the audit log are left out.

### Traversal

`Traversal` models `collect_files_bounded`, the walk the file scanner, the browser scanner and the
agents' `file_scan` tool share. It is one thread; an action is one turn of one of its two loops.

| TLA+ | Code |
|---|---|
| `tree`, `locked` | the file system: what each directory lists, which directories `read_dir` fails on |
| `stack`, `here` | `stack` of directories with their depth; the directory being listed and its entries to come |
| `visited` | the canonical paths seen |
| `files`, `skipped`, `cut`, `total` | `TraversalOutcome`: files, skips with their reasons, `truncation_reason`, `total_bytes` |
| `Refusal` | the checks of an entry before its size, in the order that decides the reason: ignored name, link, dangling, outside the root, seen |
| `RefuseRoot`, `OpenFile`, `OpenDir` | the root: refused, a single file, a directory |
| `TooDeep`, `CannotRead`, `ReadDir`, `EndWalk` | the outer loop, over the stack |
| `Refuse`, `PushDir`, `PassOver`, `SeeFile`, `EndList` | the inner loop, over the entries; `TakeFile` is what root and entries share |

A node is what a canonical path names; an entry has a name, a node it resolves to and says whether
it is a link. `ignored` is the set of names the ignore patterns match. Entries of a directory are
taken in any order: the code sorts them by name, and a name can be anything.

### Crawl

`Crawl` models `WebScanner::crawl` together with `ScopedHttpClient::exchange`, which it calls for
every page. It is one task; an action is one turn of a loop or one request.

| TLA+ | Code |
|---|---|
| `site` | what servers answer: a page with links and, read as robots.txt, rules; or a redirect |
| `rules` | `RobotsRules`, as the set of URLs its prefixes rule out |
| `queue`, `visited`, `pages` | the locals of `crawl`; the queue is a stack |
| `x` | the locals of `exchange`: what was asked for, the current hop, the redirects so far |
| `hops` | `request_count`, one for `fetch_robots` and one for the crawl |
| `sent`, `requests`, `failed`, `cut` | history: what was asked for and why, pages that failed, which limit was met |
| `RejectStart`, `BeginCrawl` | `NetworkScope::from_url`, `fetch_robots`, the first push |
| `Refused` | `authorise` and the hop budget, before anything is sent |
| `SendFails`, `Redirected`, `TakeRobots`, `TakePage` | how a request may end: connection, timeout or body limit; 3xx with its checks; a body |
| `PushLink`, `PassLink`, `EndLinks` | the loop over the links of a page |
| `PassUrl`, `FetchUrl`, `EndCrawl` | the loop over the stack |

`authorise` is called on a redirect's target where the redirect is found and once more at the head
of the loop; `MayFollow` and `Refused` are these two. Reading the code this closely turned up two
facts a reader of it may want to know: a link that is waiting is pushed again for each page that
links to it, and each copy counts towards `crawl_max_urls` until it is popped; and the `break` at
web.rs:303 can never be taken, because what is visited and what waits never exceed the limit
together (the second half of `WithinBudget`, proved).

### Providers: ProviderClients, FallbackChain, ProviderCommands

`ProviderClients` has what each client makes of its server's reply (`OpenAiOutcome`,
`AnthropicOutcome`, `GoogleOutcome`: they differ in which replies are empty answers and which are
errors) and what it sends of a conversation. `FallbackChain` is one call of the chain: `AskNext`
and `NobodyToAsk` for the two sequential strategies, `AskAll` for the fan-out, `ProviderReplies`,
`ProviderTimesOut` and `OverallTimesOut` for what comes of it. A call that is given up is
"dropped": the future is dropped, and a late reply reaches nobody. `ProviderCommands` has which
client a name stands for, what keys it takes, and `vest providers test`, which asks several under
timeouts of its own.

### Agents: FindingRules, AgentPhase, ValidatorBatch

`FindingRules` are the pure rules: class guessed from a title, heuristic verdicts, reading of a
model's verdict, memory of false positives. Confidence is counted in tenths. `AgentPhase` is
`Orchestrator::run` with its four modes; a task is queued, holds a permit, reports or panics, and
`Merge` is `merge_by_voting` and its siblings. The key votes are counted by is the first 50 bytes
of a title (`KeyOf`), and a title with a character across byte 50 makes the merge panic (`Wide`,
`MergePanics`). `ValidatorBatch` validates a batch finding by finding, with a model or without,
and hands in again what was kept, as a resumed scan does.

### Runs of the command: ScanCommand, ScanOutcome

`ScanCommand` holds what `vest scan` decides before it does anything: refusals with their exit
codes in the order they are met (`Checks`, `ResumeChecks`), target, scanners, scopes, consents.
`ScanOutcome` lets one run follow another, on the same target or another: `SoBegin`, `SoResume`,
`SoStart`, `SoEffects`, scanners that find or fail, agents that end or fail, `Report`, `Finalize`,
the two gates, and `Killed` anywhere in between. Every action has the exit code of the error it
ends with. A row keeps its target, provider and scanners (`FrozenOf`), and a resume takes them from
there. It is refused before the row is touched (`ResumeRefused`), or marks the row running and only
then looks at `--fail-on-severity` and `--dry-run` (`RowTakenUp`). `--fail-on-new` compares titles
without the blanks around them, and leaves out those that are nothing but blanks (`NewTitles`).
`ScanLifecycle` has the database's view of the same code, with concurrency; here there is one
process at a time, and the report and the exit code are in view.

### Configuration: Settings

Files in the three places a command may look (`--config`, `./vest.toml`, `~/.vest`), `ConfigSet`
and `WriteDefaults` as `vest config` writes them, `EditByHand`, `CopyDefaults` and `Spoil` as an
editor does, and `Read` by any command through the path it really takes. The field tables carry
every field with its default; a value is known by its kind.

### Scanning: WebProbes, ScanRules, LocalScans, MemoryRules, PatternScan, Nuclei

`WebProbes` takes the pages a crawl returned and goes through checks, attempts and payloads in the
code's order, with the request counter of each check. A page's holes are given by the instance.
`ScanRules` has the rules of the scanners that look at data at rest, over features of the data
(`.env`, `password`, `nx`, ...), and `LocalScans` their loops: `LookAtItem`, `ItemGone`,
`Unreadable`, `FormatUnknown`, `ItemPanics`. `MemoryRules` has the memory scanner, which refuses
unless a simulation was asked for, and the plain search (`Offsets`); `PatternScan` runs the
accelerated search jump by jump. `Nuclei` has the scanner and the wrapper: the child, the waiting
thread and the killer are three actors, and a process the child leaves behind may hold the pipe.

### Scopes: PathScope, ScopedExchange, AgentTools

`PathScope` is `resolve_read_path`: a path is a sequence of names, a tree gives what is a
directory, a file or a link; realpath and `symlink_metadata` are modelled as the system does them.
`PaResolve` resolves, `PaRead` opens in a later step, and `TreeChanges` may come between.
`ScopedExchange` is one exchange with what `Crawl` leaves out: addresses a name resolves to
(another set at each hop), methods and bodies across 301/302/303 and 307/308, the limit on the
body. `AgentTools` is every tool of a session with its effect, its egress class and what its
result holds. A call leaves one entry in the model's context (`ExecuteAuthorised`): the handler's
answer as `filter_for_model` lets it through, or the text of its error, which does not go that way.
An entry says what it is made of and how many characters of it were taken.

### The shared database: FindingReports, Database

`FindingReports` has orders, totals, redaction and the four formats. `Database` interleaves a `vest
scan`, a `scans delete` (five statements, `DeleteStatements`), a `findings validate` (two) and
`targets` commands over rows with foreign keys, and lets a row become unreadable (`Spoiled`);
`Ask` answers one question. `ScanLifecycle` has the scan in detail; here it only writes.

### Instances and proofs

`MCScanLifecycle`, `MCToolApproval`, `MCTraversal` and `MCCrawl` define the small instances of the
first four modules. `MCParts` extends the modules that share no state with each other: a variable
`part`, chosen at the start, says which of them moves. It is a way to check fourteen
specifications in one run, and no composition; nothing is claimed about two of them together.
`ScanLifecycleProofs`, `ScanCoverageProofs` and `ScanRecordProofs` (each extends the one before),
`ToolApprovalProofs`, `TraversalProofs` and `CrawlProofs` hold the theorems about the first four;
`ScanWorkProofs` those about the parts in which a scan does its work (tools, exchanges,
validation, pattern search, data at rest, probes, agents), `PartsProofs` those about the rest, and
what carries over to `MCParts`. Definitions whose names end in `_Something` next to an action are seeded bugs: `PROJECT.json` "mutants" puts each in
the place of the definition it is named after, and the property it is listed with must then fail.

## 3. Runs

Every run is exhaustive within its bounds. "States" are distinct states.

| Run | Instance | States | Properties and what the run shows |
|---|---|---|---|
| `scan_sequential` | 1 process, 1 scan, 2 scanners whose results may change between runs, with and without a provider, 3 faults of any kind, 8 finding identities | 53,578 | `TypeOK`; `NoFindingLost`: no crash, failed scanner, failed provider or resume loses a finding that a checkpoint makes later resumes skip; `FinishedRowMatches`: counts in the row agree with the findings; `CompletedIsFinal`; `ImplementsRecord`: the database implements `ScanRecord`; `InterruptedScanEnds` |
| `scan_overlap` | 2 processes on 1 scan, one of which may be killed | 316,331 | `NoFindingLost`, where scanners do not fail and each has one result, and `CompletedIsCovered` survive two resumes of one scan at once |
| `scan_delete` | 2 processes, 2 scans, deletes at any time, one process may be killed | 565,570 | `NoOrphans`: a delete that races with a live scan leaves no row without its parent |
| `scan_dry_run` | as `scan_sequential`, 1 fault | 337 | violated: `DryRunChangesNothing` |
| `scan_completed_reopened` | 2 processes, no fault | 596 | violated: `CompletedIsFinal` |
| `approval_single` | 1 agent, 7 kinds of call, 4 command lines, 3 iterations, bucket of 1 | 34,559 | `TypeOK`; `OnlyAuthorisedRuns`: no handler runs out of scope or without consent; `OneYesOneRun`; `YesIsHeard` |
| `approval_shared` | 2 agents, 2 calls of one tool, 2 iterations, bucket of 1 | 162,220 | `OnlyAuthorisedRuns` when tokens are shared; `OnlyTheOperatorIsWaitedFor`: whatever the lock and the terminal do, all agents end unless a question stays unanswered |
| `approval_one_shot` | 2 agents, 3 calls | 12,336 | violated: `OneYesOneRun` |
| `traversal_walk` | every layout of 2 directories and 2 files below a root, with a link from anywhere to anything; 7 sets of limits; a locked directory | 87,089 | `TypeOK`, `WithinBudgets`, `CollectedOnce`, `CompleteUnlessTruncated`: a walk that does not say it was truncated has every reachable file; `WalkEnds` |
| `crawl_site` | 3 pages, robots.txt and a foreign host; 240 sites with circular, repeated and foreign links and redirects; 6 sets of limits; any request may fail | 35,542 | `TypeOK`; `StaysInBounds`: no hop leaves the origin or goes where robots.txt forbids; `WithinBudget`; `LinksFollowed`: what no limit cuts off is tried; `CrawlEnds` |
| `crawl_unreachable` | as `crawl_site` | about 10,000 | violated: `NoFalseSuccess` |
| `parts_side_by_side` | fourteen parts, one at a time; below | 263,908 | fifteen properties; below |

### The parts of `parts_side_by_side`

`PartsTypeOK` is the type invariant of the part at work. `EveryPartEnds` is the liveness of the four
parts that wait for somebody: chain, providers, agents and nuclei.

| Part | States | Properties |
|---|---|---|
| chain | 9,013 | `OutsideAnswers` (`AnswerOrExhausted`): an answer is returned if one came in time, that of the first provider in the chain's order; an error only if nobody's answer was thrown away. `EveryPartEnds` |
| providers | 46 | `EveryPartEnds`: the test of providers ends however many do not answer |
| agents | 6,315 | `VotesDecide`: a swarm keeps one finding of each kind that was reported often enough and no other, whichever order agents end in and whichever panic; `ScannerFindingsStay`: no mode loses a scanner's finding, except that a pipeline lets an earlier one of the same title and location stand for it; `EveryPartEnds` |
| validator | 22,249 | `FindingsSurvive`: a model that fails costs no finding, and heuristics repeated over resumes wear away only noise |
| outcome | 47,940 | `ExitCodesTell`: exit code, report and row agree after every failure; `NewFindingsNoticed`: no new finding with a title passes `--fail-on-new`, whatever failed, was killed or resumed in between |
| settings | 38,331 | `NoSilentDefaults`: a reader gets what was written last, or a refusal |
| probes | 9,014 | `VulnerableReported`: neither other pages, other checks, failures nor deduplication cost a finding; nothing is sent without consent |
| pattern | 8,007 | `DataFindsAgree` (`FastAgrees`): the accelerated search finds what the plain one finds, if the pattern begins with a fixed byte |
| local | 675 | `DataFindsAgree` (`ItemsAreIndependent`): every item's findings are those it would have alone |
| nuclei | 144 | `OutsideAnswers` (`NucleiAnswerIsWhole`): findings are those of a run that ended by itself and in time, all of them; `EveryPartEnds` |
| paths | 1,776 | `ScopesHold` (`ReadStaysInside`): what is opened lies under a root, is what was resolved, and a name below a root leads nowhere else unless another root holds that |
| exchange | 476 | `ScopesHold` (`EveryHopChecked`): origin, robots.txt, addresses, budgets, and what is sent on, at each hop |
| tools | 2,792 | `NothingLeavesUnasked`: what enters the context is made of names or of what may leave, except the text of an error, which may have the URL a target redirects to |
| database | 117,130 | `NothingIsLost`: a verdict is only replaced by another; a delete takes one scan, all of it or reports failure. `ReportsTell`: a report leaves out no finding unless a row cannot be read |

### Bounds, and why they are enough

- `MaxFaults` bounds scanner and provider failures and kills together. Three let a scan lose a
  scanner, be resumed, lose the provider and be killed, after which the state has the shape of one
  met earlier. The theorems hold for any bound.
- `Runs` are the identities a finding may get (its UUID). One is taken for each run of a scanner
  and of the agent; a resume that finds none left cannot run a scanner. Eight serve four
  invocations of two scanners. A finding that is replaced gives its identity back.
- Two processes are all that matters for an interleaving of two invocations; a third adds only the
  shapes of pairs. Two scanners are needed for a scan that is partly covered, with a shared key
  for deduplication.
- `MaxIterations` bounds the calls an agent makes: three let it ask, be rejected, ask again and be
  answered. Two agents and two calls are needed for one agent's token to meet another's look. A
  `Burst` of one makes the rate limiter refuse the second call that is not refilled in time.
- The trees of `traversal_walk` have every relation a link can make: to itself, an ancestor, a
  sibling, a file, a locked directory, outside, nowhere. Each limit is in reach in one set of
  limits, and none in the others.
- The sites of `crawl_site` have chains and circles of redirects of every length three pages
  allow, a page that links to another twice, a robots.txt that is itself redirected, and limits of
  1, 2, 3 and more URLs, depth 1 and more, 1 and 2 redirects.
- `parts_side_by_side`: `MaxChain` = 2 providers have a first and a next, and both orders of their
  answers; the strategies compare neighbours only. `SwarmTasks` = 3 make majorities of two and of
  three with one task lost; `Permits` = 2 make the third wait; `Phases` and `MaxSubtasks` = 2 have
  a first and a last. `MaxRounds` = 3 resumes let a confidence fall through both thresholds.
  `MaxScans` = 2 rows are a baseline and a run against it, either of which may have failed, with
  resumes of both. Nine command lines have one refusal or gate each, and `SoCalls` pairs a broken
  configuration with the plain run and the plain resume only, since it is looked at before what
  the others differ in. Of the two findings one has a title in blanks, the other nothing but
  blanks. `MaxEdits` = 2 values are one that is overwritten by another or by a broken
  one. `WpBudgets` {6, 40} run out in the middle of a check and not at all; `WpMaxFailures` = 1
  failing request tells a finding lost to it from one lost to its neighbours. Data of up to 5
  bytes of two values and patterns of up to 3 have every overlap of two matches, at both ends; the
  theorem has the rest. `SystemLinks` = 4 stands for the 40 links Linux follows in one path and
  `MAX_SYMLINK_ITERATIONS` = 6 for the 64 of the code: a loop is longer than either, and the theorem
  has every other value of the two. `AtMaxCalls` = 2 calls are one after
  another. `ExSizes` are below, at and above the limit on the body. Two scans with a finding each
  let a delete, a resume and a verdict meet on one of them with the other to be left alone.

`CHECK_DEADLOCK FALSE` is set everywhere: processes, agents, walks and crawls end, and then
nothing more happens. That they do not stop before their end is what the liveness properties say.

## 4. Disagreements

Four runs look for a counterexample to a sentence of the documentation and find one.

1. **A dry run of a resume writes** (`scan_dry_run`). `resume_scan` marks the row running
   (scan.rs:1634) before it parses `--fail-on-severity` (1665) and looks at `--dry-run` (1667). So
   `vest scan --resume ID --dry-run` turns a failed scan into a running one on which nobody works.
   The hardening ledger says "no DB/network/scanner side effects".
2. **A completed scan is reopened** (`scan_completed_reopened`). The status is checked (1553) and
   set (1634) in two statements, the second unconditional. A resume of the same id that completes
   the scan in between is reopened. The README says "Completed scans cannot be resumed." A `WHERE
   status <> 'completed'` in the update would do; nothing else is lost (`scan_overlap`).
3. **One answer, two runs** (`approval_one_shot`). A one-shot token is found under one lock and
   removed under another, by a `try_write` whose failure is ignored. Two agents of a swarm that
   ask for the same call may both find it. For one agent this cannot happen, which is proved.
4. **Nothing answered, scan succeeded** (`crawl_unreachable`). Pages that cannot be fetched are
   logged at debug level; `crawl` returns what it has, which may be nothing, and the scanner, its
   checkpoint and the scan count as successful. The product contract says "Total scanner failure
   remains a hard non-zero error (no false success)."

### Noticed while translating

Not run against, because the code contradicts itself or nothing, or because one sentence shows it.
Each is part of the models where it changes state.

*Reports and the database.* The product contract lists under "partial" a status for budgets that
ran out; the walk has one (`CompleteUnlessTruncated`), the crawl has none. `truncate`
(terminal.rs) cuts a title at a byte: inside a character it panics, before `finalize_scan` has
stored the findings; the row stays running and can be resumed. `report generate`, `report compare`
and `targets list` take an unreadable row for no rows and succeed; `findings show` calls every
error "not found"; `findings list` orders severities as text, `info` before `medium`.

*Agents.* A single malformed draft drops a whole report (tooluse.rs). Text is cut at byte offsets
in tooluse.rs, swarm.rs and pipeline.rs, which panics inside a character. A critical finding of
confidence 0.1 to 0.3 without a class becomes a false positive: rule 3 replaces "uncertain" by
"downgraded" before rule 5, which is meant to escalate only below 0.1 (validator.rs:474).
Validation is not idempotent: a confidence falls again at each resume, and a resume with agents
may replace a verdict of triage by its own. The rate limiter is asked after the approval
(tooluse.rs:184), so a one-shot answer may be spent on a call that does not run. The prompt blocks
a worker thread of the runtime and holds stdin and stderr while it does
(interactive_approval.rs:16-34); tracing writes to stderr (main.rs:518), so an agent that logs waits
for the answer to another's prompt. The limit on a tool's answer is one on what is taken of it
(egress.rs:39): what was cut off is quoted and escaped once more, and redaction may put longer text
in place of some of it, so the message to the model may be longer. `vest policy explain` calls
`scan_for_secrets` local content where the registry calls it potentially secret-bearing.

*What reaches the model.* The error of a tool's handler is returned (tool_registry.rs:93) before
`filter_for_model` is reached, and its text becomes a message to the model (tooluse.rs:218), whatever
the flags of the session and of whatever length. If a server redirects a request out of its origin,
that text has the URL it wrote (http_client.rs:107). `docs/model-data-boundary.md:44` says "Only the
filtered value may enter conversation history / provider messages." `NothingLeavesUnasked` makes an
exception for this text and holds of all else.

*Configuration.* `vest config` looks in two places, `vest scan` takes `--config` as it is,
`providers` ignores it. `config set` does not validate. A comment says 0 derives
`files.max_total_bytes`, and validation refuses 0. A resume does not refuse a private target as a new
scan does (scan.rs:179); its requests are checked all the same.

*Scanners.* `scan_pattern_fast` with a leading wildcard misses matches or reports them twice;
memory_pattern_stress.rs:163 says both searches are equal. `FastAgrees` is restricted to patterns
that begin with a byte, which are all the scanner uses. `find_pointers` does not look at the last
window. A match cut inside a character panics the file scanner (files.rs:574). Section offset plus
size may wrap in binary.rs. A finding whose title is blank is never new to
`--fail-on-new` (scan.rs:555). Deduplication by title and class drops the second page's "Reflected
XSS in URL parameter". A scanner that is switched off is checkpointed as completed. Ports are cut
to 16 bits.

*Paths and nuclei.* Between the resolution of a path and its opening the tree may change
(`ReadStaysInside` says nothing then). A link in the middle of a path that names the root by an
alias is followed; it stays inside. A process nuclei leaves behind may hold the pipe, and then the
scan never ends: `EveryPartEnds` excludes it (`lingers`). Output that was complete is thrown away
when the killer's clock runs out first.

## 5. Fairness

- `ScanLifecycle` is safe without fairness. `FairSpec` adds weak fairness of every process's step
  (an invocation is a sequential program that the operating system runs, and every scanner and
  provider call has a timeout) and strong fairness of resuming a scan: an operator who keeps
  resuming a scan as long as it can be resumed. Without the second, a killed scan stays as it is,
  which is what the code promises: nothing restarts by itself. A bounded number of faults means
  the operator's luck turns some time.
- `ToolApproval` assumes weak fairness of `TerminalFree /\ Works(a)`: as long as nobody is at the
  prompt, tokio polls a task that can run and hands the lock to waiters in the order they came,
  and provider requests time out. While a prompt is up nothing is assumed of any agent: it holds
  stderr, to which all that is logged goes, and blocks a worker thread of the runtime. (An agent may
  go on then; it need not.) Nor is anything assumed of the operator, who may leave a prompt
  unanswered for ever. `OnlyTheOperatorIsWaitedFor` therefore says that all agents end if no
  prompt stays unanswered; two agents that come to the terminal take turns, which the locks of
  stdin and stderr do.
- `FallbackChain` and `ProviderCommands` assume weak fairness of a step: a reply or a timeout,
  which the runtime's timers guarantee. No server is assumed to answer.
- `AgentPhase` assumes weak fairness of a step of the phase: the runtime polls every task, and an
  agent ends because its requests are bounded and time out (`ToolApproval` is about its inside).
- `Nuclei` assumes that the killer's clock runs and that the killer thread and the waiting thread
  go on. Nothing is assumed of the child: it may never write, end or close the pipe by itself.
- `Traversal` and `Crawl` assume weak fairness of `Next`: a loop of one thread, or of one task
  whose requests time out.

## 6. Proofs

Checked by TLAPS, for all values of the constants that satisfy the modules' named assumptions.

| Theorem | Assumes | Says |
|---|---|---|
| `ScanLifecycleProofs!TypeCorrect` | | `[]TypeOK` |
| `ScanLifecycleProofs!NothingLost` | `Overlap = {}` | `[]NoFindingLost` |
| `ScanLifecycleProofs!CompletedStays` | `Overlap = {}` | `CompletedIsFinal` |
| `ScanLifecycleProofs!ChildrenHaveRows` | | `[]NoOrphans`, deletes and live scans racing |
| `ScanCoverageProofs!CompletedMeansCovered` | `"delete" \notin Overlap` | `CompletedIsCovered`, any number of resumes at once |
| `ToolApprovalProofs!TypeCorrect` | | `[]TypeOK` |
| `ToolApprovalProofs!ConsentFirst` | | `[]OnlyAuthorisedRuns`, any number of agents |
| `ToolApprovalProofs!OnceMeansOnce` | `OneAgent` | `[]OneYesOneRun` |
| `ToolApprovalProofs!YesHeard` | `OneAgent` | `YesIsHeard` |
| `TraversalProofs!TypeCorrect` | | `[]TypeOK` |
| `TraversalProofs!BudgetsKept` | | `[]WithinBudgets` |
| `TraversalProofs!OnceEach` | | `[]CollectedOnce`, any file system |
| `TraversalProofs!Complete` | | `[]CompleteUnlessTruncated` |
| `CrawlProofs!TypeCorrect` | | `[]TypeOK` |
| `CrawlProofs!InBounds` | | `[]StaysInBounds`, any site |
| `CrawlProofs!BudgetKept` | | `[]WithinBudget` |
| `CrawlProofs!AllTried` | | `[]LinksFollowed` |
| `ScanCoverageProofs!NothingLostOverlapping` | `"delete" \notin Overlap`, `Steady` | `[]NoFindingLost`, any number of resumes of one scan at once |
| `ScanRecordProofs!RowsMatch` | `Overlap = {}` | `[]FinishedRowMatches` |
| `ScanRecordProofs!DatabaseIsRecord` | `Overlap = {}` | `ImplementsRecord`: the three tables are a `ScanRecord`, step by step |
| `ScanWorkProofs!NothingLeaves` | | `[]NothingLeavesUnasked`, any session, build and sequence of calls; the text of errors excepted |
| `ScanWorkProofs!HopsChecked` | | `[]EveryHopChecked`, any server, resolver and budget; the part of `ScopesHold` about exchanges |
| `ScanWorkProofs!WorthSurvives` | | `[]FindingsSurvive`, any batch, replies and number of rounds |
| `ScanWorkProofs!PatternTypeCorrect` | | `[]PsTypeOK` |
| `ScanWorkProofs!FastFindsAll` | | `[]FastAgrees`, any data, any pattern |
| `ScanWorkProofs!ItemsIndependent` | | `[]ItemsAreIndependent`, any items in any order |
| `ScanWorkProofs!HolesReported` | | `[]VulnerableReported`, any site, holes, budget and failing requests |
| `ScanWorkProofs!VotesCounted` | | `[]VotesDecide`, any number of agents and permits, any reports and order |
| `ScanWorkProofs!ScannersHeard` | | `[]ScannerFindingsStay`, every mode |
| `PartsProofs!AnsweredOrExhausted` | | `[]AnswerOrExhausted`, chains of any length |
| `PartsProofs!AnswerWhole` | | `[]NucleiAnswerIsWhole`, any job |
| `PartsProofs!WrittenIsRead` | | `[]NoSilentDefaults`, any sequence of edits |
| `PartsProofs!ExitCodesAreRight` | | `[]ExitCodesTell`, any commands, failures and kills |
| `PartsProofs!NoneSlipsIn` | | `[]NewFindingsNoticed`, any number of runs; of findings whose titles are not blank |
| `PartsProofs!StoreKeeps` | | `NothingIsLost`, any number of scans and findings, every order of the statements |
| `PartsProofs!ReportsAreTrue` | | `ReportsTell`, any number of scans and findings, every order of the statements |
| `PartsProofs!OpenedIsInside` | | `[]ReadStaysInside`, any tree, roots, name and limits on links, and a tree that changes |
| `PartsProofs!PartsTypeCorrect` | | `[]PartsTypeOK`, the type invariants of all fourteen parts |
| `PartsProofs!OutsideAnswersWhole` | | `[]OutsideAnswers`, in every behaviour of `MCParts` |
| `PartsProofs!DataFindsAreThere` | | `[]DataFindsAgree`, in every behaviour of `MCParts` |
| `PartsProofs!ScopesKeep` | | `[]ScopesHold`, in every behaviour of `MCParts` |
| `PartsProofs!PartsKeep` | | eleven more proved properties of the parts, in every behaviour of `MCParts` |

`Overlap` is the set of ways in which invocations may overlap on one scan; empty means one
invocation at a time. `Overlap = {}` and `OneAgent` are not conveniences: runs
`scan_completed_reopened` and `approval_one_shot` show that the properties fail without them. Nor
is `Steady` (no scanner fails, and every run of one reports the same): when it does not hold, of
two overlapping resumes the one that ran a scanner with fewer findings may finalize last, and
replaces what the other's checkpoint stands for.

**Scan lifecycle.** `NoFindingLost` is not inductive: between the reads of a resume and its
`Finalize`, what will be stored is in the memory of a process. `SequentialInv` adds that at most one
process works on a scan, that the row of a scan being worked on is running or failed, and that
the findings a process holds, once it is going to overwrite those of the scan, include all that
the checkpoints stand for, except what an agent dismissed. `CompletedMeansCovered` needs less of
the data and more of the actors (`CoverageInv`): each scanner a process has passed on its list has
a checkpoint or made the run fail, others only add checkpoints as long as nobody deletes, and
lists are frozen; so a process that finalizes without a failure leaves none uncovered.
`NothingLostOverlapping` joins the two (`OverlapInv`): each process that may overwrite the findings
holds those of every scanner it has passed or will skip, which others do not change, since a second
run of a scanner reports what the first did.

`RowsMatch` adds to `SequentialInv` that a scan is marked running from the beginning of a run to its
finalization, and that what is about to be stored was deduplicated (`FinishedInv`): then nobody
adds findings to a finished row. `DatabaseIsRecord` is the refinement: with these invariants, in the
state before and after, every transaction is a step of `ScanRecord` on one scan or leaves row
status, list and checkpoints alone. A finalization that completes needs `CoverageInv`, a resume
that marks a row running needs that the scan is still not completed.

**Tool approval.** `ConsentFirst` rests on an invariant about tokens: a call whose key has a token
was answered with yes, grants are among those of the command line, and an agent past the policy
has a call that may run. No order among agents is needed, which is why it holds for all of them.
`OnceMeansOnce` and `YesHeard` need more (`SingleInv`): with one agent the lock is free whenever it
is tried, so the removal under `try_write` never fails; a token lies there only between the
answer and its spending; and from the answer to the run, runs of the call are fewer than answers.

**Traversal.** `Reachable` is the smallest set closed under listing, and the two main theorems go
in opposite directions. For `OnceEach`, every visited node belongs to each closed set, by
induction over steps. For `Complete`, at the end of a walk that was not cut short the visited nodes
form a closed set, so they include the smallest; the invariant says of every visited directory
that it was listed, waits on the stack or is being listed, with the entries seen so far visited.

**Crawl.** `InBounds` needs that what is about to be requested as a page is allowed, and that the
rules do not change after robots.txt has been read. `BudgetKept` needs that `requests` never
exceeds the counter of the code; the stack and the visited set balance, one leaving when
the other grows. `AllTried` is a completeness argument like the walk's: as long as no limit was
met, each allowed link of a collected page was visited, waits on the stack, or is among the links
not yet looked at; `WithinBudget` closes the case of the loop ended by its limit.

**Data at rest.** The accelerated search is at `at`; `FastFindsAll` needs that every match found
lies before it and every match that lies before it was found, in order (`LoopInv`). A jump goes
from one occurrence of the first byte to the next and cannot pass over a match, since a match of a
pattern that begins with a fixed byte begins with that byte. For `ItemsIndependent`, the findings
so far are those the items looked at so far give, each by itself (`LcInv`).

**What agents reach.** `NothingLeaves` is by cases over the tools: for each, the class
`filter_for_model` goes by is at least as strict as the source of what the tool returns. Errors do not
go that way, and are made of names unless they come of a redirect.
`HopsChecked` needs that a hop which is not the first was judged when the redirect was found, and
that after a redirect has ended a POST nothing is left to be sent (`ExInv`); the addresses of a
hop are checked at that hop, so a name may resolve to anything else before and after.

**Which file is opened.** Realpath is a run of `Follow`, one link at a time (`FollowedRun`), and two
facts about one step carry the proof. A real path is left alone by every step, so it is its own
real path (`FixedStays`, `CanonicalIs`). What stops a path stops it whatever comes behind, and is
followed the same way (`FollowBehind`), so what is there is in a directory that is there
(`ThereBelow`). From these, a path that leaves a real one and meets no link is what it was found to
be (`NoLinkLeadsElsewhere`): a name below a root opens itself, or another root has it. Of the two
limits on links nothing is assumed but that they are numbers; a run they cut short ends in
`missing` or `SymlinkLoop`. `PaInv` says that what was resolved is what one root of the scope
answers in the tree as it is, until somebody changes the tree; then nothing is claimed.

**Probes.** `VulnerableReported` speaks of the end; `WpInv` says of each place in the four nested
loops (page, check, attempt, payload) that whatever attempt could have seen a hole before that place
has reported it, or its request failed, or the counter of that check on that page is used up. The
counter at the place the scan is at is the one in use, and what lies ahead has used nothing.
Deduplication at the end is a fold: it keeps one finding of each title and class
(`DistinctKeeps`), so a reported hole stays reported.

**Agents.** `AgInv` follows what was said by whom. While agents run, the findings gathered are
those said, and for each finding as many of them share its key as ballots were cast
(`Gathered`, by `CountConcat` and `BallotsCast` each time one reports, in whatever order). Merging
is a fold over the gathered findings; its loop invariant (`Chosen`) is that of every key met so far
exactly one finding stands there if the key has the votes and none otherwise. Adding the
scanners' findings is a second fold: each is there, or one stands for it (`StandsFor`).

**Validation.** A batch judged by a model loses only what a verdict was about, and the model judges
once (`VlInv`). One judged by heuristics may be judged at every resume: what is worth keeping is
worth keeping after the rules have been applied to it, though its confidence may have fallen, so
no number of rounds removes it.

**Settings, exit codes, baselines.** A file is absent, broken, or the document of what was written
to it, and a reader's result is that of the file where it looked (`CfInv`); no default is zero, so a
zero was written. `SoInv` says what of a run has reached the row, the report and the caller at each
stage; that a finding is new is decided against the newest other row, whose findings the caller
has been told of, whatever its end was.

**The database.** `DbInv` has three parts: rows are well formed, have unique keys and refer to rows
that exist; a running scan holds all findings of it that are stored; and the tables a delete has
passed hold nothing of its scan unless it was raced and knows it. From these, each of the five
statements of a delete, of `scan` and of `validate` keeps verdicts and removes only its scan.
`NothingIsLost` is an action property of the invariant.

**Reports.** `ReportsTell` compares what an answer shows with what is stored. A list in order gives
each row its `Place`, the number of rows that come before it or are it; for rows numbered by any
keys places are all the numbers up to their count, each once (`PlacesDiffer`), so nothing is listed
twice or left out (`OrderedIs`, `OrderedLists`). The first ten of a list are ten or all (`FirstTen`),
and what a cut leaves out is no graver than what it shows (`LesserLeftOut`). All this needs finite
tables, which no step makes infinite (`StaysFinite`), and rows well formed, which is in `DbInv`.

**Types.** Most of the fourteen type invariants follow from the inductive invariants above. What they
do not say was added where it is needed to go on: that a result, or an error, is one the
program has, that what is merged and validated are findings (`KeptTyped`, `AgTypesMove`), that the
rows a run leaves have findings and a status (`SoTypesMove`), and that a payload under way is one
of those its kind of attempt has (`AtOwnPayload`): else a tenth could follow the ninth of nine.

**Parts together.** A behaviour of `MCParts` is, for each part, a behaviour of that part or one in
which it stands still (`PartsAreParts`), so what holds of each part by itself holds here.

**Data of any size.** The prover cannot do induction over data by the library's theorems, whose
parameter is a predicate. `Counting` does it by the least counterexample: a set of numbers
that has 0, and with each number the next, has all, since the least missing one (`LeastExists`,
from the well-foundedness of the naturals) could not be missing. The folds of the community modules are recursive functions, defined by a CHOOSE;
`FoldExists` builds the function by steps and `FoldSteps` then gives its two equations, from which
`FlattenKeeps`, `DistinctKeeps` and the loop invariants of the merges follow.

**Answers from outside.** A call of the chain needs to know what the providers before and after
the one it waits for have said: before the end nobody's answer is passed over, and, if they are
asked one after the other, whoever comes before a provider that was asked has been heard
(`ChInv`); of a fan-out, that all were asked or none. For nuclei it is enough that the child has
ended when the wait is over, that a child which ended well has written every line, and that the
killer is dismissed or has fired before the answer is made (`NuInv`): then nobody moves any more,
and what was counted is what there is.

## 7. Limits

**Only model-checked.** The liveness properties (`InterruptedScanEnds`, `OnlyTheOperatorIsWaitedFor`,
`WalkEnds`, `CrawlEnds`, `EveryPartEnds`): the prover does not handle fairness. Every other
property of a passing run is stated by a theorem. `OneYesOneRun` and `YesIsHeard` are proved for
one agent, as they fail for more.

**Abstractions that matter.**

- A scanner is, in `ScanLifecycle` and `ScanOutcome`, the set of results it may report. What a
  rule yields is in `ScanRules`, over features: that a regular expression or a parser recognises
  its feature is assumed. A finding is its dedupe key and an identity.
- One SQLite statement or transaction is atomic, as SQLite promises. An error of the database ends
  the invocation, as `Abort` does.
- The parts of `MCParts` are explored one at a time. `ToolApproval` and `AgentTools` take scopes
  as sets, `PathScope` and `ScopedExchange` show how membership is decided.
- `Traversal` begins from roots that are files, directories, or dangling; a root that is a device
  is left out. The file system does not change during the walk.
- `Crawl` fixes what servers answer for the length of a crawl, apart from failures. A server that
  answers differently the second time is asked a second time only for URLs reached by redirects.
  What this hides is a robots.txt that could not be read at first (web.rs:369), a hazard without a
  property: which requests the rules should have stopped is then known to the server alone.
- Effect grants expire after five minutes (policy.rs:266), a hazard without a property too.
  `GrantExpires` models it; `OnlyAuthorisedRuns` goes by the flags the operator gave, since nothing
  says what a scan that takes longer is owed.
- `ScopesHold` is about trees that stand still between resolving and opening. `PaRead` may come
  after `TreeChanges`, and then nothing is claimed.
- The text of a tool's error is made of the names the call gave, or of a redirect's URL. What else
  a library may put into it (a system's message) is taken for names.
- A URL is compared as text by the code, and as a value by the model; URLs that differ only in
  their fragment are different values. Links in `PathScope` are absolute.
- An LLM is a choice of replies, an agent a choice of reports.

**Not modelled.** `doctor`, `tools` and `sandbox`, which run programs one after the other and print.
The tables of artifacts, agent actions and scan memory, which no command writes. Regular
expressions, parsers of executables, WebAssembly and HTML; the driving of a browser; wording and
layout of results, prompts, reports and errors; progress output; payload tables; test utilities. The
synchronous paths of approval that nothing in the binary calls, and the provider registry, which
only tests use. `PROJECT.json` gives the reason for each component.

## 8. Plan

What is left, in this order:

1. **An abstract specification of a provider call** (an answer of a provider that was asked, or an
   error when none answered), and each strategy of the chain shown to implement it.
2. **Composition**: the choice an agent phase makes in `ScanLifecycle` replaced by `AgentPhase`;
   the probes behind the crawl that feeds them.
