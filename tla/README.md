# A verification development of Lwa MCP

TLA+ models of `src/lwa_mcp/`, the TLC runs that check them on small instances, and the theorems
that TLAPS proves of them for every value of the constants. Source lines are quoted as
`file.py:line`, relative to `src/lwa_mcp/`.

## 1. The system

Lwa MCP is a local control plane in Python (asyncio). A client asks for a task; the service routes
it to an AI provider, locks the route in a *preflight* plan, asks the operator for consent when the
consent mode demands it, runs the plan once, and writes what happened to a SQLite ledger. Beside it
stand consensus runs over several providers, a library of reusable workflows, terminal sessions of
the Codex program (shown by a browser dashboard or by a curses frame in tmux), and records on disk
by which agents coordinate.

One process has one event loop. The MCP server, the dashboard, the terminal frame, the supervisor
and the command line are processes of their own; each builds its own `RouterService`, and they share
the SQLite database, the tool library's directory and the environment file, none of them locked
beyond a single SQL transaction.

| component (files) | state | operations | interacts with | what is hard |
|---|---|---|---|---|
| Preflight store (`preflight.py`) | `_plans`, `_confirmations` | `create`, `approve`, `consume`, `purge` | the service | late purges; two maps that must agree; a refused plan is put back |
| Router, provider policy (`routing.py`, `provider_policy.py`) | consent mode, session pins | `decide`, `stick`, `sticky_for` | catalog, ledger, configuration | decided at the lock and again in the middle of a run; pins shared by a session's plans |
| Single-route plans (`service.py:261-753, 901-915`) | the plans' coroutines, the session's budget | prepare, approve, run, fall back | everything | what changes between lock and call; retries; cancellation; a row at "working" after a crash, or behind its plan after an update that raised |
| Consensus (`service.py:490-608, 755-893`) | the locked quorum | prepare, votes, synthesis | as above | concurrent votes of which some fail; who may synthesise |
| Ledger (`db.py`) | requests, events, patterns, settings | open, migrate, quarantine, one transaction each | all processes | a file that is moved aside while others write it |
| Pipeline manager (`pipeline_manager.py`) | probe cache, probes in flight | `check`, invalidation | catalog, adapters | coalescing, cancelled waiters, rows older than their settings |
| Tool library, patterns (`tool_library.py`, `patterns.py`) | `registry.json`, `workflow_patterns` | create, register, update, run, observe | ledger, other processes | unlocked read-modify-write, crashes between steps |
| Catalog, health (`catalog.py`, `service.py:1116-1164`) | models, health per provider | refresh, quota refresh | adapters | overlapping refreshes; flags nothing sets back |
| Environment file (`credentials.py`) | `lwa.env` | save, delete, wizard | dashboard threads, wizard | one temporary name for a process's threads |
| Codex broker (`codex_session.py`, `dashboard.py`) | sessions, sinks, children | create, attach, detach, discard | browsers | awaits between closing and unregistering; sinks that raise |
| Bridge and launches (`launch.py`, `codex_bridge.py`) | tmux windows, child, socket, keys | launch, serve, close | tmux, the frame | five things started one after the other; one key table for all |
| App server (`codex_app_server.py`) | a child per call | `request`, `complete` | the child's pipes | notifications before the response; a timeout per line and none for sending |
| Terminal frame (`terminal_frame.py`) | prompts, feed, selection, busy flag, tasks | keys, pipeline, copy, leave | the session, a service | everything interleaves at every await |
| Editor, filters (`prompt_editor.py`, `terminal_protocol.py`, `image_compositor.py`) | a text; an unfinished sequence | keys; `feed` | the frame | reads cut anywhere, also through a credential that is to be masked |
| Pets (`pet_renderer.py`) | mood, track, picture | select, act, draw | the frame | mood, track and screen drift apart |
| Task ledger, ownership (`task_ledger.py`, `write_ownership.py`) | tasks and journal in SQLite; a JSON file | claim, move, stop; grant, delegate, revoke | several agents | two commits; no lock |
| Rites (`rite_pipeline.py`, `rite_state.py`) | last commit tried; worktrees | `run_rite` | git, agents | failures between any two steps |
| Polymino control (`static/polymino-control.js`) | stack, bag, storage | moves, snapshot, reload | the browser | queue and seed must agree after any import |

What makes each part correct is said in section 4, property by property; the hazards they are aimed
at are listed, with their lines, in `PROJECT.json`.

## 2. Modules

| module | models | state and actions |
|---|---|---|
| `Clock` | the wall clock | `now` only grows, up to `MaxTime` |
| `Preflight` | `preflight.py` | `plans` and `confirmations` are the keys of the dictionaries, the other variables fields of a plan's summary. `Create`, `Approve`, `Consume` are the methods; `Reject` is a call that is refused, which purges all the same. No method contains an await, so each is one step |
| `ConsentContract` | the abstract promise of a plan | locked, cleared, worked or lapsed |
| `Routing` | `routing.py`, `provider_policy.py` | `Eligible` is the gates of `_rejection_reason`, `Decide` the sort and the quality floor, `Pinned`/`Stick` the pin. Gates on the provider's own condition are membership of `ready`; the score is a given order |
| `PlanExecution` | `service.py`, single-route plans | extends `Preflight` and `Routing`. `run[p]` says at which await a run is suspended or how it ended; an action is the code between two awaits. `row` and `used` are the ledger and survive `Restart`; `UpdateRow` is `update_preflight_status`, which may raise |
| `Consensus` | `service.py`, consensus plans | extends the same two. `vote[p][q]` is where a voter's coroutine is; `queue` the synthesis routes left; `Complete` and `Close` are the two ends of a run |
| `UsageStore` | `db.py`'s opening, migration, quarantine, fallback place and row updates | the directory as a map from place to file, a process's descriptor, the backups |
| `ProbeCache` | `pipeline_manager.py:28-53, 150-221` | one cache row, the registered task, the tasks alive, who waits for which |
| `ToolLibrary` | `tool_library.py`, `patterns.py`, `db.py:379-429` | an update is `Read` (`Get`) `Open` `Fill` `Rename` (`Bind` or `WriteSource`), and processes interleave between them; `Slugs` is `_unique_slug`, `source` whose script lies under a slug |
| `Catalog` | `catalog.py`, `service.py:1116-1164` | refreshes and quota calls, one request per provider out, their answers in any order |
| `EnvFile` | `credentials.py:249-537` | files are inodes; `ReadCustom` `OpenTemp` `FillTemp` `RenameTemp` are the steps of a save |
| `CodexBroker` | `codex_session.py`, `dashboard.py:67-148` | sessions, sinks, child and reader, and where each socket's handler is suspended |
| `Surface` | `launch.py`, `terminal_launchers.py`, `codex_bridge.py`, the session classes | per launch its mode, frame, bridge, Codex and socket; the keys of the one tmux server, bound one by one; `Killed` and `BridgeDies` are the deaths of frame and bridge |
| `AppServer` | `codex_app_server.py` | the pipe's lines, the call's position, the child; `Drained` and `SendFails` end a send |
| `TerminalFrame` | `terminal_frame.py`'s `_interactive` | keys, focus, drafts, feed length, selection, the task in `hand`, the copy, the session, the steps of leaving |
| `KeyReader` | `_read_key`, `_read_bracketed_paste` | characters that have and have not arrived |
| `PromptEditor` | `prompt_editor.py` | an editor is a record and a key a function of it |
| `CodexStream` | `_emit_terminal`, `TerminalStreamFilter`, `ImageCompositor` | what is left of the stream, what each filter keeps; `Redact` is `redact_terminal_text` on one read |
| `Pets` | `pet_renderer.py` and the pet of the frame | mood, track, frame number, what is on screen |
| `TaskLedger` | `task_ledger.py` | the table and its journal; `CreateTask` and `LogCreated` are its two commits |
| `WriteOwnership` | `write_ownership.py` | the file's records; a write is `Truncate` then `Fill`; a scope is the set of paths it matches |
| `Rites` | `rite_pipeline.py`, `rite_state.py`, `worktree_transaction.py` | where each process is in `run_rite`, the state file, the worktrees |
| `Polymino` | `static/polymino-control.js` | one record, with what was drawn and locked as its history; a key is a step, and so is an export, an import and a refused import |
| `*Proofs` | theorems of section 5 | |
| `MC*` | the instances of section 4 | |

**Composition.** `PlanExecution` and `Consensus` extend the store and the router, so every step of
the store is a step of the service. The rest have no variable in common. `MCStores`, `MCStreams`,
`MCTerminal` and `MCToolLibrary` put several of them side by side: an initial choice names the one
that a behaviour exercises, and the others stay as they were. That checks exactly what separate
runs would (an invariant of one is untouched by the steps of another), without multiplying the
state spaces.

**Abstractions.** Prompts, texts, scores and wording are left out; tokens are named by their plan
(each nonce is bound to one); a request is what it allows and excludes; a provider's answer is which
of the outcomes the service tells apart; characters, lines and sequences are the kinds that the
readers tell apart; a picture or payload is a name.

**History variables**, marked so in the modules, record what the code does not keep and a property
needs: for example `missed` (plans of which an update of the row raised), `disturbed` (broker: sessions
whose sinks raised or that were joined while they started), `cancelled` and `moved` (probes),
`reviewed`, `seen`, `hasty` and `overlapped` (library: slugs that were approved, scripts that were
there then, slugs approved without one, updates that overlapped), `doubled` (database: two quarantines
in one second), `crossed` (environment file: writes that overlapped), `crashed` (launches: bridges that
were signalled, killed or could not start their child), `meddled` (frame: a debug snapshot asked for
while a task was at work), `blurred` (keys read in pieces), `split` (a read that began inside a
credential), `torn` (game: a snapshot refused half-way), `dropped` (worktrees whose removal failed).

## 3. Fairness

- `PlanExecution`, `Consensus`: weak fairness of `Resume(p)`, the step that ends a suspension. The
  adapters call providers with a timeout and the sleep is a timer; the Codex adapter's calls are the
  exception, whose end rests on the conditions of `CallsEnd` below. Nothing forces a *good* outcome,
  an approval, or that a locked plan is ever run.
- `ProbeCache`: weak fairness of starting a created task, of the end of a health call (which has a
  timeout) and of waking a caller whose task is done. Callers need not ask.
- `CodexBroker`: weak fairness of the return of a spawn and of the end of a cancelled reader, both
  of which the event loop brings about. Clients need not leave and children need not exit.
- `Surface` (`SurfaceFairness`): a frame that closes gets to its end and returns, a bridge that was
  started listens, then serves or fails to spawn, stops for some cause and cleans up. Each of these
  steps is the next statement of a running process; that a bridge stops at all is justified by the
  wait for the first client, which is one of the tasks whose first end stops it and ends by a client
  or by its timeout (`codex_bridge.py:263-300`). Nobody needs to quit, and no child to exit by itself.
- `TerminalFrame` (`FrameFairness`): the steps of leaving, once the user or the end of the session
  has begun them: cancelled tasks end, the session is closed, the loop ends.
- `AppServer` (`AppFairness`): the client reads a line that is there, gives up on a line that is not
  (`asyncio.wait_for`), a send to a child that is gone fails, and a terminated child exits. The child
  need not write, stop writing, read or end. The timeout starts anew with each line
  (`codex_app_server.py:95, 129`) and sending has none (`:123`), so `CallsEnd` states as its conditions
  that the child reads what it is sent and does not write for ever: the call of a child that does
  either never ends, and TLC shows so when a condition is dropped.
- All other modules: no liveness is claimed, no fairness assumed.

## 4. Runs

| run | question | instance |
|---|---|---|
| `plan_execution` | does the ledger follow, are calls bounded and routes open, does every run end? | two plans, three providers (one billed, one outside the chain and under the quality floor), a cap of 1, pins that last and that lapse, one change of the world or update of a row that raises |
| `consensus` | is a quorum independent, are billed calls cleared, is the transcript complete? | one plan; free, billed and unpriced providers; every wanted quorum; two opinions; two changes of the world or updates of the row that raise |
| `probe_cache` | how many probes, how fresh, of which settings, does every caller get a row? | two callers, two settings, three tasks alive, clock to 2, two changes or cancellations |
| `codex_broker` | are slots and children ever lost? does a session that everyone left end? | three sockets, a limit of one session, two identifiers |
| `tool_library` | which scripts run, and what survives, when processes share the library or the database? | two processes, a pattern with two observations, two registrations under two slugs, three other operator calls or crashes; or two processes, one row, three files, a clock of one second |
| `stores` | plans and their contract, task journal, ownership, rites, environment file, catalog | three plans with lifetime 1 and clock to 3; one task, two agents, five events; two writers and processes, three scopes, three records; two runners and commits, three tries; two threads and a wizard, three saves; two providers, two refreshes and a quota call |
| `streams` | editor, filters, key reader, game, app-server | texts of five characters; three sequences in every cut, of which a compositor keeps a tail of three tokens, two parts that wait and two frames; two pastes, keys or answers; a board of three by two with pieces of two and five cells, three shuffles and two exports, the second of a torn game; a pipe of three lines, and a child that may write for ever |
| `terminal` | launches, the frame, the pet | two launches in every combination of modes; one frame of each kind with two tasks and a feed of three rows; two pets of which one has assets |
| `fallback_consent` | "paid and Puter user-pays routes require approval" (`README.md:22`) | violated: one plan, a free and a billed provider, mode `paid_only` |
| `env_file_atomic` | "Atomically write recognized values" (`credentials.py:261`) | violated: two threads of the dashboard |
| `key_ownership` | "Remove only the root bindings owned by the current LWA launch" (`launch.py:179`) | violated: two native launches |
| `polymino_reload` | "preserves seed, score, and display toggles across reloads" (`static/polymino-control-workflow.html:56`) | violated: one score and one reload |

What the properties say:

- *Plans* (`plan_execution`): `LedgerFollowsPlan`, whichever updates of it raise the row of a plan
  is never ahead of what happened to it, and if none raised it tells how the plan stands, through
  fallbacks, failures after the answer, cancellations and restarts; `RoutesStayEligible`, no call
  goes to a provider that was exhausted for this run or is billed against the request; `CallsBounded`,
  at most two calls per provider reached; `WorkEnds`.
- *Consensus*: `QuorumIsIndependent`, `BilledCallsCleared`, `SynthesisSeesEveryVote`,
  `CompletedOnEvidence` (a run is completed when every vote is in, and either the first two reviews
  agree and nobody synthesised, or they do not and the answer is the synthesis of the locked route or of
  a reviewer), `LedgerFollowsRun` (as above, of the run's row), `ConsensusEnds`.
- *Probes*: `ProbesCoalesce`, one call more at most for each cancelled waiter; `AnswersAreTrue`, the
  row a caller is told is recent enough and of the settings it asked about, unless these moved while the
  task that measured it was alive; `CallersAnswered`.
- *Broker*: `ClientsHaveTheirSlot`, `ChildrenAreRegistered`, `LeftSessionsEnd`, each with the
  disturbances that break it named in it.
- *Library and database*: `ScriptsNeedReview`, an approved script entry has a slug an operator
  approved; and while no two updates overlapped, a script that is started was there at an approval of its
  slug, or the slug was approved before its script was written. Overlapping registrations of one name
  share a slug and overwrite each other's script, and the approval of one runs the other: the property
  excepts them;
  `ToolsSurviveAlone`, what survives while updates do not overlap, crashes included; `RowsAreKept`,
  a row is in a database or a backup unless two quarantines fall in one second.
- *Stores*: `ConfirmationsNameWaitingPlans` and the refinement `ImplementsContract`;
  `JournalTellsTheState`, the journal ends with the state of the table, and a stop holds until a new
  claim; `ScopesStayApart`, two owners' scopes do not overlap unless one delegated; `TreesAreRemoved`;
  `SavesAreWholeUnlessCrossed`; `FailedDiscoveryHidesSeeds`.
- *Streams*: `VerticalMovesReturn`, up and down come back to the column they left; `TextIgnoresTheCuts`,
  the text shown is that of all the redacted reads, wherever they cut, and while no read began inside a
  credential that is the text of the redacted whole (redaction sees one read at a time, so a credential
  that is cut is shown in part); `FramesAreWhole`, a cut stream makes the frames of the whole one, and a
  frame has all parts of its image, in order, until a payload was refused (`issues`);
  `KeysAreWhatWasMeant`; `CallsEnd`, a call whose child reads and does not write for ever ends with its
  child gone; `StackIsSettled`, no full row stays, and a piece collides only when the run is over or the
  game is torn; `PiecesFollowTheSeed`, what was drawn and what is queued are what the seed gave, unless
  the game is torn, and every piece drawn was locked, falls or is held, exactly once.
- *Terminal*: `NothingIsLeft`, a Codex process has a frame that has not ended (a killed one keeps its
  pane) or a bridge that will end it, and a launch that is over has left no socket, unless its bridge
  was signalled, was killed or could not start its child: it handles no signal, so its child, in a
  session of its own, and its socket file stay; `KeysNameLaunches`, keys do not outlast the launch that
  bound them unless it was killed; `SurfacesEnd`; `BusyTellsTheTruth`, unless a debug snapshot was
  asked for while a task was at work; `SelectionsNameText`, the row numbers of a selection are rows the
  feed has (not which text they stand for by then); `ExitCompletes`; `PetShowsItsState`.

Why the bounds suffice. Two plans are what it takes for one to pin the session, use up the cap or purge
while the other is suspended; a third in the store lets one be purged while two are left. Three sockets
let one leave a session and a second join it while a third is given its slot. Three providers allow a
fallback of a fallback, and a quorum of two with a synthesiser apart. Two processes (threads, agents,
launches, writers) are what any unlocked file needs to be crossed, and the third saver is of another
process, so that names are shared and not shared. Each clock bound lets the longest lifetime of its
instance pass. A feed of three rows drops some in every behaviour; five events let a task be claimed,
stopped, claimed again and completed; five characters hold three lines of different length; three
shuffles let the queue run into a second bag. `MaxChanges` bounds what the world does around the runs,
and every hazard listed needs at most two such events. Every bound is a named constant.

Deadlock is checked in every passing run: each has a step for the quiet state or calls that can
always be refused; `MCStores` and `MCStreams` allow an explicit stutter, because a behaviour that has
used up its bound is over. `MCStores` uses symmetry of `Agent`, `Process` and `Writer`, whose values are
model values that no definition names; it checks safety only.

Each property of a passing run is paired in `PROJECT.json` with a *mutant*: an operator, commented
as such beside the definition it alters, with a plausible bug that makes TLC report that property.

What the violated runs show:

- `fallback_consent`: after an exhausted quota the run decides a new route (`service.py:733`) and
  does not look at its `requires_confirmation`. If the request allows paid routes, a plan locked
  without approval on a free one calls a billed provider in `paid_only` mode.
- `env_file_atomic`: `write_env_securely` names its temporary file after the process; two threads of
  the dashboard truncate, fill and rename the same one, so the environment file is for a while, or
  until the next save, what neither wrote. `SavesAreWholeUnlessCrossed` is what does hold.
- `key_ownership`: `_cleanup_native_focus_bindings` unbinds by key name whoever bound the key last.
- `polymino_reload`: the start resets the game and then logs, and logging saves the session.

Facts that the models show and no run of their own checks (each a behaviour of the code as it is
modelled): the first fallback pins the session, so a second exhausted quota ends the run with
providers of the chain untried (`service.py:744`, `routing.py:143`); a synthesis request that finds
no provider is retried without any exclusion, the caller's included (`service.py:589`); a cancelled
waiter unregisters a probe that the shield keeps running (`pipeline_manager.py:172`); two updates of
the library share `registry.json.tmp` and one can publish what the other has truncated
(`tool_library.py:61`); a socket whose first message fails discards a session that others use
(`dashboard.py:148`).

## 5. Proofs

Everything below is proved for all values of the constants, under the assumptions named in the
modules (naturals where bounds are, sentinels outside the sets they are added to).

**`RecursionLemmas`** stands in for induction, whose library theorems take a predicate as a
parameter. A nonempty set of naturals has a least element (`LeastNatural`, from the well-foundedness
of the naturals); a *set* that has 0 and, up to a bound, every number whose predecessor it has
contains all up to the bound (`UpTo`); and a recursive function over an interval exists and satisfies
its equation (`ComputedUpTo`). The proof modules below cite them.

**`PreflightProofs`** (assumption `PreflightAssumption`). That a confirmation names a stored plan that
waits is kept by `Create` only if a fresh plan is not in the store, which follows from the status of
what *is* stored; and `Consume` keeps "a waiting plan has its token" because it removes the plan with
its tokens. So they are proved together: `StoreInv == PreflightTypeOK /\ ConfirmationsNameWaitingPlans
/\ WaitingPlansCanBeApproved /\ StoredPlansAreOpen`. From it follow `TokensNameWaitingPlans`,
`NoPlanIsStranded`, the action properties `PlansAreSingleUse` and `ExpiredPlansNeverMove`, and
`StoreImplementsContract`: under `phaseOf` every step of the store is a step of `ConsentContract` or a
stutter.

**`ExecutionProofs`** (`ExecutionAssumption`, `RoutingAssumption`, and the store's) cites the lemmas of
`PreflightProofs` for the store inside the service. `ExecutionInv == TypeOK /\ StoreInv /\ \A p \in
Plan : PlanInv(p)`, where `PlanInv` says that a run is idle exactly until its plan is spent, that a
stored plan's route is one its request allows, that an active route is open to its run, what a run has
used of its calls, and that its row is not ahead of plan and run, and is exact unless an update of it
raised (`missed`). `LedgerFollowsPlan` needs the store's invariant because the row of a plan that
starts is known only from it; `RoutesStayEligible` needs the locked route, because the first call
decides nothing; `CallsBounded` is not inductive, because after a rate limit a run is allowed one more
call only if it has not retried: `CallsUsed` counts two calls for each provider given up and, of the
present one, a first before the retry and a second after. The router's part is a few lemmas, which
`PreflightProofs` holds because both kinds of plan need them: a nonempty set of indices has a least one
(`LeastNatural`), so what `Decide` chooses from a nonempty set of candidates is one of them. Theorems:
`ExecutionInvariant`, `ExecutionTypeCorrect`, `LedgerAlwaysFollows`, `RoutesAlwaysEligible`,
`CallsAlwaysBounded`.

A restart forgets the stored plans, which the contract allows as a lapse of all of them, so the
refinement of the store lifts to the service: `ExecutionImplementsContract`.

**`ConsensusProofs`** (the same assumptions, and `ConsensusAssumption`). `ConsensusInv` says that a run
which synthesises has every vote in, a review among them and no agreement, and that a row is never
ahead of plan and run, and exact unless an update of it raised; `LedgerFollowsRun` follows. `LockInv`
strengthens it for what was locked: where the answer of a completed run comes from (`Sourced`, from
which `CompletedOnEvidence` follows), the voters are free providers, a billed synthesis route was
allowed and its plan gated, and the queue of a run that waits for a synthesis holds the locked route
and voters that reviewed. From it follow `BilledCallsCleared` and `SynthesisSeesEveryVote`. The quorum
and the queue are computed by recursive functions up to a bound (`pick`, `queued`); what they yield is
proved without induction over a predicate: if a fact failed of some number up to the bound it would
fail of a least one (`UpTo`), so a function that satisfies the equation exists (`ComputedUpTo`) and
what it yields grows to a quorum (`QuorumIsQuorum`) or stays within what may be asked
(`QueueIsAskable`). Theorems: `ConsensusInvariant`, `LedgerAlwaysFollowsRun`,
`AlwaysCompletedOnEvidence`, `ConsensusImplementsContract`, `LockInvariant`,
`BilledCallsAlwaysCleared`, `SynthesisAlwaysSeesEveryVote`, and the action property
`QuorumAlwaysIndependent`.

**`InProcessProofs`**: what one process keeps in memory.

- *Probes* (`ProbeAssumption`). `ProbesCoalesce` bounds the tasks that run by the callers that were
  cancelled, and is not inductive: `ProbeInv` counts the tasks under way that are not registered
  (`OrphansAreCounted`) and knows that a registered task has a caller, which will unregister it
  (`RegisteredIsAwaited`). `AnswersAreTrue` needs to know of the cached row, of every task and of every
  caller's task under which settings it measures, or that they moved meanwhile (`CacheFits`,
  `TaskFits`, `WaitFits`). Theorems: `ProbeInvariant`, `ProbeTypeCorrect`, `ProbesAlwaysCoalesce`,
  `AnswersAlwaysTrue`.
- *The prompt editor* (`EditorAssumption`). The line of a place is how many newlines are before it,
  which is the rank of the line's start among the starts (`StartsAndNewlines`, by `UpTo`). So every
  line has a start (`RankIsTaken`), a column puts the cursor on the line it was meant for
  (`PlaceIsOnLine`), and the move back finds the same line and the kept column (`VerticalReturns`).
  The invariant adds that the cursor is where its column puts it: every other key forgets the column
  (`CursorIsPlaced`). A draft set from outside moves the cursor and keeps the column; of it the
  property does not speak. Theorems: `EditorInvariant`, `VerticalMovesAlwaysReturn`.
- *The filter of the output* (`StreamAssumption`). The law is `StripOfMore`: to filter a text and more
  of it is to filter the text, and then what was incomplete at its end together with the more. `Strip`
  is a recursive function from the end of the text to its front, so the law is proved place by place in
  that order: the function exists and is unique (`ReadingExists`, `ReadingIsOne`), what a place shows
  depends only on the text behind it (`EndOfText`), and a sequence that is complete ends at the same
  place however much follows (`PastOfMore`). Redaction is a token by token mask, so what two texts are
  masked to is what their join is, unless an assignment goes across (`RedactsInTwo`). Theorems:
  `StreamInvariant`, `TextNeverKnowsTheCuts`.
- *The images of the output* (`StreamAssumption`, and `PieceAssumption`: the child cuts none of its own
  sequences, and a payload is where a graphics sequence has its payload; the second part of
  `FramesAreWhole` needs it, the first does not). Both parts are said of the whole text, what was fed
  and what is left, which no read changes. `Runs` says how far each place of that text was read: which
  sequences end by there, and what came of them. A turn of `feed`'s loop takes the next sequence
  (`TurnTakes`) or drops what no sequence starts in (`TurnTrims`), wherever the reads cut, so a
  compositor with nothing complete pending is as far as `Runs` says (`FeedReads`), after one read as
  after many; the loop ends within as many turns as there are characters because a turn takes at least
  one or is the last. That frames are whole is then a fact about the text alone (`RunKeepsImages`): the
  parts that wait are the last that were sent of their image, back to the one that ended the image
  before. Theorems: `CompositorInvariant`, `FramesNeverBreak`.
- *The polymino control* (`PolyminoAssumption`: every piece fits on an empty board and above it, and a
  bag names every family). A turned piece stays in a box (`OrientationsAre`), so a piece that enters an
  empty board does not collide (`SpawnedFits`). Lines are cleared in as many passes as there are rows;
  a pass that finds a full row leaves one more row at the top empty (`PassEmpties`), so after the last
  no row is full (`LinesAreCleared`, by `UpTo`). `PiecesFollowTheSeed` is kept piece by piece: a draw
  puts one more shuffle behind what was drawn and queued (`DrawnIs`), a piece that enters moves from
  the queue to what was drawn (`SpawnNextIs`, `TimesOfMore`), and one that is locked or held is counted
  where it went (`LockIs`, `HeldIsPlaced`). The counts hold of every game, torn or not, the order and
  the place of the falling piece of those no refused snapshot tore; all of it is known of the exported
  snapshot too, with whether its game was torn, or an import would lose it. Theorems: `PolyInvariant`,
  `StackStaysSettled`, `PiecesFollow`.

**`LibraryProofs`**: files that processes share without a lock.

- *The tool library* (`LibraryAssumption`). A script's review is not in the registry alone: it travels
  in calls, in the copies that updates have read and in the temporary file, so `ReviewsTravel` asks it
  of all of them, the unreadable contents excepted: that part of `ScriptsNeedReview` needs no condition
  on how processes overlap or where they crash. That the script under an approved slug is still the one
  that was there needs that no two registrations have one slug, which `SlugIsOwn` says of updates that
  overlapped with none. `ToolsSurviveAlone` is an action property of updates
  that overlapped with none; `UpdatesAreAlone` says what such an update has in its hands at each step:
  all that the registry has (`AloneWithAll`). Theorems: `LibraryInvariant`, `LibraryTypeCorrect`,
  `ScriptsAlwaysReviewed`, `ToolsAlwaysSurvive`.
- *The database file* (`UsageAssumption`). A row is safe because the file it was written to has a
  name; so `OpenedStays` says that whoever is about to write has a file open that a place or a backup
  still names, as long as no backup was overwritten. Theorems: `UsageInvariant`, `RowsAlwaysKept`.

**`StoreProofs`**: records on disk by which agents and processes coordinate.

- *Task ledger* (`LedgerAssumption`). That stopped work is taken anew before it is completed is a
  property of the journal alone, but a "complete" is written because of the state in the table.
  `RestsUntilTaken` ties the two: after a stop the task is blocked, pending or failed, or the journal
  has a later claim. Theorems: `LedgerInvariant`, `JournalAlwaysTells`.
- *Write ownership* (assumption `ScopesAreLaminar`: two scopes are nested or disjoint, as `fnmatch`
  sees patterns that match one another; with patterns that intersect and do not contain one another
  paths may have two owners, because `grant` compares patterns and not paths). The invariant adds that
  every list a process has ready to write is apart too, and that a delegation that waits for its
  second read has been checked. The laminar assumption is needed for `PathsAlwaysHaveOneOwner` only:
  `ScopesAlwaysApart` holds for any scopes, and without a condition on how reads and writes overlap. A
  race of two writers loses a record (both report success), it never lets in one that was not checked.
  Theorems: `OwnershipInvariant`, `ScopesAlwaysApart`, `PathsAlwaysHaveOneOwner`.
- *Rites* (`RitesAssumption`). A worktree is of a rite between its creation and its `finally`, or was
  dropped by a death or a removal that failed. Theorems: `RitesInvariant`, `TreesAlwaysRemoved`.
- *Environment file* (`EnvAssumption`). That the file is whole is known only from what is renamed in
  its place, so `EnvInv` says of a thread that is alone at its process's temporary file which inode the
  name stands for and what it contains at each of its steps (`Undisturbed`), and that no two names stand
  for one inode (`TempsAreApart`). A new file is nobody's because there are more inodes than files in
  use, a fact about cardinalities (`InodeIsFree`). Theorems: `EnvInvariant`, `SavesAlwaysWhole`.
- *Catalog* (no assumption). The property is inductive with its types, because a merge and a failed
  discovery each set seed and live models in one step. Theorems: `CatalogInvariant`,
  `FailedDiscoveryAlwaysHides`.

**`TerminalProofs`**: what a terminal shows and leaves behind.

- *Launches* (`SurfaceAssumption`). "A launch that is over has no Codex alive" is not inductive: the
  frame that ends must know that it had none or has ended it. `BridgedCodex`, `FramedCodex`,
  `ServedSocket` and `BoundKey` say, by mode, in which phases of frame and bridge the child may be
  alive, the socket be there and a key be bound, in launches whose bridge did not die. Theorems:
  `SurfaceInvariant`, `SurfaceTypeCorrect`, `NothingIsEverLeft`, `KeysAlwaysNameLaunches`.
- *The frame* (`FrameAssumption`). The busy flag is true exactly while a task is in hand; only a native
  frame has a selection that an arriving line can cut, so `SelectionIsNative` strengthens
  `SelectionsNameText`. `BusyTellsTheTruth` excepts a frame in which a debug snapshot was asked for
  while a task was at work (`meddled`). Theorems: `FrameInvariant`, `FrameTypeCorrect`,
  `BusyIsTheTruth`, `SelectionsAreText`.
- *The pet* (`PetsAssumption`, `LengthAssumption`). The track is not always the mood's, because a
  welcome or an action plays on: `Playing` says which tracks go with which mood, and `Believed` that a
  frame which holds a picture to be painted has painted the one it would paint now. Theorems:
  `PetsInvariant`, `PetAlwaysShowsItsState`.
- *The session broker* (`BrokerAssumption`). The promises speak of attached clients and registered
  sessions; the invariant adds what holds halfway: a client's sink is there from the moment it attaches
  (`IsReached`), a session that is being started has no child, no reader and one handler unless it was
  joined (`StartsAlone`), a live child or a failed reader outside the registry means a disturbed
  session (`SessionInv`), and there are never more registered sessions than the limit (`WithinLimit`).
  Theorems: `BrokerInvariant`, `ClientsAlwaysHaveTheirSlot`, `ChildrenAlwaysRegistered`.
- *The key reader* (`KeyAssumption`: no pasted text has the end of a paste in it; a terminal that let
  one through would end the paste there). That every key is read as it was meant is not inductive: the
  invariant says that what has not been read is a queue of whole items, that what was meant is what was
  read and then the queue, and that a lone Escape is the last of it (`Queue`, `Pending`). An item at the
  front is read as its event and nothing behind it is touched (`ItemIsRead`). For a paste that rests on
  a function from the end of the characters to their front, which is followed place by place
  (`PasteStep`): an Escape in the text takes five characters with it, and these are the text's own
  unless it hides the closer. Theorems: `KeyInvariant`, `KeysAreMeant`.

The type invariants of the modules with proofs are theorems, not run properties. The strengthened
invariants were checked by TLC on the instances of section 4 before they were proved.

Only model-checked: liveness under fairness (`WorkEnds`, `ConsensusEnds`, `CallersAnswered`,
`LeftSessionsEnd`, `SurfacesEnd`, `ExitCompletes`, `CallsEnd`), which is out of the prover's reach.
Every safety property that a passing run checks is a theorem. For the definitions that recur over
sequences `UpTo` stands in for induction over the data.

## 6. Not modelled

- Manual routing mode and several models of a provider; the score is a given order.
- The derivation of readiness from health, credentials and settings for routing (it is the set
  `ready`, which a change moves at any time; `Catalog` has where health comes from).
- When two reviews are alike (a similarity threshold; a review is an opinion here), and
  `_compact_consensus_transcript`, which cuts the middle of a long transcript.
- Manifests, wrappers and the catalog page of the library, which are written from the entry.
- The session budget of `prepare_prompt` (`service.py:406-474`): arithmetic on one counter. The
  preparation it awaits has no await that suspends, so deciding and reserving are one step.
- Of `redact_terminal_text` the patterns other than an assigned credential: a bearer, a token or a
  payload is masked within a read in the same way.
- A failed removal of a tmux key binding at the end of a launch; a failed binding is modelled.
- Drawing, layout and wording of the frame; decoding of images; scores and levels of the game.
- The tmux commands themselves, terminal emulators, argument parsing, HTTP adapters, subprocess
  wrappers, reports: input and output of the host, marked so in `PROJECT.json`.
- The process of a launch after its `run()` has returned: in `Surface` it is over then, though a
  thread that still waits for standard input may keep the process for a while.
- `stop_controller.py` and the `ConsentGate` of `consent.py`, which nothing in `src/` consumes.

## 7. Plan

Done: every component of section 1, and a theorem for every safety property that a passing run
checks. Left, in this order:

1. The frame composed with the launch: `TerminalFrame`'s session end as `Surface`'s.
2. Readiness derived from `Catalog`'s health in `Routing`, and manual mode.
