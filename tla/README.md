# parcad: verification

TLA+ models of parcad's shared state and of the protocols around it, checked with TLC
and, where a theorem is worth it, proved with TLAPS. Every definition translates the
code; `PROJECT.json` names the lines. This file says what the system is, what is
modelled, what each run shows and what is left.

## The system

parcad is a CAD program whose parts are JavaScript files. A *host* (Rust,
`crates/parcad-host`) runs on the user's machine, on a server for many accounts, or as
wasm in a browser tab. *Editor windows* (`app/src`) show a part and rebuild it as it is
typed; *agents* edit the same part over MCP. Geometry runs in separate worker processes.

| component | state | operations | what makes it correct |
|---|---|---|---|
| Live session (`session.rs`) | per tenant: name, script, revision, origin; a broadcast channel of 64; the viewers' reports | push, open, set_script, subscribe, report_shown, wait_until_shown | a push that did not know of an edit does not undo it; a revision names one text; a window's echo of a change commits nothing |
| Event stream (`http.rs` session_events, `EventSource`) | the first event, a receiver's queue | connect, deliver, lag, drop, reconnect | a window learns of every change, or of a later one |
| Editor window (`engine.ts`) | document, saved text, debounce timer, running/dirty, shownPath, lastReport, sessionRevision | start, type, openProject, schedule, run, apply an event, report, save, rename | what it shows converges to the session; what it reports, and what its titlebar says of the file, is true; typing is not lost |
| Agent calls (`mcp.rs`, `service.rs`) | none of their own | edit_part, save_project, set_script, open_project, restore_snapshot, wait for the window | an agent edits the text it read, and what it replaces is kept |
| Part folder and history (`projects.rs`) | files, kept snapshots | read, write, snapshot, keep, rename, delete | what was replaced can be brought back |
| Kernel worker pool (`parcad-occt/src/host.rs`) | idle workers (at most 2), one reply file per request | take, spawn, send, wait, release, kill | a caller gets the answer to its own request; nothing hangs; the pool is bounded |
| Worker's cache (`parcad-occt/src/backend.rs`) | subtrees of the last two requests, under their keys | look up, renew, renumber, age | a reused shape is the shape a fresh build has, named in this document; an edit rebuilds what it changed |
| Relay (`relay/src/index.ts`) | sockets, waiting requests, next id | fetch, settle, message, close, supersede | every request is answered, once, with its own reply |
| Relay over stdio (`parcad-cli/src/stdio.rs`) | per process: the session, HOSTING, a thread per message | forward, send, take over, reinitialize, hang up | every message is answered and none runs twice; a host that goes away is replaced |
| In-page host (`page.rs`, `app/src/page`) | tickets, kept answers, calls that will be made again, the folder and its flush | call, unwind, answer, retry, terminate, persist | every call ends; the kernel is asked once; what was saved lasts |
| Tenants and gates (`tenant.rs`, `service.rs`) | slots taken per account and in the host, eight builds | take with patience, give back, keep a build | never more builds than the cap; a freed slot wakes a waiter; a call gets its own build |
| Script cache (`script.rs`) | results by account and source, with the parts they read | look up and check, run, keep, evict | a cached result is what the script would give now |
| Reading a document (`graph.rs`, `mechanism.rs`) | a stack, marks, an order; joints | walk, order, dress, refuse | operands come first; cycles are refused and sharing is not; the pairs that move are found |
| Thumbnails, renders, sections, measures, OCCT | none | pure, numerical | outside TLC's reach |

The windows, the stream and the host form a ring: a window pushes its document on its
debounce (`run`), the host commits it and broadcasts, the other windows apply it, and
their own debounce pushes it back, where it must be found identical and dropped. An
agent enters the ring at the host, and beside it writes the file and the history that a
window reads and saves. Under both, a build goes to a worker process that may crash or
never answer. The hard behaviour is in the orders this allows: replies against events,
snapshots against commits, the awaits of `start`, `openProject` and `saveOpenPart`, a call
that waits for the kernel while the text under it changes, restarts, streams that lag or
break. `PROJECT.json` lists these hazards at their lines, with the properties that watch
them.

## Modules

| module | models | about as in |
|---|---|---|
| `LiveSession` | the host's Screen, the windows that push and follow, the streams between | `session.rs`, `http.rs`, `engine.ts` |
| `ShownReports` | what windows report, how long they have been silent, an agent's wait | `session.rs`, `engine.ts` |
| `EditorWindow` | one window: its text, builds, saves and renames across its awaits | `engine.ts`, `project-browser.tsx` |
| `AgentEdits` | agents' tools and a user over screen, file and history | `mcp.rs`, `projects.rs`, `service.rs` |
| `PartFolder` | the folder's operations, file by file, with stops and seeding | `projects.rs` |
| `ScriptCache` | kept results of scripts and the parts they import | `script.rs` |
| `BuildGates` | the gates to the kernel and the builds the host keeps | `tenant.rs`, `service.rs` |
| `WorkerPool` | callers, worker processes, reader threads and the pool | `host.rs`, `bin/worker.rs` |
| `KernelCalls` | what a caller of the kernel is promised; `WorkerPool` implements it | `host.rs` (`OcctError`, `run_worker`) |
| `WorkerCache` | the subtrees a worker keeps from one build to the next | `backend.rs`, `serve.rs` |
| `DocOrder` | the order of a document's nodes and what its bodies wear | `graph.rs` |
| `Mechanism` | the validation of joints and what the sweep reads of them | `mechanism.rs` |
| `RelayLink` | one link: the relay's object, the sockets and the tab's end | `relay/src/index.ts`, `host-worker.ts` |
| `StdioRelay` | the processes that pass clients' messages to the host on the port, and become it | `stdio.rs`, `call.rs`, `mcp.rs` (`note_request`) |
| `PageHost` | the host in a tab: tickets, passes, restarts, the folder's flush | `page.rs`, `host-worker.ts`, `host.ts`, `kernel.ts` |
| `LiveSessionProofs`, `EditorWindowProofs`, `AgentEditsProofs`, `WorkerPoolProofs` | the theorems about those modules | |
| `ConnectionsProofs` | the theorems about `StdioRelay` and `RelayLink`, which `MCConnections` composes | |
| `HostServiceProofs` | the theorems about `BuildGates`, and about `ShownReports`, `PartFolder`, `ScriptCache` and `PageHost` as `MCHostService` composes them | |
| `DocumentsProofs` | the theorems about `DocOrder`, and about `Mechanism` as `MCDocuments` composes it | |
| `WorkerCacheProofs` | the theorems about `WorkerCache` as `MCDocuments` composes it | |
| `MC...` | small instances: symmetries, documents, scripts; each `.cfg` gives the constants | |

`LiveSession`, `EditorWindow` and `AgentEdits` overlap on purpose: `LiveSession` has every order in which a push, a reply
and an event can pass each other and abstracts what a window does with its text;
`EditorWindow` has all that a window does with its text and takes a push and an event as
one step; `AgentEdits` has every read and write of an agent's call and takes a user's edit
as one step. Texts and parts are model values: all the code does with them is compare,
except for formatting, where a text is what it says and whether it is tidy.

`MCHostService`, `MCDocuments` and `MCConnections` check several modules in one run. Their modules share no state
and no step of one enables, disables or reads anything of another, so a variable `part` chooses the
one that moves and the rest keep one initial state: the product would add states and no behaviour.
A temporal property of a part that does not move holds there trivially; where it moves, the others
must not make fairness impossible: they wait in a state in which none of their fair actions is
enabled, or their fairness is of the action and `part` together. (Every mutant of a liveness property
is found in these runs, which it could not be otherwise.)

In every module a mutant stands beside the definition it changes, marked as a mutant: the
form a plausible bug would give it, under which the run finds the property violated.

### LiveSession

* `log` holds every state the Screen has had; the last one is `Session`. A message that
  carries a whole session is modelled by the place of that state in `log`, so a reply, an
  event or a base is a number, and "which text does this revision name" is a lookup.
* One action per step that another actor can come between: `Run` captures the document
  and the base and sends; `HostPush` is `session::push` under the Screen's mutex;
  `HearReply` is the code after the await; `Build` is the evaluation, its report and the
  `dirty` check. `start()` is two actions (`StartRead`, `StartApply`) around its awaits.
  `session_events` is two (`Connect` reads the state, `Subscribe` subscribes).
* A part's file is any text (`\E disk`), since the folder can change at any time.
* Windows are browser tabs. The desktop window gets the same events from a forwarder that
  subscribes once at startup and has no first event; it is not modelled apart.
* `authored` and `wrote` are history variables: who wrote what a window shows and pushes, and what was
  written, by whom, and whether anything twice (`once`). The window compares a reply with the text it
  pushed, not with the push: two changes with one text are the same to it, and then an echo can be
  taken for a new edit (see *Divergences*). So `EchoesDie` and `LastEditWins` are said of behaviours in
  which no document is written a second time.

`Already` names windows that follow the session in the initial state, the state reached
when one of them has opened a part and the others have followed. It lets a run about
two windows spend its bounds on editing rather than on loading. `Quiet` names phases
(`"start"`: a window between reading the session and applying it; `"connect"`: a stream
between reading and subscribing) during which the model lets nobody commit. A run with a
phase in `Quiet` says what holds outside that race; *Divergences* below says what happens
in it. Only `connections` has phases in it.

A push that fails is not sent again until the next edit, so the liveness properties are about behaviours in
which no request failed (`failures = 0`); the safety properties are about all.

Fairness: timers fire, requests are answered, builds end (each has a timeout) and
`EventSource` reconnects, so every step of `WindowStep` is weakly fair. Nobody is obliged
to type or to call, and faults are never fair.

### EditorWindow

One thread: a step is what lies between two awaits. `Fire` is the debounce and `run` up to
its push; `BuildShown` and `BuildFails` are its end (`show`, `showError`); `OpenReads` and
`OpenApplies` are `openProject` around its read; `SaveStarts`, `SaveFormats`, `HostSaves` and
`SaveAnswered` or `SaveFails` are `saveOpenPart` around the formatter and the request;
`HostRenames` and `RenameApplies` are the part browser's `move`. `Follow` is the handler of
`subscribeSession`, run when an agent sets a script or opens a part.

`shown` carries, beside `shownPath`, which part and text the geometry on screen was built
from, and a file carries what its README was measured from: the code does not keep either,
and the properties are about them. `Races` names orders of events under which the code's own
promise is known not to hold, so that the passing run can say what holds without them:
`"name"`, an agent edits while the session has not been told of the part this window has
opened or renamed; `"file"`, a part is read, saved or renamed while another of the three is
on its way, or is written by somebody else under the name a rename is taking it from; `"saves"`, a
second save begins before the first is answered. Fairness: the timer fires and every await ends.

The file has other writers, and the window hears of none of them: `OthersChange` is an agent's `save_project`,
`restore_snapshot` or the write of `edit_part`, another window's save, and a delete. `unseen` is the history
variable that tells what a title can be right about: the parts whose file was changed since this window
read or saved it, by somebody else or by a save of its own whose answer was lost (`SaveFails` after
`HostSaves`). A part read before such a change and opened after it is unseen too (`fresh`).

### AgentEdits

A call is a record in `call`: where it is, and what it has read. Every read and write of
`edit_part` (`EditResolves`, `EditLooks`, `EditBuilds`, then `Snapshot`, `Listed`, `Kept`,
`Write`, and `KeepScreen`, `Listed`, `Kept`, `SetScript` for the screen), of `save_project`,
`set_script`, `open_project` and `restore_snapshot` is a step. `keep` is shared: `Listed`
reads the versions and compares, `Kept` names the new one after the clock and the newest,
writes it and trims. Versions carry `nth`, the order they were kept in, for the properties.

Files fail. A version that cannot be written ends a tool that is about to write a file (`snapshot(..)?`), and does not
stop one that puts a text on screen: `keep_screen` ignores the error (`mcp.rs:1859`), and `KeepFails` goes on to `set`.
A file that cannot be read counts as one that is not there (`SnapshotMisses`), and is written over. A write that fails may
leave part of its text, in the part (`WriteFails`) or as a version that nothing trims (`KeepFails`). `unkept` marks a call
whose keeping failed in this way, until it has put its text; `KeepsWhatItReplaces` excuses that one replacement and no other.

`InTab` is a host in a browser tab (`page.rs`): one thread, so a call is not interleaved
with another or with the page (`Turn`, `UserTurn`); one that needs the kernel unwinds and is
made again from its start when the answer is there (`EditPauses`). `UserWaits` keeps the
user still while a call is in progress. `expect_sha256` is taken to be given: it is compared
where the text is read and makes the edit one of that text.

### WorkerPool and KernelCalls

Callers are threads in `run_process`; a worker is a process with its stdin, the frame it
works on, its stderr, and the reader thread's channel and breadcrumb slot. Each of these
ends is a step of its own, so a reply, a breadcrumb, a death and a deadline meet in any
order. The kernel may loop for ever, and dies anywhere (`Die`); a deadline may pass whenever
no event is waiting (`Timeout`), which is when `recv_timeout` can return one. A process id is
reused once the process is dropped, so `|Callers| + MaxIdle` of them are enough. `load` is
what a process holds by its own count, `held` what the host last heard.

`KernelCalls` is the promise: a call ends with the answer to the request it made, or with a
failure. `Calls` maps a caller to `asking` its request until it has its outcome.
Fairness: the callers' and the readers' threads are scheduled; the kernel never has to
answer.

### ShownReports

A report and a forgotten window are requests of their own and arrive in any order; the heartbeat
repeats the last report, older or not. A window is live, stale or forgotten by its silence
(`Silence`). `wait_until_shown` is four steps, as in the code: it registers for the notification,
looks, sleeps, and is woken or runs into its deadline; a report can come between any two of
them. Fairness: a wait goes on, requests arrive, an open window evaluates what is committed
and repeats itself. The deadline is not fair, so what is promised is promised before it.

### RelayLink and PageHost

`RelayLink` keeps both ends of each socket, since the relay and the browser learn of a close at
different times; an asynchronous digest (`linkId`) lies between a tab's wish and its socket
(`opening`). `Hibernate` is the eviction of the object, which happens only while no request waits: the sockets stay
and `next` starts again. Fairness: timers fire, sockets open and frames arrive.

`PageHost`: the wasm host cannot wait, so a call that misses an answer unwinds with a ticket
(`Want`) and runs again from the top once it is answered (`Passes`, `Retry`); `KernelEnd` is the
kernel's answer or failure, `Terminate` a trap, after which `host.ts` starts a new worker
(`Fresh`) with the folder the browser's store has. `Persist` is the 250 ms timer and the flush
after it. Fairness: the kernel ends what it runs, messages arrive and timers fire.

### StdioRelay

A message is a record: where its thread is in `send`, the session it carried, whether it is the second
attempt, and how often the host ran it. `EnsureHost`, `HostAnswers` and `GiveUp` are `ensure_host`
around its wait, for a process that starts and for a message that found nobody; `ServerBinds` is the
thread that hosts. `Reinitialize`, `Rejoin` and `Announce` are `reinitialize` around its two requests,
during which the relay has no session. The MCP library of the host is external: it opens, knows and
forgets sessions (`Handle`, `Lapse`). `patient` says whether a client writes a second message before
the first is answered. What is on the wire when the host ends is answered with a failure, whether it
ran or not (`Unplugged`). Fairness: threads run, the host answers and a wait has its deadline.

### BuildGates, PartFolder, ScriptCache

`BuildGates` has each mutex's critical section as a step and `Condvar`'s semantics: a woken call has
left the sleepers and has not looked yet, `notify_one` wakes one sleeper if there is one, and a
patience may end at any time (`PatienceEnds`). `PartFolder` has every file operation as a step; a script and the
record of what was seeded are emptied before they are filled, as `std::fs::write` does. The host
may stop between any two steps, and start again in a version that ships other parts (`Releases`); or a step fails and
its operation ends with an error, the host alive (`Fail`). `owed` are the scripts the host has said it keeps; a script is
owed until another is in its place, so one whose file was emptied and not filled is lost and counted (`cut`).
`hurt` are the parts a stop or failure came in the middle of, `torn` says it was the record's turn. In `ScriptCache` the
cache's mutex is held while the parts of an entry are read again, one step each, and parts are
saved meanwhile; what a call read is in its result.

### WorkerCache, DocOrder, Mechanism

`DocOrder` has the explicit stacks of the two walks of `graph.rs`, one popped entry per step. Its
`Under` says what a node is made of without a walk: what is in every set that is closed under operands.

`WorkerCache` has the recursion of `build_node`, call by call. A `Frame` of `work` is a call that has not
returned: its node and place, what its operands were built to (`made`), and the keys it has noted
(`deps`). `Ask` is `with_reuse` up to the build, `Hit` a call the cache answers, after which `Touch` takes one key of
`touch`'s list at a time; `Descend` and `Finish` are the two ends of a call it does not answer, and `End`
ages the cache. A worker can be ended between any two of them (`Restart`). Shapes are the text they
were built from, so a wrong hit shows; `Reference` is a build without a cache. A translation is pushed
down, so a node's place is part of its key.

In `Mechanism` the loops of `validate` are steps: `ReadJoint` reads a joint, `Climb` goes one carrier up. A
joint's motion, what its axis and its law come to, is a value, and two joints may have the same. A pose is the
sequence of the motions it is composed of, so equal sequences are equal poses for any transforms; different ones
may be equal poses too, and nothing is claimed of them.

## Runs

| run | bounds | shows |
|---|---|---|
| `session_settles` | 2 windows that follow a part, 2 parts, 2 texts, a channel of 2, 2 edits or an edit and a failed request | `ReportsAreTrue`; a window's push commits what its user wrote and nothing else while no document is written twice (`EchoesDie`); what a window has seen never goes back (`SeenNeverFalls`); and, when edits stop and no request failed, every window shows the session (`Converges`), has reported its latest revision (`ReportsCatchUp`), and a sole author's last edit stands (`LastEditWins`) |
| `session_echo` | 1 window, 1 part, 2 texts, 2 edits | **violated** `EchoNeverCommits` |
| `editor_window` | 2 parts, 2 scripts tidy or not, 4 acts of the user, an agent or another writer, 1 failed save, no races | an unmarked title means the text is on disk, unless the file was changed unseen (`CleanMeansSaved`), formatting never replaces a newer text (`KeystrokeWins`), the last build is of the last text (`Evaluates`) |
| `agent_in_tab` | 2 agents, 3 calls, 3 user acts, 2 parts, 2 texts, a clock that says 1 or 3, a history of 2, 1 read or write that fails | an edit replaces only what it read, on its own part (`EditsWhatItRead`), what is replaced is kept or its keeping failed (`KeepsWhatItReplaces`), the history is the newest versions in their order (`HistoryKeepsNewest`) |
| `pool_two_callers` | 2 callers, 3 calls, 2 requests, 1 breadcrumb each, a pool of 1, 1 death | one owner per process, light workers and no stray reply (`PoolIsSound`), `FailuresNameTheStep`, and that the pool implements `KernelCalls` |
| `pool_returns` | 2 callers, 2 calls, 1 request | every call ends (`KernelCalls!FairSpec`) |
| `connections` | a link: 1 tab that is starting, 3 requests, 3 sockets, 2 wishes, 1 lost socket, at most 4 requests, wishes and losses together (`FourInAll`); stdio: 2 relays, one with 2 calls, in turn or at once, 1 session forgotten or app ended or started; a window from its load on: 1 edit, 1 broken stream or closed tab, 1 failed request, 1 restart | one socket is open (`LinkIsSound`), `OwnReply`, `NobodyWaitsOnNobody`, `ConnectingEnds`; `RelayIsSound`, `EveryMessageOfAClient`; the window catches up (`Converges`) |
| `relay_comes_back` | 1 tab, 2 sockets, 2 wishes | **violated** `ComesBack` |
| `stdio_takes_over` | 2 relays that start together, 1 call | **violated** `TakesOver` |
| `host_service` | gates: 3 calls of 2 accounts, caps 2 and 1, 2 kept builds; reports: 1 window, 2 revisions, 2 reports at once; folder: 3 paths, a version that ships 1 part and one that ships 2, 2 operations, 2 stops, 1 failed step; scripts: 3 calls, 2 accounts, 2 parts, 1 save, 3 mixes of scripts; tab: 3 calls, 4 checks, 5 rounds, 2 kept answers, 2 failures | `GatesAreFair`, `RightBuild`; `ReportsStand`, `ReportsSettle`; `FolderStands`, `DeletedStaysDeleted`; `KeptResults`, `ReadsThisCall`; `TicketsStand`, `CallsEnd`, `SavesLast` |
| `tab_many_checks` | 1 call with 4 checks, the code's own 16 rounds and 4 answers | **violated** `RoundsSuffice` |
| `documents` | graphs of 3 nodes with up to 2 operands, missing, shared and circular; 4 requests of 10 kinds to one worker, which may be ended at any step; mechanisms of up to 2 joints of any bodies and 4 of a tree, two of which share a motion, laws of 3 segments | `OrderStands`, `WalkAnswers`, `WearsTheFirst`; `OnlyTheEdit`, `RightAnswer`; `MechanismIsRight` |

A property whose name ends a list of parts (`PoolIsSound`, `LinkIsSound`, `GatesAreFair` and the like) is
the conjunction of the parts its module states above it, the type invariant among them.

Why the bounds are enough. A channel of 2 stands for 64: it overflows with three events
waiting, which two edits and a window's push of the text it began with make, and all that matters is that older events are lost and the newest is
kept. A history of 2 stands for 50 and overflows with the third version. A pool of 1 stands
for 2: with two callers a worker is put back while another is out, and one comes back to a
full pool. Two windows, agents or callers are the fewest that interleave, and every property
speaks of at most two of them at a time. Two texts tell a text from a newer one; with two
parts there is one that is not open. The clock's two readings can repeat, fall and rise. Two slots
of one gate and one of the other make a call wait at each. Two kept builds or answers are full with
the third; two stops put one inside the repair of another, and each operation of the folder begins in
whatever one that was cut short has left. Two generations age an entry, so four
requests see it kept, renewed and dropped. Three nodes are the fewest that are shared below a node
that is not the root; a walk that leads into a cycle without being on it needs four joints. Two calls
are the fewest whose threads repeat a handshake together, and one trouble the least that makes them.
Nothing in a run fixes an order of events except `Quiet`, `Races` and `InTab`, which are
explained above. Deadlock is not checked: once the edits or calls of the bounds are spent
the system rests.

## Divergences

`session_echo`, `relay_comes_back`, `stdio_takes_over` and `tab_many_checks` are the `findings` of `PROJECT.json`, each with the line it
contradicts.

* *Echo* (`EchoNeverCommits`). While a window is pushing the text it shows, an agent writes another and then that very
  text again. The push is identical to what stands, so its reply names the newest
  revision and `run` raises `sessionRevision` to it (`engine.ts:125-127`). The event of the text in between comes after
  that; the window applies it and pushes it on a base that is the newest, so the host takes it: the agent's last edit
  is undone by an echo. `EchoesDieAll` says that writing a document again is what it takes.
* *The link does not come back* (`ComesBack`). A tab that reopens its link while its host starts
  asks twice, opens two sockets, and takes the closing of the older for its own.
* *Nobody takes over* (`TakesOver`). `ensure_host` sets HOSTING before its thread binds the port and never
  takes it back: the relay that lost the port to another when both started waits, once the other has
  quit, for a host that nobody starts. `WaitsForAHost`, part of `RelayIsSound`, says that this is the only way.
* *Many checks* (`RoundsSuffice`). A call that needs n measures asks the kernel about 2^n times; a part
  with four checks of its walls is refused in a tab.

These were seen in the same way and have no run of their own; the property is in its module and
fails with the constants given.

* *A newcomer* (`LiveSession`, `SeenNeverFalls`; 1 window that loads, 2 edits). `start()` assigns the revision it read
  before its awaits over a newer one its stream has brought since (`engine.ts:1091`), where line 976 says
  `sessionRevision` is the newest revision the window has seen.
* *A title that does not tell* (`EditorWindow`, `TitleTells`; 1 act). `state.ts:352-358` has the titlebar say whether the text
  on screen and the file disagree. An agent's `save_project` to the part that is open changes the file and not the
  session, and a save that is written and whose answer is lost changes it too: the window goes by what it last
  read or was told.
* *A name behind* (`EditorWindow`, `CleanMeansSaved`; `Races = {"name"}`, 2 acts). Until the next push the
  session keeps a part's name from before an open or a rename, and an event in that time is taken
  for an open: the titlebar goes back and an agent's unsaved text is marked as saved.
* *Another part's geometry* (`FailureKeepsThisPart`; 2 acts). `show` files a build under the name open
  when it ends.
* *README* (`ReadmeIsMeasured`; 2 acts). `clean` is computed before the formatter's await and the numbers
  are read after it.
* *Restore* (`AgentEdits`, `RestoreKeepsTheScreen`; `InTab = FALSE`, the user waits, 2 calls). `restore_snapshot`
  opens its own part before it keeps the screen.
* *Mid-request* (`RelayLink`, `ClosedMidRequest`; 2 tabs, 1 request). `relay/README.md:66` promises a refusal
  to a request whose tab has closed; with another socket open, the request waits for its timeout.
* *Seeding* (`PartFolder`, `RecordedWereWritten`; the folder of `host_service`). A stop between a bundle's
  folder and its source: the next start finds the folder and records the part as written.
* *Seeding again* (`PartFolder`, `NeverPutBack`; the same folder). The record is "written last and whole"
  (`projects.rs:909`) by a call that truncates first. A stop between the two leaves an empty record, and the next start puts
  back what was deleted, which the same comment calls harmless and the doc of `seed` (line 845) rules out. A seeding
  that fails half-way leaves no record either, and the desktop app goes on without.
* *A save cut short* (`PartFolder`). `write` truncates the script it replaces: a stop or a full disk between
  that and the new text loses both. `NothingLost` counts these. `convert` leaves a bundle without a source when its write
  fails, and the bundle hides the loose file, which is still there (`hurt`).
* *Pairs that do not move* (`Mechanism`, `OnlyMovingPairsMove`; the mechanisms of `documents`). `mechanism.rs:410` says that two bodies'
  relative pose changes when their chains differ; two bodies on joints of one axis and law have different chains
  and one pose. The sweep then looks at a pair it could pass over; `MovingPairsMove` says that it passes over none it should not.
* *Every use* (`WorkerCache`, `EveryTreatment`; the requests of `documents`). When one node used twice is
  written as two, `renumbered` gives both uses the later number, and `treatment_edges` knows one.
* *A trimmed tool.* `subtree_key` blanks the operands a node names, and not the tool of a trim
  (`backend.rs:3785`): the key then holds that tool's number, and a renumbered part misses where the
  comment at `backend.rs:3649` says it hits. `Blanked` keeps the number as the code
  does, and `OnlyTheEdit` then needs `ToolsKeepTheirNumbers` (see `WorkerCacheProofs`); the run has one document with a trim.

* *An agent that has gone* (`StdioRelay`, `StopsShowing`; the clients of `connections`). `note_request` counts a
  session again when a request names it after the host's library has forgotten it: the relay opens
  another, `hang_up` closes that one, and the window shows the first for a quarter of an hour
  (`stdio.rs:234` says it stops).
* *Two sessions for one client* (`LeavesNoSession` without `patient`). Of two threads whose session was
  forgotten, the second takes the session the first has just opened for the dead one and opens a third;
  what is open and unused stays so. A handshake repeated in vain leaves no session at all.

Others follow from the same modules by taking a phase or a race back in, and have no run of
their own. A commit between the `get()` and the `subscribe()` of `session_events` is in
neither, and the window shows an older text until the next change (`Converges` without
`"connect"` in `Quiet`). After a restart, bases and reports of two
lives of the host are compared (`ReportsAreTrue` with restarts). A reconnection
begins with a state that can be older than what the user has typed since (`LastEditWins` with
drops). On a native host (`InTab = FALSE`) a call is interleaved with others and with the user, and `expect_sha256` is
not looked at again once the build is done: `edit_part` then puts its text on whichever part is open, over what was
typed or saved meanwhile (`EditsWhatItRead`), and what is typed between `keep_screen` and `set_script`, or saved between
`snapshot` and `write`, is kept nowhere (`ScreenIsKept`, `FileIsKept`). Two overlapping saves reach the file in any order (`"saves"`). A third caller
does not wait for a warm worker, as the comment on `MAX_IDLE` has it: `take` starts a process.

## What is proved

`LiveSessionProofs`, for any windows, parts, texts, channel size and bounds:

* `Typing`: `Spec => []TypeOK`, with every fault and restart. Each action is shown to preserve
  the types of the host, of the windows, and that what names a state names one in `log`.
* `ReportsTrue`: `ReportsAreTrue`, assuming `MaxRestarts = 0`; a restart breaks it. It rests on `ReportInv`.
  `ReportsAreTrue` alone is not inductive: it says nothing about the job that will report. The strengthening has
  three parts: a state's revision is its place in `log` less one (`RevisionsCount`), a job
  that learnt a revision pushed that revision's document (`LearntIsPushed`), and a report
  names a state that held its document (`ReportsName`). With `RevisionsCount` two states of
  one revision are one state.
* `SeenHolds`: `SeenNeverFalls`, an action property, for windows that have started (`Already = Windows`), with any broken
  streams, failed requests and restarts, and with nobody kept quiet. A window that is starting is left out
  because there it is false (see *Divergences*), and `OpenWindow` cannot happen. `AnswersName` says that an answer names a state.
* `EchoesDieAll`: `EchoesDie`, an action property, assuming `Steady`: the windows have started, no stream breaks and the
  host does not restart. Requests may fail, and nothing bounds the edits or the channel. While no document was written
  twice, every state of `log` is the only one of its document (`Distinct`), so a reply or a text can be traced to its state.
  `Knows` says of each window what its editor, its push and its revision then mean: a text it took from the session is that of
  the state it stands on, and the window has committed nothing since (`Taken`); what its user wrote the session has
  from this window or not at all (`Stands`); and it has seen every foreign state before one of its own
  (`SeesBefore`). A push with a text from the session therefore stands on the very state it repeats: where that is the last one it is
  identical, and where it is not, the last one is another's and newer, and the push is turned away (`WhatIsTaken`).

`EditorWindowProofs`, for any parts, scripts and bounds:

* `Typing`: `Spec => []TypeOK`, with every race. The types say what a build, a save and a
  rename in progress may carry, since each is used after an await.
* `CleanIsSaved`: `CleanMeansSaved`, assuming `Races = {}` (with a race it is false: see
  *Divergences*), whatever others write to the folder and whatever save fails. By itself it says nothing
  of a document that differs from `saved`, which a
  later keystroke can make equal again, nor of a save the host has written and the window has
  not heard of, nor of a part that has been read and not yet applied. `SavedInv` says all
  three: unless it was changed unseen, the open part's file holds `saved`, except between the write and its
  answer, when it holds what the answer will bring; a part that was read, and not changed since, is
  still as it was read; and at most one read, save or rename is on its way.
* `FormattingKeeps`: `KeystrokeWins`, an action property, with every race: the
  answer of the formatter replaces a text only by what says the same. It needs that formatting
  keeps what a text says (`FormattedKeeps`) and no invariant, as `SaveFormats` looks again after
  its await (`StillThere`).

`DocumentsProofs`, for any finite graph and any mechanism:

* `Stands`: `OrderStands`. The classic argument for a depth-first walk with a stack: a node in progress
  has its leaving entry on the stack once (`OpenIsLeft`), and its operands are in the order or above that entry
  (`OperandsAbove`), so when the entry is popped they are before it (`OperandsBefore`); a node is in the
  order exactly when it is done (`DoneIsOrdered`), which lists it once, and the root is in the order or
  on the stack (`RootToCome`) until that is empty (`EndsEmpty`). That a refusal has its cause
  (`ForCause`) needs what the stack means: all the walk meets is below the root (`AllLive`), and what lies above
  the leaving entry of a node is below that node (`AboveIsUnder`), so a node met again while it is in
  progress is below itself. A walk that ends in an order has met everything: the order is closed under operands.
* `Wears`: `WearsTheFirst`, for any materials and bodies. What a node wears is a function defined by
  recursion over its operands, over the nodes of the order: it exists, and is what its definition says
  (`WornIs`), by induction over the places of the order, in which operands come first. The walk then keeps
  two facts (`LookInv`). What the first node from the top of its stack that wears a material wears is what the
  body wears (`Tells`). Each node it has seen wears nothing, or that first node is below it
  (`SeenStand`), so a node met again wears nothing and may be passed over: were it otherwise, it would be
  below itself. It assumes of a document only what its types say, that a difference has a base.
* `MechanismAlwaysRight`: `MechanismIsRight`. `MechanismInv` says of the joints read so far that each is of another
  body and said well, and of each joint walked from that its way up ends at the ground (`Grounded`); a way up in progress names each body's
  carrier and meets no body twice (`PathStands`). In a tree every joint therefore has a number of
  carriers above it, and the recursive `Chains` and `Poses` are what their definitions say by induction over
  that. A pose is the motions of its chain from the other end (`PoseOf`), so two bodies of one chain have
  one pose, and a joint more at a chain's near end is a motion more at the pose's (`OneMotionMore`). Nothing is proved of
  chains that differ: their poses may or may not. `RateBounds` adds up the segments between two drive
  values, knot by knot; `ReadsFirst` takes the first segment whose ends lie on either side of the value.
  It assumes of a mechanism that it is one as written (`AsWritten`: the knots of a law run forward).

`WorkerCacheProofs`, for any documents that `topo_order` lets pass, any requests and any number of them:

* `AnswersRight`: `RightAnswer`. What a subtree's key is, what its numbers are and what a build comes to are
  recursive over a document's nodes; they are what their definitions say by induction over an order in which
  operands come first. Two nodes of one key, of whatever documents, are then built alike at the same
  place, and their numbers correspond one by one, so that a hit renamed names what a build
  here would (the reason `renumbered` may be applied at all). `CacheInv` is the invariant: an entry is what a build of some
  document comes to; a frame holds what its first operands come to, and its parts are in use or about
  to be touched; what was answered is right. It also says what is in the cache between requests
  (`Kept`): all that the last two requests finished, and nothing else. An interrupted build is in it: what it had
  finished before the operand that failed is kept.
* `WorkerCacheStands`: `CacheStands`, the first half of `OnlyTheEdit`: the cache is bounded by two requests, and a part is
  used as late as a whole that was made of it. While `touch` is at work that holds except below the
  keys it has still to visit.
* `BuildsOnlyTheEdit`: `OnlyTheEdit`. By `EditInv` a call under way is of a shape that neither of the last two requests had
  finished, since their entries are all kept and the call was not found. For that a shape must tell its key, and a trim's
  key holds the number of its tool. The theorem says so as its hypothesis: of two builds of the same
  shape that are trims, both name their tool by the same number (`ToolsKeepTheirNumbers`). It holds of documents without a trim and of
  edits that do not renumber a trim's tool; of others `OnlyTheEdit` is false (see *Divergences*).
  The other two theorems hold without it.

`AgentEditsProofs`, for any agents, parts, texts, clock, bounds and user, assuming `InTab` (a native host breaks all
three: see *Divergences*):

* `NothingIsLost`: `KeepsWhatItReplaces`; `EditsLandOnWhatTheyRead`: `EditsWhatItRead`; `HistoryIsTheNewest`:
  `HistoryKeepsNewest`. One invariant serves them. At most one call is past being asked for (`OneRuns`), so a step is
  judged by what that call holds: what it is about to replace is in the history or is the document being kept
  (`Keeps`), and what an edit has read is still what is there (`Edits`), which a step of the call itself could break,
  as it writes the file before the screen. `unkept` is what the code cannot help: a keeping that
  failed. A call that waits has read nothing (`WaitingIsGood`): that is what
  running it again from its start buys.
* A history is inductive by itself (`HistoryOK`, `WithIs`): ids and numbers put its versions in one order, so a new
  version is the newest whatever the clock says (`IdIsNew`); and trimming counts those above a version, which at most
  the oldest of a full history fails (`ExcessIs`), so that it never takes two. A version a failed write left is one more,
  as nothing is trimmed for it: hence `failures` in the bound.

`ConnectionsProofs`, for any clients, calls and troubles, tabs, requests, losses and wishes:

* `RelayStaysSound`: `RelayIsSound`. Each part needs its history said. That a message runs once: what is
  not yet served has not run (`RunsInv`). That nobody waits for nobody: who hosts is exactly who has the
  port, and a thread that waits belongs to a process that has tried to host and has not ended
  (`HostInv`, `GoneInv`). That no session is left behind is the longest: a patient client has one thread
  (`AloneInv`), which carries the session its process uses, holds one of its own only between the
  repeated handshake and its notification, and takes the session away only when the host no longer
  keeps it, since before the handshake's answer there is none (`OrderInv`) and without a host nothing is
  kept (`PortInv`). It is false for a client with several calls on the way (see *Divergences*).
* `LinkStaysSound`, `RepliesAreOwn`, `NobodyWaits`: `LinkIsSound`, `OwnReply`, `NobodyWaitsOnNobody`, together.
  There is one copy of a request on its way, in a frame or in a tab's hand (`OnceInv`); a copy
  is of a request whose client has not had its own reply and, while it is pending, waits under the very id
  the copy carries (`HandInv`); and each request that waits has one id (`WaitInv`).
* The proof found an error in the property as it was first stated: that a late reply to a wrong client
  answers a request whose own client had been told that it timed out or that its tab closed. With three
  requests the ids can start again twice, and that client may itself have been told another's late
  reply; two requests, the bound the run had, never show it. `ToldElse` is what holds, and the run now
  has three.

`WorkerPoolProofs`, for any callers, calls, requests, breadcrumbs, deaths and size of the pool:

* `PoolStaysSound`: `PoolIsSound`. A process that serves no call has nothing in its pipes but its end
  (`QuietInv`); one that serves a call has that call's frame or its answer and no other (`BusyInv`), at one
  of four places: nothing said yet, all said, half of it read, all of it read. A path is used once
  (`PathsInv`), and a file at a call's path is that call's answer (`FilesInv`). Without `QuietInv` a warm
  worker could bring a reply to the call before.
* `NamesItsStep`: `FailuresNameTheStep`. It needs the same: the last breadcrumb the reader has
  seen is the last one of this call's.
* `KeepsItsPromise`: `Implements`, the refinement of `KernelCalls`, step by step. A step is an `Ask`, a
  `Finish` or nothing for the callers; that a call is answered with its own request's file is `AnswersInv`.
  The liveness of the promise (`Returns`) stays with TLC.

`HostServiceProofs`, for any finite set of calls at the gates, any accounts, graphs, caps, windows, reports, paths,
shipped parts, operations and stops, any calls of scripts and saves, any bound on the bytes kept, any plans, checks and
troubles of a tab:

* `Fair`: `GatesAreFair`. Its conjuncts are inductive together with `Placed` (a call at a gate is
  at its account's or the host's, in the order the code takes them; only a call that waits is
  asleep). `Counted` needs the cardinality of the holders, one added or removed by each step;
  `NobodySleepsByAFreeSlot` is then a count: a freed slot adds a call that will tell, a told sleeper is
  one that stirs, and one that leaves with its patience over finds no free slot or takes it.
* `OwnBuild`: `RightBuild`. It speaks of calls that have ended; `Rightly` says it of every call from
  its build on, through the gates and while the print is judged.
* `ReportsHold`: `ReportsStand`. Beside its parts it needs that a report on its way is of a revision its window
  has evaluated (`PostsTrue`), since it may arrive late and twice.
* `FolderHolds`: `FolderStands`, with any stops and failed steps. `NothingLost` is about the scripts the host owes; `StageInv` says what each
  operation finds where it was left: a save's file is empty, a conversion's script is in the bundle before
  the loose file goes. `WholeInv` allows one part in the folder to be in pieces, the one that is worked on, and
  those a stop or a failure left so. `LostInv` counts: a script is cut by a save that has emptied its file, and comes
  back with the one that replaces it, so only a stop or a failure between the two leaves one cut, one each.
* `DeletedPartsStayDeleted`: `DeletedStaysDeleted`, an action property, with any number of stops and any versions, until
  the record is torn: something was deleted only after a seeding ended, which put every part its version ships on
  record, and no later seeding takes from the record (`SeedInv`). Once it is torn nothing is claimed.
* `ResultsReadThisCall`: `ReadsThisCall`. Whoever checks an entry holds the lock, so it is still there (`Checks`); a
  call in progress has among `during` what every part is now, so a part read again is of this call; and what
  waits to be kept is the result of a whole run (`KeptFor`).
* `KeptResultsHold`: `KeptResults`. The count of the weight is `CountInv`: the order lists each key that is kept, and
  once; every weight is a number; and the counter is the fold of the weights. The fold is shown to be the one sum
  of its set whatever the order it is taken in, and to split over two disjoint sets, so that an eviction takes from
  the counter what it takes from the set, and what is left fits.
* `TicketsHold`: `TicketsStand`. Besides its own parts `TabInv` says that every key that is wanted has a ticket of
  its own (`WantedInv`), that the page has each open ticket in its queue once (`QueueInv`), and that a call which was
  woken is in the list of those to go on once (`AgainInv`). A pass of a call answers what it can from the host's
  caches and opens tickets for the rest, request by request; that it keeps all this is an induction over the plan.
* `NoFileLeavesDisk`: `DiskKeeps`, an action property: the store is a part of the folder (`DiskInv`), also after a
  trap, where the new host reads the store before it serves.
* The section before these four has what they need: a set of numbers has a least member, from the well-foundedness of
  the naturals, hence an induction over numbers and over finite sets for a set given as data. The library's
  induction theorems take an operator, which the provers cannot instantiate.

The assumptions on the constants are named in each module (`ConstantsAssumption`,
`NoTextAssumption` and their siblings): values that must differ, and bounds that are natural
numbers. The theorems about `ScriptCache` have the scripts of `MCHostService`, and use of them only that they import parts that
may be imported (`WantsType`) and weigh something; of a tab's plans, that they are sequences of requests
(`TabAssumption`). Those about `WorkerCache` use `CacheAssumption`: a document can be ordered, a request is of documents and
of at least one.

Model-checked only: liveness, as the provers have no fairness. That is `Converges`, `ReportsCatchUp`, `LastEditWins`,
`Evaluates`, `ReportsSettle`, `CallsEnd`, `ConnectingEnds`, `EveryMessageOfAClient`, `WalkAnswers`, the `Returns` of `KernelCalls`
and what `SavesLast` says beside `DiskKeeps`. Every safety invariant that a run checks is proved. What a recursive definition computes
is proved where an order of its argument is at hand: the induction is over a set of numbers, a set given as data, as the
library's induction theorems take an operator.

## Not modelled

Read-only tools and routes, signed links, exports, selections and previews in the window
change nothing another actor sees. Geometry, measurement, rendering and the script engine are
computations of one call, most of them in floating point: the models take their outcome as a
choice, and this is by far the largest part of the source. Profiles, sections and selectors are
validated by such computations too. Thumbnails are refused by the digest they carry, a comparison.
The desktop shell, the command line and the packaging adapt the same calls. Two hosts on one
folder are not modelled: nothing in the code expects them.

## Plan

1. Done: the modules above, with theorems about all but `KernelCalls`, which `WorkerPool` is proved to implement.
2. An abstract session, one document and edits in some order, that `LiveSession` implements
   while nothing is lost.
