# TLA+ models of wxp

wxp is a Rust library for desktop and mobile user interfaces made of web pages: native
WebViews (a fork of wry) inside a host's window, often inside an audio plug-in whose main
loop belongs to the host. Its own core is a *run loop* (`crates/run_loop`) through which
everything native goes, an executor and timers on it, and a *bridge* (`crates/wxp`) between
Rust and the page: commands invoked by the page, channels that stream to the page.

The modules here are translated from that code. They concentrate on what tests of it hardly
reach: the order in which threads, callbacks, pages and shutdowns interleave.

## 1. Inventory

### 1.1 run_loop: life of the singleton, post and call
`src/crates/run_loop/src/run_loop.rs`, `run_loop_sender.rs`

* **State.** `INIT_MUTEX`, `INIT_COUNT`, `RUN_LOOP_INSTANCE`, `RUN_LOOP_SENDER`,
  `RUN_LOOP_THREAD_ID`, `PENDING_CALLS`; per loop `has_shutdown` and the `shutdown_token`
  its senders share; strong references to `RunLoopInner`; the platform queue.
* **Operations.** `RunLoop::init` (counted, one thread), `RunLoopGuard::drop`
  (`release_guard`, `shutdown`), `post`, blocking `call`, `current_local`.
* **Interaction.** Any thread posts or calls; the owner pumps. Every other part uses `send`.
* **Hard.** Shutdown is a dozen separate writes while other threads test, queue, register
  and block; an old loop's closure can outlive it; statics are `unsafe` and protected by a
  thread test.
* **Correct means.** A guard keeps its loop; a blocked caller is always answered; an error
  means there was an instant without a loop; the statics are never read while written.

### 1.2 executor: tasks, join handles, block_on
`task.rs`, `run_loop.rs`

* **State.** Per task: future, value, aborted, the joiner's waker; `active_tasks`;
  `BLOCK_ON_ACTIVE`, `BlockOnWaker::queued`; the queue of wakes.
* **Operations.** `spawn`, `ArcWake`, `Task::poll`, `JoinHandle::poll`, `abort`,
  `block_on` (re-entering the platform loop), abort at shutdown.
* **Hard.** A wake is a message; a drain may hold messages that a nested loop cannot see;
  wakers kept too long; joins, completions and wakes in any order.
* **Correct means.** No wake is lost, `block_on` never sleeps on one, joiners and `block_on`
  go on, nothing is polled after shutdown.

### 1.3 one-shot timers and repeating timers
`run_loop.rs` (`schedule`, `Handle`, `delay`), `platform/*/mod.rs`, `crates/run_loop_timer`

* **State.** Darwin, Win32, Android: a map of timers and one native timer; Linux: a GSource
  each. `TimerInner`: `is_running`, `current_handle`.
* **Hard.** The native timer must be re-armed by every schedule, cancel and drain; callbacks
  cancel others of the same batch, restart or drop the timer that runs them, and block.
* **Correct means.** The earliest timer is armed, cancelled timers stay silent, timers fire,
  a repeating timer never doubles and never stops by itself.

### 1.4 wxp: WebView dispatch, channels, commands
`crates/wxp/src/webview.rs`, `wxp_channel/`, `wxp_command/`, `initialization.rs` (page side)

* **State.** A weak reference to the view behind each dispatch handle; `CHANNEL_DATA_STORE`;
  the channel's index counter; the page's `_nextMessageIndex` and `_pendingMessages`; the
  handler's current view; the page's callback table and the queue that waits for
  `window.ipc`.
* **Operations.** `post_webview_op_or_else`, `send`, `send_bytes`, `close`, drop; page:
  channel callback, fetch, `close`; `invoke`, the IPC handler, the command's task, response.
* **Hard.** Views close, pages navigate and the run loop stops between any two of these
  steps; clones send from several threads by two routes; callback ids restart per page.
* **Correct means.** Messages are handed over in order, once, and all of them; large data
  has an owner until fetched; a response settles the promise of its invoke unless it comes too
  late for its page; every invoke is answered.

### 1.5 wry: desktop web views once they are there
`crates/wry/src/{webkitgtk,wkwebview,webview2}/`, `lib.rs`, `web_context.rs`

One `InnerWebView` per backend: gtk (WebKitGTK), wk (WKWebView), webview2. All of it runs on
the main thread, but not all at once: the page has a process of its own, toolkits call back,
and responders may be called from any thread.

* **State.** `pending_scripts`; `custom_protocol_task_ids` and `WEBVIEW_STATE` (wk);
  `custom_protocols` of a `WebContext`; one `failed` flag per download registration (gtk);
  `related_webviews` and `new_windows`; `DragDropController`, `enter_is_valid`.
* **Operations.** eval, navigation, ipc; start, stop and answer of a custom protocol's
  request; downloads; `window.open`; drags; cookies; creation and Drop.
* **Hard.** Scripts before the first page; a task whose address is reused, or that is stopped
  between a responder's check and its call; a message posted to a window that goes; signals
  that share a flag or a key; a Leave told from an idle callback; nested main loops; a
  creation that fails when half of its parts are acquired.
* **Correct means.** Scripts run once, in order and in a page; an answer reaches a page that
  waits; a failure is not reported as success; views of popups end with their windows; drag
  events tell of the drag that they are about; cookie calls return; a view keeps its parts as
  long as it lives.

### 1.6 wry: creation of a webview2 view
`crates/wry/src/webview2/mod.rs`

* **State.** `WebViewState` (alive, visible, pending bounds and navigation), the queue of
  controller creations, the parent's subclass, the controller.
* **Hard.** The environment, then the controller come by callback, one controller at a time
  for all views of the thread; meanwhile the view is moved, shown, navigated, reparented and
  dropped; each native call may fail.
* **Correct means.** What was asked for last holds once the view is there; no controller stays
  open without an owner; every creation ends, so that the next may begin.

### 1.7 wry: android
`crates/wry/src/android/{main_pipe,binding,mod}.rs`, `kotlin/`

* **State.** A channel of eight messages and a pipe with a byte for each; `ACTIVITY_PROXY`,
  `WEBVIEW_ATTRIBUTES`, the tables of handlers, each with its mutex.
* **Hard.** The activity goes and comes back while messages for it are under way; handlers run
  under the lock of their table, may send, and a full channel blocks them; the main thread
  takes those locks when it destroys a view; askers give up.
* **Correct means.** No wake without message nor message without wake; a configuration change
  keeps the view; only a late answer or a final destroy makes the main thread panic; a send
  returns.

### 1.8 Not modelled

| part | why |
|---|---|
| argument decoding and command registration (`wxp_command/command.rs`, `async_command.rs`, macros) | pure conversion, no order to get wrong |
| builder, asset protocols of wxp | sequential construction and file I/O; what the builder does to the command handler is `Build` in Command |
| settings in `new_ns_view` (wkwebview/mod.rs:315-556), `init_webview`, `new_gtk` | a list of native calls that share no state; those that may fail are the failures of `Creation` and `WebView2` |
| builder attributes, `proxy.rs`, `error.rs`, titles, zoom, print, devtools, synthetic mouse events | wrappers of native calls |
| iOS (`wkwebview/ios/WKWebView.rs`) | generated bindings; the Rust around them is the wk code |
| several Android activities at once, eval callbacks, asset loaders, Kotlin file choosers | each activity has entries of its own; the tables left out are read and written in single steps |
| host_window, webview-bridge (TypeScript wrapper), test helpers, examples | wrappers and fixtures without shared state of their own |

## 2. Modules

| module | models | extends |
|---|---|---|
| `RunLoop` | 1.1, one action per access to a static, mutex or atomic | |
| `RunLoopService` | what `call` promises, abstractly | |
| `Executor` | 1.2 | |
| `Timers` | one-shot timers over four backends | |
| `RepeatingTimer` | `run_loop_timer` composed with other one-shot timers | Timers |
| `WebViewDispatch` | posting operations to a view: steps that the next two compose | |
| `Channel` | `Channel` in Rust and in the page | WebViewDispatch |
| `Command` | invoke, IPC, task, response | WebViewDispatch |
| `WebView2` | 1.6 | |
| `Desktop` | the backend and the life of one `InnerWebView`; what the next seven share | |
| `WebPage` | navigation, commits, scripts, ipc | Desktop |
| `SchemeTasks` | custom protocols | WebPage |
| `Downloads`, `NewWindows`, `DragDrop`, `Cookies`, `Creation` | the other parts of 1.5 | Desktop |
| `PageEvents` | 1.5, the parts together | these |
| `AndroidPipe` | 1.7 | |
| `MCRunLoop`, `MCExecutor`, `MCTimers` | instances for TLC (symmetry) | the above |
| `RunLoopProofs`, `ExecutorProofs`, `ChannelProofs`, `CommandProofs`, `WebView2Proofs`, `AndroidPipeProofs` | theorems about the module in the name | that module |
| `TimersProofs` | theorems about one-shot and repeating timers | RepeatingTimer |
| `PageEventsProofs` | theorems about `PageEvents` and its parts | PageEvents |

`PROJECT.json` maps every definition to the lines it stands for. Operators commented
`variant:` are not part of any specification: each is a definition changed the way a
plausible mistake would change it, and the property named beside it in `PROJECT.json` fails
when the variant replaces the definition.

### RunLoop
`pc[h]` walks a thread through `init` (`InitLock` ... `InitFirst`) and through the drop of
the last guard (`Release`, `SetHasShutdown`, `SetToken`, `TakePending`, `CancelPending`,
`ClearThread`, `ClearInstance`, `ClearSender`, `DropLocal`). `opPc[k]` walks an issuer
through `sender()`, registration in `PENDING_CALLS`, the test of the token, the platform
send, the test after it and the wait. The strong count of `RunLoopInner` is derived (`Alive`,
`RefHolders`) from who holds one. The platform queue is a set: no property depends on the
order of two posts, and backends differ in it. `HostContext` selects between a queue
that goes with the loop and one that the host owns (Linux's shared GMainContext), where an
old closure may run under a later generation. `created`, `callback` and `sawDown` are history
or bounds. A panic in a callback is left out: a closure that unwinds ends the process at the
platform's `extern "C"` boundary.

### RunLoopService
A service that opens and closes. A callback starts only while the service is open; Ok comes
after the callback is over; an error only to a call that saw the service closed; every call
returns. The mapping (`Service` in RunLoop) forgets queues, tokens and lists: `live` is
"a sender is published and its token not set".

### Executor
The run loop thread is a stack of activations: a drain, in it a poll or a callback, in a
callback a `block_on` that drains again. `batch` tells the backends apart: the whole queue is
taken at once (Darwin, Win32, Android) or a closure at a time (Linux). A future is what its
polls do: `PollFinish`, `PollPend`, `PollYield`, `PollJoin`, `Spawn`, `Abort`. Background
threads post, fire events and wake stale wakers (`Rewake`); `BlockOnWaker::wake` is two steps
(`FireBlock`, `SendNudge`). `value` is emptied by a join as in the code, so that a redundant
wake after it polls a completed future again (`PollAgain`): the comment at task.rs:134-136
says a redundant wake is recognised; after a join it is not, the poll panics and the panic is
stored for nobody.

### Timers, RepeatingTimer
Time is relative: `left[t]` and `native` count down. `Rearm` is what arming comes to on each
backend. A drain records what it took: Darwin the timers' closures, the others only ids that
they look up again. That is why `CancelIsFinal` has an exception for Darwin: a timer that its
own drain has already taken fires although it was cancelled in an earlier callback of that
drain, against what run_loop.rs:681-682 says of dropping the handle. In `RepeatingTimer` the
tick is split where user code runs (`TickExecutes`, `TickFinishes`), so that the callback may
stop, restart, drop or block. Tick handles are reused once nothing refers to them (`Fresh`).

### WebViewDispatch, Channel, Command
An operation is a view, a script and the side data that its cleanup would remove. `Channel`
splits a send where another thread can come between: index taken, data stored, view tested,
closure sent; on the run loop thread (`OnLoop`) the closure runs in place. The page side is
`Receive`. End messages occupy the sender but have no effect on the page (see `EvalScript`'s
comment). `Command` follows an invoke from the page to the promise. Views share one handler,
`bound`; callback ids count per page, so that a response that comes after a navigation, or to a
view that was built later, settles whatever promise has its id there. Ids of stored data are abstracted to the message index; scripts are evaluated in
the order given to the view, as the platforms do.

### WebView2
Per view: its `owner` (the host's `InnerWebView`), `state` (the shared `WebViewState`), the
`step` that its creation is at, and `native`, what the controller really has. `asked` is
history: the host's last word. `NextCreation` is the loop that skips dropped views and starts
the next controller; `Failures` names the native calls that may fail. Creation is replayed in
`Replay`: init_webview sets what the state held when the callback began, then the pending
bounds and navigation are applied. Calls that a view drops before it is ready (eval, cookies,
ipc) are outside.

### Desktop, WebPage, SchemeTasks and the other parts
An action of the toolkit (`Navigate`, `UiCommits`, `Decide`, `DragIn` ...) has one disjunct per
backend, named for the handler that the backend connects (`GtkCommitted`, `WkCommitted`,
`ContentLoading`). `WebPage` has the page's process with its own document and the two queues
between it and the UI process; `SchemeTasks` adds tasks, addresses and responders (`at`: held,
queued to the main thread, or between check, call and the key's removal on wk); a freed task
gives its address to the next. In `Downloads` two views share a context, in `NewWindows` all
popups have one opener, in `Cookies` the calls form a stack, each pumping for all; on gtk a call
that finds no cookie manager asks nobody and turns its loop for ever (`WithoutManager`). In
`NewWindows` an opener whose toplevel is no ApplicationWindow, or has no application, makes
`Allow` panic (`GtkPanics`), which ends the process. `DragDrop` numbers the drags and notes for
each event which drag it is about and whose paths it has.

In `Creation` a gtk view is in a window of the host, as a child in a container of its own or with
the window itself (`is_child`); dropping the latter destroys the window (`X11DataDrop`) with the
containers in it. Left out there: what X makes of a view whose window is gone, and views that
`new_gtk` makes in a container of the host's, which have no `X11Data`. A wk view may take over
the configuration of a live opener, with its content controller (`GroupOf`) and the schemes that
it has (`SchemesWith`); the configuration of a creation that failed is not used again.

`PageEvents` plays one of these scenes per behaviour: the parts share nothing but the backend
and the view's end, and so their product would show nothing more.

### AndroidPipe
Threads host, bridge, network and main. A send is `Send` (blocks while the channel is full)
and `Write` (the wake byte); `Wake` takes one byte and one message and runs its handler. The
tables of handlers are three: request, ipc, and one for those whose handlers the main thread
runs. `loadUrl` calls the navigation handler from within `Wake`. An error in Java in the
middle of a message unregisters the looper's callback (`looper`), after which nothing is
promised; `Answer` can have one too (`new_string` of GetCookies). `android_setup` sends from inside its `if let` on `WEBVIEW_ATTRIBUTES`, whose guard
lives until the message and its byte are sent: a host that builds a newer view waits for it
(`SetupSends`). Askers wait in `waiting` and may give up at any time (ten seconds are not counted).

## 3. Runs

Invariants whose names end in `Inv` are conjunctions of the module's type invariant and parts
that have names of their own.

| run | what it shows | instance |
|---|---|---|
| `RunLoopSafety` | TypeOK, GuardedLoop, InstanceThreadOnly, NoStrandedCaller, ErrMeansDown, and that each step of the code is a step of the service (ServiceSteps) | 2 hosts, 2 calls, 1 post, 2 generations, 2 guards, host-owned queue |
| `RunLoopRefinement` | EveryCallReturns, AcceptedPostRuns, ServiceSpec (with its fairness) | 1 host, 1 call, 1 post, 2 generations, own queue |
| `ExecutorSafety` | ExecutorInv (no wake is lost, nor block_on's nudge, and none leads to a poll after shutdown) | 2 tasks, 1 callback, 1 block_on, 1 redundant wake, both kinds of backend |
| `ExecutorProgress` | WokenTaskIsPolled, JoinerResumes, BlockOnReturns | one closure at a time |
| `ExecutorTimedWait` | defect: the second wait on a handle is never woken | 1 task, 2 block_on |
| `RepeatingTimer` | EarliestTimerArmed, TicksInv (one tick scheduled, none without a running timer, none after a drop), CancelIsFinal, TimerFires (ticks included) | 1 one-shot timer, 4 tick handles, delays 0 and 1, 3 backends |
| `TimersAndroid` | defect: a timer due when armed never fires | Android alone |
| `Channel` | DeliveredInOrder, StoreInv (stored data has an owner, a fetch finds it), MessageIsDelivered | 2 clones (one on the run loop thread), 3 messages, all faults |
| `Command` | CommandInv (a response settles its own promise, or goes astray forward only), CommandsStartInOrder, EveryInvokeSettles | 2 views, 2 pages each, 2 invokes, all faults |
| `WebView2` | LastRequestHolds, ControllersInv (open controllers are owned, one creation at a time), CreationEnds | 1 child, 1 top-level view, 2 parents, 2 requests, all failures |
| `AndroidPipe` | PipeInv, ConfigurationChangeKeepsView, PanicsOnlyLate, SendReturns | 1 view, 2 calls, 2 lives of the activity, capacity 3 |
| `PageEvents` | PageInv (scripts reach a page in order, messages name theirs), KeyOfRunningTask, DownloadIsReported, ViewGoesWithItsWindow, EventsTellOfTheirDrag, ViewKeepsItsParts, EvalRuns, AnswerArrives, CookieCallReturns | 3 backends; 2 loads, 2 scripts, 1 message, 1 resource; 2 downloads; 3 popups; 3 drags; 3 cookie calls; 3 creations over 2 ids, 2 protocols and 2 windows |

**Bounds and why they are enough.** *RunLoop*: two hosts contend for init, two guards make
the count matter, two generations are what a stale closure needs, two calls make one prune
the other's registration, a third operation posts. *Executor*: two tasks let one join the
other while `block_on` waits for either; a callback puts `block_on` behind a drain. Liveness
is checked without redundant wakes (`MaxRewakes = 0`), which could only help. *Timers*: a
tick, its restart and the next need three handles, one more when it is started in `block_on`;
delay 0 is the boundary. *Channel*: three messages are the least in which one is buffered,
one delivered and one missing; one clone is inline and one remote, the two ways a post can
go; only the remote one is dropped or closed (`Droppers`), while the other keeps sending.
*Command*: order and mix-ups concern pairs of invokes; a second page and a second view make
an id mean something else. *WebView2*: one creation waits behind another, which may fail or be
dropped; two requests make one come before the controller and one after, or overtake each
other; a second parent is what a view is reparented to. *AndroidPipe*: the code has room for eight
messages. Three are the least with which a configuration change goes through while the host
calls: the main thread's own `destroy` and the setup's `create` fit, and one message of the host
is between, before or after them; the fourth message fills the channel, as the ninth does in the
code. With room for one message the setup would block behind the `destroy`, and nothing that
follows a configuration change would be reached. A second life is a configuration change or a
restart after a destroy; two calls are an asker and what is in its way.
*PageEvents*: a load that supersedes another, a task that has the address of one that a
responder still answers, a success after a failure, a popup between two others, a drag that
crosses another and a third after both, a cookie call inside of one inside of a third, a third view that shares with two,
a window that is destroyed beside one that is not.

**Deadlock** is not checked (`CHECK_DEADLOCK FALSE`): every bound, and every program that has
nothing more to do, ends a behaviour; what must not stop is stated as liveness.

**Fairness.** The owner of a live loop keeps pumping it (the host's duty, or `run`, or
`block_on`'s `poll_once`); callbacks and polls return; a thread that is inside an operation
goes on. Strong fairness in RunLoop: inits and guard drops of the pumping thread switch
dispatch off and on, yet it comes back. Strong fairness for a GSource in Timers: GLib
dispatches a source that stays ready, also between others. Nothing requires user code to
start anything, events to fire, or loops to be shut down. In Command the commands end.
WebView2's callbacks come, with an error perhaps. In AndroidPipe each thread goes on
where it can (`Proceeds`): sends, the byte and the answer behind them, handlers that return (a
request's after thirty seconds if nobody answers it), and an activity that is destroyed for a
configuration change is created again. The looper polls the pipe between Java's messages, and a
mutex that gets free again and again is got at last, which is strong fairness of `MainSteps`.
Nothing requires a host to call or an activity to be destroyed. In PageEvents the toolkit
delivers: one weak fairness for all its steps is as good as one for each, as each stays
enabled until it is taken and a behaviour has finitely many of them; the host need not answer,
drop or navigate.

## 4. Findings

With a run of their own:

1. **Awaiting a handle again** (`ExecutorTimedWait`). `JoinHandle::poll` keeps the first waker.
2. **Zero wait on Android** (`TimersAndroid`). `it_value` zero disarms the timerfd.

Disagreements between code and documentation that are defined but not run; add the named
property to the cfg of the module's run, in the place of its others, to see a behaviour:

3. **call and its error** (`ErrMeansNotRun` in RunLoop). run_loop.rs:597-598 promises that an
   error means the callback did not start; the second test of the token and the cancelling at
   shutdown also give an error to a call whose callback has run.
4. **block_on in a posted callback** (`WokenTaskIsPolled` in Executor, with `Backends` set to
   `{TRUE}`). run_loop.rs:756-758 promises that other tasks make progress; where a drain takes
   the whole queue the wakes behind the callback are out of reach of the nested loop.
5. **A command's view** (`ContextIsInvoker` in Command). context.rs:14 says it is the one "that
   invoked this command"; it is the one the handler holds when the task is polled.
6. **A download's success** (`SuccessIsReported` in Downloads). lib.rs:680-684; on gtk the flag
   `failed` is never reset, so that after one failure every download is reported as failed.
7. **reparent** (`LeavesItsParent` in WebView2). lib.rs says the view is removed from its old
   parent; a view reparented before its controller is there is attached to the parent it was
   created for, which goes on resizing it.

Disagreements and defects that the passing properties carry as an exception, without a
definition of their own:

* `CancelIsFinal`: a cancelled timer of a Darwin batch fires.
* `StoredDataIsOwned` (`abandoned`): data whose script or fetch is under way when its view
  closes, or whose script failed to evaluate, stays in the store, though internals.rs:16-17
  says that entries go with the view.
* `MessageIsDelivered` (`holes`): a message that does not serialize keeps its index and stops
  the channel.
* `AnswersAreNotMixed`: a response that comes after a navigation, or to a view that took the
  handler over, settles a promise there that happens to have its id; initialization.rs:19 numbers
  the callbacks of each page from 0.
* `MessageNamesItsPage`: on gtk a message may come under the url of the load under way.
* `ViewGoesWithItsWindow`: on gtk a popup loses its view to the next one, or when another closes.
* `EventsTellOfTheirDrag` (`crossed`): on gtk a drop may be told with the paths of another drag.
  A drag that comes in before the Leave of the one before it has been told from the idle callback,
  and is dropped, finds state Leaving and the older one's paths (webkitgtk/drag_drop.rs:106-120):
  dropping a text is told as a drop of the files that were dragged before. Data that comes when
  its drag has gone makes an Enter with nothing over the view, and Overs of the next drag follow
  it (78-104). lib.rs:2187 says of the paths that they "are being dropped onto the window". On
  webview2 events of other drags follow the first drag of files.
* `CookieCallReturns`: a cookie call inside an event handler of WebView2 does not return
  (`Blocked`), nor on gtk one without a cookie manager or one that it is nested in (`Endless`).
* `ViewKeepsItsParts`: on gtk `X11Data::drop` destroys `x11_window` whether or not it is the
  view's own (webkitgtk/mod.rs:77-82): a view made by `new` takes the host's window with it, and
  all other views in that window lose their containers (`WindowTaken`). On wk, views that share
  an id or a configuration take the table entry or the message handler from each other
  (`SharesId`, `SharesHandler`), and a scheme that the opener's configuration had already is
  served by the opener's protocol, which goes when the opener is dropped
  (wkwebview/mod.rs:254-263).
* `SendReturns` (`MainIsStuck`): on Android a full channel blocks the main thread for good when
  it sends itself or waits for the lock of a handler that sends.
* `PanicsOnlyLate`: on Android an answer that comes too late panics.

## 5. Proofs

Every invariant and every action property that a run checks is also a theorem, for all values
of the constants: sets of threads, tasks, views and calls of any size, and every bound.

| module | theorem | property |
|---|---|---|
| `RunLoopProofs` | `TypeCorrect` | TypeOK |
| | `GuardKeepsLoop` | GuardedLoop |
| | `InstanceOnOneThread` | InstanceThreadOnly |
| | `CallersAreAnswered` | NoStrandedCaller |
| | `ErrorsAreHonest` | ErrMeansDown |
| | `ImplementsService` | ServiceSteps |
| `ExecutorProofs` | `NoWakeIsLost` | ExecutorInv |
| `TimersProofs` | `NativeTimerIsInTime` | EarliestTimerArmed |
| | `OneTickAtATime` | TicksInv |
| | `CancelledStaysCancelled` | CancelIsFinal |
| `ChannelProofs` | `MessagesInOrder` | DeliveredInOrder |
| | `StoredForItsFetch` | StoreInv |
| `CommandProofs` | `ResponsesGoAstrayOnlyForward` | CommandInv |
| | `StartOrder` | CommandsStartInOrder |
| `WebView2Proofs` | `ReadyViewHasLastRequest` | LastRequestHolds |
| | `ControllersComeOneByOne` | ControllersInv |
| `AndroidPipeProofs` | `BytesMatchMessages` | PipeInv |
| | `ViewSurvivesConfigurationChanges` | ConfigurationChangeKeepsView |
| | `PanicsForTheLateOnly` | PanicsOnlyLate |
| `PageEventsProofs` | `PagesAndHostsHear` | PageInv |
| | `TasksKeepTheirKeys` | KeyOfRunningTask |
| | `DownloadsAreReported` | DownloadIsReported |
| | `PopupsGoWithTheirWindows` | ViewGoesWithItsWindow |
| | `DragsAreWhole` | EventsTellOfTheirDrag |
| | `PartsAreKept` | ViewKeepsItsParts |

**Assumptions.** Each module assumes of its constants that bounds are numbers and that the
values that stand for "none" and the like are not among the members of the sets
(`ExecutorAssumption`, `WebView2Assumption`, `AndroidAssumption` ...). Besides: a run of
WebView2 has a size to ask for (`Sizes # {}`, as a view always has bounds), Creation an id
(`ViewIds # {}`, since every view is given one) and a window (`Windows # {}`), Command a first page (`MaxPages`), Android a
channel with room for one message. TLC evaluates the assumptions in every run.

**The argument**, module by module. Few of the properties are inductive. Each proof module has
an `IInv` that is; TLC has checked it on the instances of section 3. The proofs are
`Init => IInv`, one step per action for `IInv /\ [Next]_vars => IInv'`, and that `IInv` implies
the properties; lemmas about one action or one operator come before the induction.

* *RunLoop.* `IInv` says who holds `INIT_MUTEX` (`MutexInv`); what the statics are while the
  count is positive (`CountedInv`) and at each label of init and shutdown (`PhaseInv`); that all
  generations but the installed one are shut down (`GenInv`); that an operation not begun is
  referred to by nothing (`IdleInv`); how an unanswered call and its loop hold on to each other
  (`CallInv`): it is in `PENDING_CALLS` from its registration until the shutdown takes the list,
  *after* setting the token that the second test of send sees, so a call that goes on to wait is
  either on the list or queued on a live loop; and who has seen an instant without a loop
  (`DownInv`). `ImplementsService` is the refinement without its liveness: with two more
  invariants, of callbacks that have not started and of an Ok that implies a finished callback,
  every step of the code is a step of `RunLoopService` or leaves it unchanged.
* *Executor.* `StackOK` says which activation may be above which on the loop's thread. `TaskInv`
  ties a task to its handle and its joiner: who awaits a handle holds it and is the one that its
  completion wakes; a live task that awaits nothing, or something that has come, has a wake in
  the queue, in a drain, or is being polled. `BlockInv` says what `BlockOnWaker::queued` means
  in each phase of `block_on`.
* *Timers, RepeatingTimer.* The native timer is early enough in every state, except on Darwin
  while a callback or a drain is still to run, which will re-arm it (`Armed`); a tick in the map
  is that of the current handle, and a running timer has its tick in the map, in a drain that
  took it, or on the stack (`TickInv`).
* *Channel.* An index is in one place at a time (`OnePlace`): a clone's hand, the queue, the
  page's scripts, a fetch, the answers, the page's buffer; none of these is behind the page's
  counter (`PlacesInv`), which gives the order; and data is in the store as long as its
  operation may lead to a fetch (`DataInv`).
* *Command.* An invoke whose command has not begun is in one of three queues (`PlaceInv`), and
  invokes of one page that went the same way keep their order in each queue and from one to the
  next (`OrderInv`). Whose promise a response settles has an invariant beside it, `AnswersInv`:
  a response is one script, in one view's queue, which is its invoke's or a later one's (views are
  built in turn, and the handler knows the last); its command has ended, and it has settled
  nothing yet. With ids that are new in their page (`UsedInv`) it can meet one promise at most,
  and on its own page that of its invoke only.
* *WebView2.* A creation under way has one place in the queue (`QueueInv`); the step of a
  creation determines what owner, shared state and controller may be (`LifeInv`); what the host
  asked for last is what the controller has, or what the replay will set (`AskedInv`).
* *AndroidPipe.* A step changes one thread, and the channel at its end or its head, so `IInv`
  speaks of each thread, each message, and of the pairs that must not meet: two questions with
  one receiver (`AskInv`) and a message to create a view after that for a newer one
  (`CreateInv`). The first attempt at `CreateInv` failed: the model let a host build a view
  while `android_setup` was sending the old view's message. In the code the guard of
  `WEBVIEW_ATTRIBUTES` forbids that (android/mod.rs:154-159), and the model has it now
  (`SetupSends`). It takes two views and room for three messages for the difference to show,
  which with calls is more than TLC explores in a run: here the theorem says more than the run,
  which has one view.
* *PageEvents.* The scenes share the backend and the view's end only; what a scene does not play
  stands still (`PartsStandStill`), and each has an invariant of its own. *Scripts*: those under
  way are sorted and later than all that ran (`Queue`), and scripts are pending or on their way,
  not both (`OneQueue`). *Messages* (`MessagesInv`, in the scene that has messages): the document
  of a message is the one committed by the last report before it, or the one that the UI process
  already knows (`Knows`). *Custom protocols*: no two tasks share an address and only those that
  are held have one; that a free one is found when a task starts is a pigeonhole argument
  (`AddressIsFree`). *Downloads*: the flag of gtk is set only if a download has failed.
  *Popups*: calls of `window.open` come in turn, so that a view that takes the place of another is
  a later one's (`RequestsInOrder`). *Drags*: as long as a controller thinks that a drag is
  inside, its Enter is the last event but for Overs (`GtkOpen`, `WkOpen`, `WebView2Open`), and as
  long as a drag has not crossed another the controller is in step with it (`InStep`).
  *Creation*: on gtk a child's container goes only with the child or with the window
  (`GtkKeeps`); on wk every entry of a table is a live view's, a live view has its entry unless
  another one shares it (`WkKeeps`), and schemes are of views that were made
  (`SchemesAreOfViews`). Cookies have a type invariant only; what matters of them is liveness.

A choice of a least element (the next index, the earliest timer, a free address) needs induction
over numbers, which the provers cannot instantiate; `LeastElement` gets it from the library's
fact that strict inclusion of finite sets is well-founded.

**Only model-checked**: liveness (`EveryCallReturns`, `AcceptedPostRuns`, `WokenTaskIsPolled`,
`JoinerResumes`, `BlockOnReturns`, `TimerFires`, `MessageIsDelivered`, `EveryInvokeSettles`,
`CreationEnds`, `SendReturns`, `EvalRuns`, `AnswerArrives`, `CookieCallReturns`, and the
fairness of `ServiceSpec`). It rests on fairness and ENABLED, which TLAPS does not handle.

## 6. Plan

What would come next, in the models: timers that outlive their loop (a composition of Timers
and RunLoop), a channel across navigation, views that drop eval and cookie calls before their
controller is there.

In the proofs: the steps that liveness rests on and that need no fairness, as action properties
of their own (that what enables a step of RunLoop's owner, of a drain or of the toolkit stays
until that step); `SubclassInv` of WebView2 and the exceptions named in section 4 as theorems of
the backends that do not have them.
