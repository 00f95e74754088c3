# TLA+ specifications of nowplaying.nvim

`nowplayingd` keeps the state of whatever music player is running, and serves
it over a Unix socket to terminal and editor clients.  This directory holds
specifications of the parts of it where order, concurrency and failure matter,
the configurations that check them with TLC, and proofs checked by TLAPS.

## The system

| part | code | state | operations | talks to |
|---|---|---|---|---|
| state machine | `internal/state/state.go` | canonical `PlayerState`, time of the last command, subscribers and their buffered channels, under one mutex | `Apply`, `MarkCommandIssued`, `Emit`, `Subscribe`, `Unsubscribe`, `Get` | called by providers and request handlers; sends to subscribers without blocking |
| daemon core | `internal/daemon/daemon.go` | `active`, `activeCancel`, `activeRunning`, the list of providers, under another mutex | `Run`, `watchProviders`, `startActiveProvider`, `stopActiveProvider`, the request handlers | starts and cancels provider goroutines, calls providers, forwards notifications to the server |
| providers | `internal/providers/{stub,spotify}` | the player; access tokens | `Run` (poll and `Apply`), `Available`, transport calls, search, like, authorization | the player application, Spotify's web API, a callback server, a token file |
| server | `internal/ipc/server.go` | clients, which of them are subscribed, the listener | `Serve`, `serveClient`, `dispatch`, `Broadcast`, `Stop` | one goroutine per client; handlers run in it |
| client | `internal/ipc/client.go` | pending calls and their channels, notification buffer, `closed` | `Call`, `Close`, `readLoop`, `routeResponse` | the server |
| wire format | `internal/proto` | a read buffer | `Read`, `Write` | |
| TUI | `cmd/nowplaying/tui/model.go` | what is shown; the connection; search | `Update` and its commands | the client |
| visualizer | `cmd/nowplaying/tui/visualizer.go` | bars, the latest spectrum, frame counters | `feed`, `tick`, `resize`, `cycleMode`, renderers | fed by the TUI |
| audio capture | `internal/audio`, `cmd/nowplayingd/main.go` | a ring buffer | the capture callback, `Read`, the transform | `BroadcastSpectrum` |
| start-up | `cmd/nowplaying/main.go`, `cmd/nowplayingd/main.go` | the socket file | `ensureDaemon`, `runDaemonCommand`, the end of a daemon | starts `nowplayingd` |
| Neovim plugin | `lua/player` | its own player state, tokens, panel, picker | providers, web client, panel, search | players and the web API; does not use the daemon yet |
| artwork, theme | `internal/artwork`, `internal/theme` | a cache directory | image processing | |

What makes each of them hard, and what would make it correct:

- **State machine.** Notifications are derived from differences, sent without
  waiting and dropped when a buffer is full.  Correct means that what a
  subscriber was told adds up to the canonical state, that a drop is repaired
  by the next notification, that ticks do not overtake states, and that no
  observation from before a command undoes it.
- **Daemon core.** A watcher, goroutines that end late, and requests share three
  fields through several critical sections.  Correct means that one goroutine
  polls, that it is the active provider's, that the best provider wins unless
  another is forced, and that the state, and what clients are told of it, settles on the
  player's.  The design also wants a forced provider kept; the code does not keep it.
- **Client.** Callers, a read loop and `Close` share a map and its channels.
  Correct means that every call returns once, with its own answer or an error,
  that none waits on a dead connection, and that nothing is sent on a channel
  that was closed.
- **Server, TUI.** A slow client, a full buffer, a subscription that crosses an
  answer, a reconnection.  Correct means that a connected client ends up showing
  the canonical state, and that one client cannot stop another.
- **Keys and dialogs of the TUI.** Answers come back in any order, up to two
  minutes later, into whatever dialog is open by then.  Correct means that the
  cursor is always on a result, that typing is not disturbed by what was asked
  for afterwards, that a message on the screen is true, and that calls end.
- **Visualizer, ring buffer, transform.** Boundaries: the number of bars
  changes under a stored spectrum, counters are reset or wrap, there are more
  bands than bins.  Correct means that nothing is read outside its bounds and
  that each sample and each bin counts once.
- **Wire format.** Three goroutines write frames to one connection, in pieces; a
  frame is exactly as long as allowed.  Correct means that frames arrive whole,
  and that the reader takes whatever the writer lets pass.
- **Tokens, authorization.** Refreshes that overlap, callbacks that come late or
  twice, a crash in the middle of a save.  Correct means that the user stays
  logged in, that the file follows memory, and that nobody waits for ever.
- **Start-up.** Several clients look for a daemon and start one, daemons crash and
  leave their file.  Correct means one daemon, which can be reached.

`PROJECT.json` lists every hazard at its line, with the properties that cover it
or the reason why none does.

## The modules

| module | models | proofs |
|---|---|---|
| `StateMachine` | `state.Machine` and its consumers; refines `Feed` | `StateMachineProofs` |
| `Feed` | what the state machine promises its subscribers (abstract) | |
| `Daemon` | `daemon.Daemon`, the polling of its providers, the players; extends `StateMachine` | `DaemonProofs` |
| `Rpc` | what a client may rely on when it calls the daemon (abstract) | |
| `ConnClient` | `ipc.ConnClient` against the server's loop for its connection; refines `Rpc` | `ConnClientProofs` |
| `Pipeline` | from the canonical state to the clients' screens: the forwarder, `Server.Broadcast`, connections, `ConnClient`'s buffers, the TUI's connection | `PipelineProofs` |
| `Tui` | the TUI's keys, dialogs, calls and flash messages, and the daemon's loop for its connection | `TuiProofs` |
| `TuiScreen` | the position the TUI shows by its own clock, and the widths it draws with | `TuiProofs` |
| `Visualizer` | the TUI's visualizer: bars, stored spectrum, waterfall, flame | `TuiProofs` |
| `SpotifyWeb` | the Spotify provider's tokens, their file, the authorization and the web requests | `SpotifyProofs` |
| `Spawn` | how a daemon is found or started, and what daemons do with the socket's path | `SocketProofs` |
| `FrameQueue` | what a connection of the server promises its client (abstract) | |
| `Wire` | one connection as frames and bytes: the server's loop, its broadcasts, the shared writer, the reader; refines `FrameQueue` | `SocketProofs` |
| `SampleStream` | what the capture of audio promises (abstract) | |
| `Capture` | the ring of samples and the spectrum loop; refines `SampleStream` | `ServicesProofs` |
| `Fourier` | the transform and its bands | `ServicesProofs` |
| `MCStateMachine`, `MCDaemon`, `MCPipeline`, `MCTui` | small instances | |
| `MCServices` | small instances of the services, and their composition | `ServicesProofs` |

`Daemon` extends `StateMachine`, and `Pipeline` uses what `StateMachine` and
`ConnClient` establish.  The modules of `MCTui`, `ConnClient` among them, share no variables with one another, nor do
those of `MCServices`; in these two a behaviour is one of one `part`, chosen at
the start, and the other parts stay in their first state.

### Feed and StateMachine

Each method of `Machine` holds `m.mu` throughout and is one action named after
it, except that its fan-out is split: the notifications of an `Apply` go to
`outbox`, `FanOut` sends the next one to every subscriber (dropping it for those
whose channel is full), and every method waits (`Unlocked`) until `outbox` is
empty.  This keeps what the code allows, namely that a consumer, which does not
take the lock, receives between two sends of one `Apply`.  `Receive` is that
consumer.  `Ignored` is the pair of early returns of `Apply`; an observation
that passes them becomes the state and `NotificationsOf` says what is notified,
in the code's order.

Time is a counter `now`; `Debounce` is the 250 ms in its steps.  A track is a
record of its ID, its names (title, artist and album, which the code only
compares together) and its duration.  `UpdatedAt` and `TS` are left out.
`seen`, `missed` and `lossy` are history: what each consumer was last told, whose
last `state.changed` was dropped, and whose ever was; `published` is what the last one said.

`Feed` is the promise, and what `Pipeline` takes its `Change` and `Progress` for: what is to
be drawn changes in one step with the notification that says so, which every member with room is
given.  The refinement maps `view` to the rendering of the canonical state, or, as long as the
`state.changed` of it waits in `outbox`, to what was published before; nobody can tell, since
`Get` waits for the lock too.

### Daemon

`DaemonInit` is the state after `Register`.  `RunDaemon` is `Run` up to `Serve`: it
subscribes the forwarder to the state machine, with its buffer, starts the active provider's
goroutine and the watcher; nothing is served before (`Started`).  `Forward` is
`forwardNotifications`, the state machine's `Receive`; where its notifications go from
there is `Pipeline`'s part.  The watcher is a process with a program counter and its own copy of `d.active`: `WatchTick`
takes the copy, `WatchCheck` walks the providers, `WatchStop`, `WatchSelect` and
`WatchStart` are the three critical sections of a promotion.  A provider
goroutine reads the player (`PollRead`), stamps the sample if its provider does
so (`PollStamp`), applies it (`PollApply`), and on cancellation ends and may
clear `activeRunning` (`RunExit`).  A request occupies its client's handler:
`CommandStart` picks the provider and marks the command, `CommandDecide` is
toggle's reading of the canonical state, `CommandCall` and `CommandFails` are
the provider's answer.  `ProviderSet` assigns `d.active`.

The environment: a player is its playback status (every other command has the
control flow of play and pause), it can be used directly (`PlayerUsed`), and it
can come and go (`AvailabilityChanges`).  A call to a player takes any time up to
`Latency` clock steps if it runs a script (spotify), and none if the player is in the daemon's
memory (`InMemory`, the stub); only spotify stamps its samples itself (`Stamps`).  Polls of a player
that is absent fail.  Cancelling the
daemon's own context is not modelled.

### Rpc and ConnClient

`ConnClient` has the goroutines in `Call` (register, write, wait, leave), the
read loop (read, look up, send, or notify), `Close` (flag, socket, calls,
notification channel, in that order, by the owner or by the read loop) and the
other end of the socket.  Every access to the map is one step under `c.mu`;
what the code does between two of them are separate steps.  A caller's channel
is a flag for its one message and one for being closed.  A send on a closed
channel sets `panicked` and stops the process.  Frames that have reached the
reader's buffer can still be read after the socket was closed.

`Rpc` is the promise: a call returns once, with the answer given to it or an
error, and returns at all if it is answered or the connection goes down.  Its
`Crash` is the panic above, after which nothing is promised; `PanicOnlyByOwner`
says when that can happen.

### Pipeline

The canonical state is its version: `ImplementsFeed` shows that a `state.changed`
is sent with every renderable change and carries the state, `ConnClient` shows
what a call returns, and `Pipeline` uses both without their insides.  What it
adds is the way in between, with several clients:

| actions | code |
|---|---|
| `Change`, `Progress` | `Apply` and the fan-out into the forwarder's channel, which drops what does not fit |
| `ForwardReceive`, `ForwardCopy`, `ForwardSend` | `forwardNotifications` and `Broadcast`: it copies the subscribed clients under the lock and writes to one after the other (in the order of a map, `Towards`) without it; a full socket blocks it |
| `Dispatch`, `WriteReply` | the server's goroutine of a connection |
| `ReadFrame`, `ReadEnds` | `readLoop`, dropping notifications that do not fit, and closing |
| `Dial`, `DialFails`, `Subscribed`, `GotState`, `CallFails` | `connectCmd` |
| `UpdateConnected`, `Listen`, `ListenEnds`, `UpdateNotif`, `Reconnect` | `Update` and `listenCmd` |
| `ConnectionBreaks`, `DaemonDies`, `DaemonStarts` | the environment |

The answer to `state.get` is written by the connection's goroutine and a
notification by the forwarder, into the same socket in either order.  A client's
`chain` is the one command, or message, of its connection that is in progress.
`shown` is the state that is drawn, 0 while the banner is.  `unsent` and `lost`
are history: they hold as long as the notification of just the present state was
dropped by the first or by the second of the buffers that drop.

A progress tick takes room and is otherwise ignored; that the TUI moves its
position by it, and by its own clock, is left out.

### Visualizer

`Resize`, `Feed`, `CycleMode` and `Tick` are the methods `Model.Update` calls, each
in one step, since the TUI has one event loop.  Heights are abstracted to the tick that
computed them and to what drove them (`source`), a stored spectrum to its length,
the heat of the flame to its dimensions.  The two modes with buffers of their own
are themselves, the other nine are `plain`.  `Tick` counts the frame, decides
between spectrum, simulation and pause, and then runs the mode's own tick;
`WaterfallRow` and `FlameDrawn` are what the renderers index.  An index out of
range sets `exceeded`.  `painted`, `sinceFeed` and `cycled` are history.

### Tui

`Key` is `Update` for a key: the results take it if there are any, then the search
dialog, then `handleKey`.  A key that calls the daemon starts a goroutine (`Start`),
which writes its request to the connection it was started with (`CallSend`); the
daemon's loop for that connection runs one handler after the other (`Serve`); the
answer waits until `Update` handles it (`UpdateAnswer`), in any order.  `Connected`,
`Broken` and `Disconnected` are the connection as `Update` sees it; its details are
`Pipeline`'s.  A broken connection returns an error to whoever waits on it.

A query is abstracted to whether it is empty, blank or has text, results to the
search they answer and their number.  `FlashOver` may happen at any time, since a
flash's time (3 s to 120 s) is not related to anything else.  `Hints` is what the last line of the view shows.  `before` and `offline` are
history: which searches were on their way when the search dialog was opened, and
whether the flash was set by a key pressed without a connection.

`TypingUndisturbed` says what the code guarantees and no more: results of a search
that was on its way when `/` was pressed do take the keys of the query, and enter then plays
one of them.

### TuiScreen

The position moves by notifications (`StateShown`, `ProgressShown`) and by the TUI's
clock (`ScreenTick`), the duration only with the state, so that they need not belong to the same
track.  `Filled` and `Row` are the arithmetic of the progress bar (up to the
rounding of its quotient) and of a row of results, whose widths the
code counts in bytes.

### SpotifyWeb

A worker is the goroutine of a request, or of a callback's handler; its `pc` says
where it is.  `EnsureToken`, `AccessToken`, `RefreshToken` and `Store` are
critical sections of `tokenStore`, and so is `save`, which is why another worker can come between any two of them.
`save` holds the lock while it truncates the file (`SaveBegin`), writes it (`FileWritten`) and
changes memory (`SaveEnd`); the daemon may die between any two of these, the write may
fail with the file truncated (`SaveFails`), or nothing be opened at all (`SaveRefused`), and `store`
ignores either error.  `saveLost` is history: the last save that truncated the file did not complete it.  A request that is answered with 401 refreshes and tries
once more (`Unauthorized`).  `LikeToggle` is two such requests; like and play go on with a script
(`Script`) when the web API fails.

`startAndWait` binds the port (`BindCallback`), waits for its channel or 120 s
(`AuthReturns`, `AuthTimesOut`), and handlers of callbacks exchange the code, store
and put their result into the channel if it has room.

The accounts service and the web API are external, as the code uses them: a grant is a number; a refresh may or
may not replace the refresh token, an answer may be lost after it was given, access tokens age
for the store or for the API.  An answer of success is taken to hold an access token: the code
would store an empty one, which counts as no tokens; that is left out.  `Restart` is the daemon's crash at any moment and the load of the file.
`mishap` and `toggles` are history.

What `NotLockedOut` and `LikesToggle` except is what the code really does: two workers that store at
once can leave a refresh token the service no longer accepts, a lost answer to
a refresh always can, and two likes at once may both like.  `FileKeepsUp` excepts nothing of the kind: it
holds through overlapping stores, lost answers, failed saves and restarts.

### Spawn

A starter is one run of `nowplaying`: it connects to the path (`Check`), starts a
daemon, detached or in the foreground, and polls for it.  A daemon removes what is at
the path, listens, changes its mode and serves; each is a step, and at the end it closes its listener, which unlinks the path whoever's
socket is there by then.  `Stopped` is a signal, or SIGKILL, which leaves the
file behind.  `overlap` is history: somebody looked for a daemon while another was on
its way or about to end.

### FrameQueue and Wire

The bytes of one connection.  The loop reads a frame (`LoopReads`), which is any
combination of the fields that `Validate` and `IsRequest` look at, and owes an answer or not;
the forwarder and the spectrum loop broadcast to it if it is subscribed.  A
goroutine that has a frame takes the writer's mutex and writes as much as the
socket has room for (`WriteByte`).  The reader is `readLine` with its buffer:
`ReadByte`, `ChunkFull` (`bufio.ErrBufferFull`) and `LineRead` with their two tests of the
limit, and `StreamEnds`.  A byte only says which frame it belongs to and whether it is the
newline.

`FrameQueue` is the promise, which is what `ConnClient` and `Pipeline` suppose of a
connection: frames are written once and read once, in one order, answers in
the order of their requests, and the end is seen when everything that was written has
been read.  `sent` is history, the frames whose last byte was written: the refinement maps what was read to the frames
of the lines that the client got (`GotFrames`), and the end to the reader's own.

### SampleStream and Capture

`Capture` has the ring, the two positions modulo `Word` and the spectrum loop's tick,
which reads up to a buffer and analyses the last window of it.  `SampleStream` is
the promise: samples are numbered without a limit, those that were lapped are lost, the others
are read in order and once.  The refinement maps `taken` to the
captured samples less the distance of the positions.

The model keeps the reader less than `Word` samples behind.  The code has no such
guard; at 48000 samples a second it takes a day without a read, and the loop reads every 33 ms.

### Fourier

The transform in place (`BitReverse`, `Butterflies`), the bands (`BinRanges`, each band
the `NextBand` behind the one before, up to one of the upper ends `Tops`), and `Process`.  The complex numbers are replaced by the integers
modulo `Prime`, in which `Omega` is a root of unity of order `Order` (in the run 17, 3 and 16; a size
of 1024 needs a larger prime, such as 12289, and is in reach of the proof, not of TLC): the algorithm only adds,
multiplies and takes powers of the root, so its identity with the defining sums can be
checked exactly.  What this cannot show is rounding; where
`math.Pow` may land just below an integer, `Tops` allows both results.

## The runs

| run | properties | bounds, and why they are enough |
|---|---|---|
| `machine` | `TypeOK`, `InSync`, `TicksWhilePlaying`, `ImplementsFeed`, `Converges` | One subscriber (subscribers do not interact) and the smallest buffer that an `Apply` with three notifications overflows; tracks that reach every branch of `sameTrack`. |
| `daemon` | `DaemonTypeOK`, `NoLeakedGoroutine`, `PromotionFollowed`, `Promotes` | Two providers, two forced selections and two changes of availability, up to three goroutines: enough for a goroutine of the first provider to end after the second one of that provider has started. Time does not matter to these. |
| `daemon_moves` | `NoBounce`, `Settles` | Two clients, two commands or uses of the player, one change of availability, `Debounce` 3 against a `Latency` of 1: `NoBounce` needs the window to exceed the command's call and the poll's call together, `Settles` a clock that goes on until the last window is over, so that commands come at the first instant and polls at any. The forwarder's buffer is one, so that notifications are dropped. |
| `pipeline` | `PipelineTypeOK`, `ClientsAgree`, `NeverGoesBack`, `CatchesUp` | Two clients, two changes, one disturbance (a tick that takes room, a broken connection, or a daemon that dies and comes back), a forwarder's channel of two, sockets and notification buffers of one: every buffer overflows or blocks. |
| `tui`, keys | `TuiTypeOK`, `TypingUndisturbed`, `BrowserFlashHonest`, `CallsEnd` | Two calls of any kind, two results, one broken connection: a search behind an authorization, results over a query, two authorizations that end in either order. |
| `tui`, screen | `ScreenFits` | Widths on both sides of the least bar (18) and the least row (42, so 41), positions before, in and past tracks with and without a duration; texts and durations are in the property. |
| `tui`, visualizer | `VisualizerTypeOK`, `BuffersFit`, `FollowsFeed` | Two widths, two heights, one dot row per character, so that rings of two and three wrap within four ticks; a feed goes stale within three. |
| `tui`, connection | `ConnTypeOK`, `NoStuckCall`, `PanicOnlyByOwner`, `ImplementsRpc` | Two calls, two notifications on a buffer of one, `Close` by the owner or the read loop: a call that registers before, during and after the sweep. |
| `services`, web | `NotLockedOut`, `FileKeepsUp`, `LikesToggle`, `WebRequestsEnd` | Two requests and two callbacks at once, two grants after the first, one trouble (a token that ages, a lost answer, a save that fails, a restart): a refresh against an exchange, two callbacks of one authorization, a callback after the time-out, two likes one after the other. |
| `services`, spawn | `OneAtATime`, `StartSucceeds` | Three starters, one daemon that is killed at any moment: a start over the file of a dead one, and one more after that. |
| `services`, wire | `FramesIntact`, `ImplementsQueue`, `AnswersArrive` | Two requests and two broadcasts (an answer that is too large is dropped by the code, and `AnswersArrive` does not count it as owed); a limit of four with frames of one, three (just the limit with the newline) and four (dropped), a reader's buffer of two, so that frames need none, one or more refills. |
| `services`, capture | `ImplementsStream` | A ring of four in words of 16, deliveries up to more than a ring, 36 samples: both positions wrap twice. |
| `services`, fourier | `BandsPartition`, `LoudAsDefined` | Every size up to 16 with every tone, up to five bands: more bands than bins, and powers that are integers. |

`services` also has `ServicesTypeOK`, the types of its parts; that of `Capture` says
that the ring holds the newest samples where its write position implies.
`NothingRejected` is no property of its own there: a frame that is rejected is an end before
everything was read, or without one, which `ImplementsQueue` excludes.  It is proved.

What `ClientsAgree` says and what it does not: once nothing is on its way, a
connected client shows the canonical state unless the notification of exactly
this state was dropped.  Such a drop is not repaired before the next change; the
design (`docs/superpowers/specs/2026-04-25-standalone-tui-design.md:302`, "All
connected clients receive the notification and re-render") does not mention it.
After the answer to `state.get` a client may briefly go back to an older state that was
buffered while it connected; `NeverGoesBack` starts with that first notification.

Six runs show where the code does something else than its comments or documents
say:

- `daemon_set_ignored`: after `provider.set` the previous provider's goroutine
  keeps feeding the state machine and the chosen one's is not started.
- `daemon_forced`: a provider that `provider.set` has selected stays active until the
  watcher's next tick if a better one is available, while the design calls the method
  "Force-select active provider".  `Promotes` therefore only speaks of selections that are
  not forced, or forced on the best provider.
- `daemon_slow`: with a window of 3 and calls of up to 2 to Spotify's script, a pause is marked, a poll
  reads "playing", the pause is carried out, and the poll is applied when the window is over:
  `SampledAt` is stamped when the script has returned, and the window starts when the
  command is marked.
- `conn_panic`: an owner's `Close` closes the notification channel or a pending
  call's channel between the read loop's test and its send.  In the TUI the owner
  closes when a call of `connectCmd` has failed.
- `visualizer_overrun`: the stored spectrum keeps its length when the window
  grows, and the next tick, if the spectrum is fresh, reads past its end.
- `spawn_race`: two clients launched at once start two daemons, and the second
  takes the path from the first, which goes on polling and serves nobody.  The
  design asks for a lock file that does not exist.

Two more show without a run.  The design (the same document, line 332) has the
daemon serialize the commands of a provider with a mutex; `transport` has none, and
`CommandStart` of two clients in `Daemon` reflects that.  And the banner of a TUI
without a connection says "press q to quit" while, in a dialog that was open
before, `q` is a letter of the query.

Bounds are constants (`Max...`), tested in guards; `MaxTime` leaves room for a
window after the last command.  Runs with bounds stop where the bounds end, and a
connection stops when it is closed, so deadlock is not checked in those.

### Fairness

- `StateMachine`: the holder of the lock finishes its fan-out, since no send
  blocks, and a consumer receives, since it is a goroutine that loops on its
  channel.  Providers and commands owe nothing.
- `Daemon`: `Run` begins, goroutines, the forwarder, the watcher's ticker and handlers go on (weak
  fairness).  Time is strongly fair: polls of the stub take no time, but its ticker separates
  them, so they do not follow one another at one instant for ever.  `RunExit` is strongly fair:
  `select` chooses at random between a tick and the cancelled context.  Requests, the users of a player, and its
  availability owe nothing.
- `ConnClient`: a goroutine that can go on does.  A caller's context need not
  expire, the owner need not close, and the server owes neither an answer nor a
  disconnection.
- `Pipeline`: the forwarder, every connection's goroutine, every read loop and every
  TUI's chain of commands go on when they can (weak fairness), the timer of the
  reconnection among them.  The player, connections that break and daemons that
  die or are started owe nothing; `CatchesUp` therefore supposes that the daemon is
  up for good in the end.  That a client's process is suspended is not modelled:
  a client that stops reading stops the forwarder for all as long as it does.
- `Tui`: the goroutine of a call goes on, Bubble Tea's loop handles every message,
  and the daemon's loop answers: `auth.start` has a limit of 120 s, and the HTTP
  requests of the others one of 10 s.  No key has to be pressed, and connections
  need not come or go.
- `SpotifyWeb`: workers go on, with the same limit for requests and with scripts that
  return.  `exchangeCode` uses HTTP's default client, which has no limit, so nothing
  is assumed of a worker that exchanges.  Nothing of the world (callbacks, ageing,
  restarts) has to happen.
- `Spawn`: starters and daemons that were started go on.
- `Wire`: a goroutine that holds the writer's mutex writes when there is room, the client
  reads (weak fairness), and one that waits for the mutex gets it in the end (strong
  fairness): Go's mutexes do not starve a waiter.

## What is proved

For every value of the constants that satisfies the named assumptions
(`ConstantsAssumption`, `DaemonAssumption`, `ConnClientAssumption`,
`PipelineAssumption`, `VisualizerAssumption`, `TuiAssumption`, `TuiScreenAssumption`,
`SpotifyAssumption`, `StoreAssumption`, `SpawnAssumption`, `WireAssumption`,
`CaptureAssumption`, `FourierAssumption`, which TLC evaluates in the runs):

- `TypeCorrect`: `Spec => []TypeOK`.  `TypeOK` is inductive as it stands.
- `SubscribersInSync`: `Spec => []InSync`.  `InSync` speaks of moments when no
  `state.changed` is waiting in `outbox`, so it is not inductive; the invariant
  used also says what holds while one is waiting (it carries the canonical
  state, there is at most one, and subscribers are behind by exactly it).  The
  step that needs thought is `Apply`: if nothing renderable changed, `SameTrack`
  has to be strong enough that two states that are the same to it are rendered
  alike.
- `TicksBelongToPlaying`: `Spec => []TicksWhilePlaying`.  A tick is the last
  notification `Apply` sends, so when it goes out no `state.changed` is waiting and
  the invariant of `SubscribersInSync` says that the subscriber has the state it
  belongs to.
- `MachineImplementsFeed`: `Spec => ImplementsFeed`, all of `Feed`.  The invariant (`PublishedInv`): what was
  published differs from what is rendered exactly while a `state.changed` waits, and there is one
  at most.  `Apply` is therefore a stutter of the feed and the fan-out of that notification its
  `Change`, which really changes something.
- `DaemonUsesMachine`: `DaemonSpec => Spec /\ []ForwarderInSync`.  Each action of the daemon is an
  action of the state machine or leaves it alone, so all that is proved of the machine
  holds in the daemon; `Run` subscribes the forwarder, and no action subscribes anything else or
  ends that, so from then on there is exactly one subscriber, and what `InSync` says of it is
  `ForwarderInSync`: what the forwarder was told, or will be by its channel, renders the
  canonical state unless its last change was dropped.
- `DaemonTypeCorrect`: needs that the watcher's index never passes its own copy
  of the active provider, which is in the list.
- `GoroutinesNotLeaked`: the invariant relates the flag, the cancel function and
  the watcher's program counter: only the watcher starts a goroutine, and when it
  is about to, `activeCancel` is nil and every goroutine cancelled.  A late exit that
  clears `activeRunning` is harmless because of this.
- `PromotionsFollowed`: as long as nothing was forced, the active provider's
  goroutine runs whenever the watcher waits.  A late exit could clear
  `activeRunning` under the running goroutine's feet if the watcher could come
  back to a provider it left; it cannot, because `active` only moves to better
  providers.  The invariant carries that: the provider of every
  cancelled goroutine is worse than the active one, except in the middle of a promotion.
- `NothingBounces`: `DaemonSpec => NoBounce`, if `2 * Latency < Debounce`.  The invariant (`TimeInv`)
  follows a command and a poll through time: a command is carried out `Latency` after it was
  marked at the latest, so a sample that it makes outdated was read no later than that, and the
  sample is applied another `Latency` later at the latest, when `Ignored` still
  holds.  `daemon_slow` is the same property without that hypothesis, and fails; in the
  code the window is 250 ms and nothing keeps a call to a player below half of it, so
  the hypothesis says when a user sees no bounce, not that there is none.
- `ConnTypeCorrect`, `CloseReleasesCalls`: the latter rests on the order in
  `Close`.  A call that waits and is not in `pending` has a closed channel or a
  message; one that registers after the sweep finds the socket closed.
- `LoopClosesSafely`: `ConnSpec => []PanicOnlyByOwner`.  As long as the owner has
  not called `Close`, only the read loop closes channels, and it is then no longer
  sending.
- `ConnectionIsRpc`: the safety part of the refinement.  Its invariant says that a
  call with a message was answered.
- `PipelineTypeCorrect`, `ClientsAlwaysAgree`, `ClientsNeverGoBack`: one invariant (`PathInv`)
  for any number of clients, any capacities and any number of breaks and crashes.  Versions are
  sorted in each of the places a notification passes (the forwarder's channel, the forwarder, the
  socket, the client's buffer, the message in hand), and what is in a later place is never newer than what is
  in an earlier one (`Ordered`); that is why nobody goes back.  For agreement it says that what is older
  and on its way is followed by the present state unless that was dropped, and that a subscribed
  client knows the present state, or will from the answer to its call, or has it on its way
  (`Published`, `Follows`).  Two smaller parts say that a call has one request, answer or reply in
  existence, and what the client's and the server's ends of a broken connection
  have left (`CallInv`, `LinkInv`).
- `VisualizerTypeCorrect`, `BuffersAlwaysFit` (`WaterfallInOrder`, `FlameFitsAlways`): one invariant,
  which says that the ring's `wfLen` newest places hold the `wfLen` newest snapshots,
  all of the present width, and that heat is absent or of the present width.
  The lemma `RowsShift` is the arithmetic of the ring: behind the next head the
  newest row is the place written last and every other row is where it was, one
  older.
- `BarsFollowFeed`: the frames counted since the last spectrum are the ticks since then,
  or fewer when the mode was cycled in between, which resets the count.
- `ScreenAlwaysFits`: for any widths, durations and positions, negative ones and ones behind the
  track's end among them, the filled part is a part of the bar, and a row is cut inside its text and no longer than its room.
- `TuiTypeCorrect`, `TypingIsUndisturbed`, `BrowserFlashIsHonest`: one invariant.
  For typing it also says that as long as the dialog is open every search on its way is one
  of those before `/`: only the dialog's own enter starts one, and closes it.  For the flash
  it says the same of what is set as of what is drawn: an answer to any
  authorization overwrites the text of all of them.  Of the daemon's queue it says that a request
  in it was sent and is there once.
- `UserNotLockedOut`, `FileAlwaysKeepsUp`: the invariant follows the one worker that has
  a grant which is not stored yet (`OneStores`).  What it is going to store is accepted by
  the service: its own refresh token, or the stored one if the refresh did not replace it
  (`Granted`).  Beside that, whoever uses tokens finds some, and exactly the worker in the
  middle of `save` holds the lock.  The second theorem has no premise about overlaps: since the lock admits one
  save at a time, the file is torn or holds that worker's grant while it is between its steps
  (`HalfSaved`), whatever the others do, and memory follows it or the save was cut short.
- `LikesAlwaysToggle`: while likes do not overlap, one is under way at most, and what its
  first request found still holds when its second one is sent (`LikeInv`).  That likes overlap is
  a premise of the property: the code reads and then writes, so two at once may both like.
- `SpotifyTypeCorrect`, `SpawnTypeCorrect`, `WireTypeCorrect`, `CaptureTypeCorrect`,
  `ServicesTypeCorrect`: the types of the services, one by one and of their composition.  Each behaviour of
  the composition is one of each part, since its steps are a step of one and leave
  the others alone.
- `FramesStayIntact`, `NothingIsRejected`: the invariant (`WireInv`) reads what the client has begun to
  assemble, what its reader has buffered, and the socket as one stream: whole frames, then the
  beginning of the one frame whose writer holds the mutex, as far as it was written.  A writer gives up the
  lock only at the end of its frame or when the connection is gone.  That no frame is rejected
  needs besides that nobody starts to write a frame that is longer than the limit with its newline.
- `WireImplementsQueue`: `WireSpec => ImplementsQueue`, all of `FrameQueue`.  On top of `WireInv`,
  the invariant says that the newlines in the stream are, in their order, those of the frames that
  were sent and not read yet (`Carries`), so a line that is read is the next frame; and that
  the answer the loop is about to give has a number above all those sent (`NumberInv`), since one goroutine
  gives them all.  That the end is seen only when everything was read holds because an abandoned frame
  leaves no newline behind.
- `OneDaemonAtATime`: without overlap, a starter that is about to start a daemon finds
  every other one gone, and the path is then only ever its own.
- `CaptureImplementsStream`: `CaptureSpec => Stream!StreamSpec`, all of the abstract
  specification, since it has no fairness.  The invariant says where in the ring each of the newest samples
  is.  The arithmetic rests on four lemmas about remainders, and on `Word` being a multiple of
  the ring's size: without that the place of a sample would jump when a position wraps.

- `BinsPartitioned`: `FourierSpec => []BandsPartition`, for every size that is a power of two, every number of bands and every upper ends that
  powers can be rounded to.  Each bin is in the first band that ends at or behind it, and in no other, since
  ends never go back and the last band ends with the last bin.  Both facts are inductions over
  the bands, and the library's theorem of induction cannot be instantiated here; `NatInSteps`
  gets it from the pigeonhole theorem of `FiniteSetTheorems` instead: if a set that has 0 and every
  successor lacked m, the successor would map the numbers below m that it has one-to-one into
  those of them that are not 0.
- `OverrunsOnlyWidened`: the index that `visualizer_overrun` finds out of range never is one while
  spectrum data is fresh and the number of bars has not grown under it (`NeverWidened`).  So a
  window that grows is the only way there.  It need not have grown just before: cycling the
  mode resets the count of frames, and makes a spectrum that had gone stale fresh again.

Every invariant and action property of the passing runs is proved but one.  Model-checked only are
`LoudAsDefined`, whose proof would be that of the identity of Cooley and Tukey, sums split
into even and odd terms at every stage, and which was not attempted; and
everything about fairness (`Converges`, `Promotes`, `Settles`, `CatchesUp`, `CallsEnd`,
`WebRequestsEnd`, `StartSucceeds`, `AnswersArrive`, the liveness in `Rpc`), which is beyond
what TLAPS does with `ENABLED`.  The runs on which a property fails are TLC's by nature.

## What is not modelled, and the plan

Not modelled and not planned: rendering and themes; the particles' motion, the Hann
window and decibels (floating-point arithmetic); the artwork packages, which process images
and are not used by any program yet; the encoding of JSON and the parsing of
a script's output; build scripts, and the fake server of the tests.  The cancellation of
the daemon's own context is only seen from outside, as the end of its connections and its
socket.

Open, in the order in which it would add most:

1. The Neovim plugin, a second implementation in Lua: `auto_switch` (`lua/player/state.lua:70`),
   the retries of its web client and a refresh against a logout
   (`lua/player/spotify_api/client.lua:92`, `auth.lua:265`), late results of its search picker
   (`lua/player/telescope/search.lua:723`).
2. A client that is suspended with a full socket, in `Pipeline`: how long the others wait.
3. A proof that the transform gives the sums that define it (`LoudAsDefined`).
