# ARCTracker Sync in TLA+

ARCTracker Sync is a desktop program (Rust, mainly for Windows) that watches the TLS traffic of a
game, takes the bearer token the game uses, and submits it to the user's ARCTracker account. This
directory holds its formal models, the TLC configurations that check them on small instances, and
theorems about them that TLAPS proves for all values of the constants.

Paths below are those of the repository; `PROJECT.json` maps every definition to the lines it models.

## 1. The system

| Component | State | Operations | Talks to |
|---|---|---|---|
| Account session (`src/app.rs`, `src/sync_client.rs`) | `auth_token`, `latest_token`, synced flag and fingerprint, retry state, one channel for each request in flight | sign in and out, poll each channel, retry, refresh, settings and "Try again" | HTTP threads by channel, credential store, capture thread by channel |
| Browser sign-in (`src/auth_bridge.rs`) | loopback listener, one thread for each attempt | bind, accept one connection, answer a page, report | app by channel, browser tab |
| Self-updater (`src/updater.rs`, `src/app.rs`) | `update_state`, `current_release`, dialog, check and install channels | check, install, relaunch | GitHub, two threads, the executable on disk |
| Capture thread (`src/capture.rs`) | keys and their signature, ring of recent segments, `seen_fingerprints`, stream manager | read a packet, reload keys, replay, clean up, stop | wire, sync-key file, app by channel |
| Stream manager (`vendor/pcapsql-core/src/stream`, `.../tls`) | connections, buffers, TLS sessions | add a segment, parse, decrypt, time out | capture thread |
| HTTP and token scanner (`src/capture.rs`, `src/token.rs`) | a buffer for each direction of a connection | parse a chunk, find the bearer header | stream manager, capture thread |
| Process lifetime (`src/main.rs`, `src/single_instance.rs`, `src/app.rs`) | named mutex and event, stop flag, the worker, listener and tray threads | acquire, signal, listen, the ways to end | other processes of the session |
| Firewall rule, app-owned key file (`src/firewall.rs`, `src/config.rs`) | a rule and a file outside any process | add, remove | capture thread, cleanup |
| Launcher preparation (`src/launch.rs`, `src/process_env.rs`) | kind of key source, readiness, `force_close_available` | resolve, detect, close, kill, truncate the key file, start | game launchers, registry, key files |
| Configuration, credential store (`src/config.rs`, `src/credential_store.rs`) | a file, a credential | load, save, clear | session |
| Hub, settings, tray, drawing (`src/app.rs`, `src/widgets.rs`, ...) | `HubState` is a function of the rest | buttons | session, updater, capture |
| Packet sources (`src/rawsock.rs`, `src/npcap.rs`, `src/capture_backend.rs`, `src/packet.rs`) | adapter list and selection, capture method, `capture_blocked` | scan, choose, open, read, parse a frame | capture thread, network stack, Npcap driver |
| Elevation (`src/elevation.rs`) | none | query, relaunch | process start |

**Concurrency.** `ArcTrackerSyncApp` sits behind one mutex. A frame of the UI, the worker's tick
every 750 ms, a tray command and the single-instance listener take it in turn, so handlers are atomic with respect to
each other. What is not atomic is a request: a handler starts a thread, gives up the lock, and some
later tick polls the channel. In between the user may have signed out, changed accounts, paused,
quit or started an install. The capture thread, the callback thread of a sign-in and other
processes run beside all of it.

**What makes each component correct, and is hard to test.** Session: a first token is never
forgotten, failures do not turn into a flood of submissions, a sign-out is final. Sign-in: only the
tab the app waits for can sign it in, and the app never waits for nothing. Updater: never an older
program, never a dialog that stays locked. Capture thread: whatever the order of handshakes, secrets and data,
what can be decrypted is. Scanner: each token once and in order, however the plaintext is cut. Launcher: the
game writes the file that the capture reads, and the user's own key log survives. Packet sources: the capture is
the one the settings show, and a failure is not for ever. Processes: one primary, nothing left behind. `PROJECT.json`
(`hazards`) lists the places in the code where these could go wrong.

## 2. Modules

| Module | Role |
|---|---|
| `SyncSession` | the session; `MCSyncSession` adds the symmetry set for TLC |
| `SyncSessionProofs` | its theorems |
| `SignIn`, `SignInProofs` | the browser sign-in and its theorems |
| `Updater`, `UpdaterProofs` | the updater, its dialog, the relaunch, and the theorems about them |
| `CaptureThread`, `CaptureThreadProofs` | capture loop over an abstract stream manager and the key file, and its theorems |
| `TokenSource` | abstract: what the capture thread reports and the session polls; `CaptureThread` implements it, `SyncSession` reads it |
| `TokenFeed` | abstract: what the HTTP scanner owes the capture thread, and what follows from it |
| `HttpScanner`, `HttpScannerProofs` | the incremental scanner, shown to implement `TokenFeed`; `MCHttpScanner` lists the requests for TLC |
| `Launcher`, `LauncherProofs` | key source, readiness, preparation of a launcher, hub state, `config.json`, and the theorems |
| `CaptureSource`, `CaptureSourceProofs` | adapters, methods, start and failure of captures, frames, and the theorems; `MCCaptureSource` gives the scores |
| `Instances`, `InstancesProofs` | the processes of one desktop session, the rule and the key file they share, and the theorems |

In each module the definitions under "Faulty variants" are not part of the specification: they are
bugs somebody could write, and each property is known to fail when one of them replaces the
definition it varies (`mutants` in `PROJECT.json`).

### SyncSession

One action for each handler; its name is the handler's, with a suffix for the branch
(`PollSubmitDeclined`, `PollRefreshErr`). Calls are inlined: `PollSubmitLinked` contains the
`reset_submit_retry_state` and the `submit_latest_token_if_ready` at its end. A helper that the code calls
after it has written fields takes their new values as parameters. Channels `submit_rx` and
`refresh_rx` are "none", "sent" or the answer waiting to be polled; the two HTTP threads are
`SubmitAnswered` and `RefreshAnswered`, and answers differ only as far as the handlers tell them
apart: a 401, a `success=false`, a success, everything else. `submitting` and `refreshing` keep what the request
was started with, since that may no longer be what the app holds when the answer comes.

- Time: an `Instant` is the fact that it is set; `RetrySubmission` is possible whenever
  `submit_failed_at` is set, so every length of a delay is covered. In the code the clock is renewed by a
  retry that finds nothing to submit; here that changes nothing.
- The failure counter saturates at `Retries + 1`, from where on `submit_backoff` is `None` (in the
  code it saturates at 2^32 - 1).
- The credential store may fail on each call when `StoreMayFail`.
- The capture is the switch `capture` and the set `emitted` of the tokens its thread has reported; a full set is
  cleared as in `process_segment`. Which token comes when is free.
- `Restart` is any end of the process followed by a start, with the credential store as the only
  memory. The first interface scan of `new` may fail, so capture may start out blocked.
- `attempts`, `refused` and `signed_out` are history variables; no guard reads them.
- `sync_enabled`, `last_sync_error`, messages and the tooltip are display data and are left out.

### SignIn

An attempt stands for its random `state`. `port` is the attempt whose thread holds the callback
port, `conn` the one connection it accepted. The tab of an attempt can call back at any time, any
number of times, with a token, an error or neither; a stranger can connect too. A cancelled attempt
leaves its thread behind with the port; writing the page or the accept itself may fail. A sign-in
cannot start while the port is held. `SyncSession` abstracts all this to `auth_rx`.

### Updater

Releases are versions. The latest release may move forward or back (a withdrawn release). The check and the install
are threads whose answers wait in `check_rx` and `thread`; a poll takes whatever the state has
become since. `Relaunching` never shows: its handler either exits or goes on to `Failed`.
Download, checksum and archive are stages that succeed or fail.

### CaptureThread

A connection is a handshake and a few data segments in wire order. The thread captures or misses
each of them; a missed segment is a gap for good. `ReadTail` and `SignKeys` are separate steps
because the file may change between `read_sync_key_tail` and `SyncKeySignature::from_path`.
`stream[c]` is what the manager knows: the next position it expects, and whether the TLS session
has keys, which is decided once, by the handshake. `RingSize` counts segments (the limit in bytes acts the
same way), `TailSize` counts connections whose secrets fit the 64 MiB tail. `OtherTraffic` pushes segments of
other connections through the ring. The two directions of a connection are one stream here.
A stop request may come while the loop is between its checks, in a read or in a reload: `stop` says which step that was
begun before the loop still finishes, a packet it processes or a tail it loads. What the thread has in local variables
is dropped at its end (`LoopEnds`), by a stop or by an error.

### TokenSource

The channel between the two largest parts. `SyncSession` has only `capture` and `emitted` in place of a whole
capture thread; `TokenSource` says what it takes for granted there: a running thread reports a token it does not
remember, or any token when its set of `MAX_SEEN_FINGERPRINTS` is full, and a new thread remembers nothing. In
`CaptureThread`, `running` is `pc # "stopped"` and `known` is `seen`. In `SyncSession` they are `capture` and
`emitted`, which lag behind by what waits in the channel; there a handler may also end one thread
and start another (`Replaced`). No run lists `ImplementsSource` and `ReadsSource`: they are proved. TLC finds no
violation of either (two tokens; a limit of one for the thread, of two for the session).

### HttpScanner and TokenFeed

`HttpScanner` is `EmbarkHttpParser::parse_stream` with the functions of `token.rs` it calls: append, cut the
buffer at its front, look for a method word, skip heads that are no requests, report at most one
request and leave the rest. Bytes are symbols: two halves of a method word, so that a chunk may end inside one,
the rest of a request line, a line end, a header line with what it carries, and other text. Lengths of bodies are not parsed
by the code, so a body with a method word in it misleads it; such bodies are among the inputs. `Rebuild` is a
new manager after a reload of the keys, which reads from the handshake again.

`TokenFeed` numbers the tokens of a direction as they arrive. `HttpScanner` maps the number of heads that
have come whole to `sent`, its hits to `got` (a hit that is no wanted request maps to 0, which no step
of the feed reports), and a buffer that overflowed or was misled to `lossy`.

### Launcher

One action for each handler of `app.rs` that deals with launcher, key source or platform; `prepare_launcher`, which
waits up to 20 seconds with the app's lock held, is split at its waits (`Prepare`, `ExitSeen`, `TimesOut`,
`StartLauncher`, `PrepareFails`). A launcher's processes are the set of their values of `SSLKEYLOGFILE`.
What `process_env.rs` reads of a process is its value, none, or an error (`Readings`). Key files are absent, empty
or filled. A source is its kind and its path, and a change of either counts, as the code compares the whole of it.

`config::save` is split as well: the temporary file is created or emptied (`SaveBegins`), filled (`SaveWrites`) and renamed
(`SaveRenames`), each of which may fail (`SaveFails`) and leave that file behind; a file that is not whole loads as the
defaults. The process may end between any two of these (`Crash`), also in the save of a first run within `new`.
Only the end of a process is meant: writes of a process that ended reach the disk. A started process has the
user's environment or, after an update, that of the process before it. `session` is what `hub_state` sees of the account session;
it moves freely, as `SyncSession` has its rules. The app is taken as elevated and an adapter as there.

### CaptureSource

Handlers are compositions of the parts they share (`SettingsChanged`, `Scanned`, `RefreshSource`,
`MaybeStart`), each an operator from the record `app` to a new one. Adapters go up, down and away, scans fail,
Npcap is installed and removed, the key file and its source change. The `cause` of a block is a history field. A capture
opens, lives and fails in its thread; its failure is polled later, if its handle was not dropped before.
Opening and reading are told apart: on Linux an adapter that is administratively down can be bound, and the next read fails
with ENETDOWN (`CanCapture`, the phase "erring"), while a link that is up without a carrier is only silent. A capture on Windows
may fall silent when its adapter goes and counts as live until a read fails.

The last section is the parse of a frame to its payload (`packet.rs`), in units of a header each: the types in a link header,
which the sender stacks and the parser skips one by one (`LinkTypes`, `Skipped`), link types with and without a header,
IP versions, frames cut by the buffer, padding, and packets without a length under segmentation offload. Left out:
three tags and more, Linux adapters without Ethernet headers (the code calls them all Ethernet), an operstate
that is neither up nor down, and the app without administrator rights.

### Instances

`phase` follows a process from its launch over `acquire` to its end. Windows semantics: a mutex
exists while somebody has a handle, an event while a listener lives, a process that ends closes its
handles and stops its threads. Creating the mutex or the event may fail
(`MutexMayFail`): a process without the mutex is primary (`AcquireUnguarded`), one without the event has no listener.

The worker, the listener and the tray each upgrade a weak reference to the app, wait for its mutex, do their work and drop
the Arc. `holding` is who has one; the app lives on in these threads when the window is gone, and the thread
that drops the last Arc runs `Drop` (`Releases`, `DropEnds`), unless `main` returns first (`MainReturns`).
`shutdown_cleanup` sets the stop flag first (`CleanupBegins`) and then joins the capture thread, which is why `ShutdownCleanup`
waits for one that is just adding its rule; listener and launches run in between. On other platforms there is neither
guard nor rule.

## 3. Runs

| Run | Question | Bounds, and why they are enough |
|---|---|---|
| `session` | submissions stay bounded, a first token is not stranded, a sign-out sticks, records stay in step | two accounts (one before and one after a sign-out), two tokens (an old and a rotated one), a dedup set of two, one retry: 1.5 million states with symmetry. The theorems hold for every length of the schedule |
| `session_live` | a waiting first token is attempted | one account, two tokens, no symmetry (unsound for liveness) |
| `sign_in` | who can sign in, and what the app waits for | three attempts: one cancelled, one late, one retry |
| `updater` | dialog, offers, versions | versions 0 to 3: an update, a withdrawn one, one after |
| `capture` | all that can be decrypted is, late secrets are used, a stop ends the thread | two connections of a handshake and a data segment each, a ring of two segments and a tail of one connection they compete for, a dedup set of one: 790 thousand states. Longer streams and larger rings are left to the theorem |
| `instances` | second copies, things left behind, lost signals | two processes, each with its three threads: a primary and a duplicate, or an old process and its successor; the mutex may fail: 850 thousand states. A launch during a hand-over needs a third process and is left to the theorems, which hold for any number |
| `launcher` | the game writes what the capture reads, the user's log survives, hub states are left | the Epic launcher, which unlike Steam needs a known game; one process of it at a time; one log of the user's; the settings offer the direct start besides; a session that needs attention or not; saves that fail: 320 thousand states. The theorems hold for both launchers, any files and any number of processes |
| `scanner` | `TokenFeed` is implemented | one connection, up to three requests of four kinds (a token; a token with a misleading body; a malformed token; another host), all ways to cut them, a buffer of 28 symbols, which three requests overflow when they come in one chunk and two do not: 46 thousand states |
| `source` | captures match the settings, and come back | three adapters (wired, wireless, virtual) with their scores on Linux, the first two on Windows (which has Npcap besides; the theorems hold for any), payloads of up to two units, so that a cut may take one in part, up to two VLAN tags: 340 thousand states |

Three runs look for a violation of what a comment in the source says, and find it (`findings` in
`PROJECT.json` quotes the comments):

- `session_rotation`: once synced, a rotated token whose submission fails is not retried.
- `session_switch`: a submission in flight across a sign-out marks the next account as synced.
- `instances_rule`: after an update the old process removes the firewall rule of the new one.

The same models show some more behaviour that a reader of the comments may not expect and that has
no run of its own: a network error in the refresh after a 401 signs the user out (`PollRefreshErr`); a
refresh may resubmit once after the session gave up (the `+ 3` of `AttemptBudget`); "Try again" forgets the token when
it has to start the capture (`TryAgain`); a token reported again after the dedup set was cleared is
posted over a newer one (`ReportToken`); a `success=false` that answers for an older token leaves the newer one
waiting (`PollSubmitDeclined`); an update check that lands during an install unlocks the dialog (`Updater`);
a failed or empty scan of the adapters, once a change of the key source has lifted the block, is not
repeated before the user presses Refresh (`CaptureSource`, hence the adapter in the premise of `CaptureComesBack`); a method word in a body
makes the scanner lose the request behind it (`Misled`); the tab of a cancelled sign-in says "You're signed in" (`Answer`);
during an update two processes are primary, which is why `OnlyUpdatesOpenASecondCopy` counts relaunches.

### Fairness

- `SyncSession`: the worker ticks for ever and polls every channel; every HTTP request ends (30 s
  timeout of the agent; a thread that panics disconnects its channel, which is an answer too). The retry
  clock fires. Nothing is asked of users, game or capture.
- `SignIn`: the poll, and the end of reading one request (10 s read timeout, a maximal size). No
  tab has to call back.
- `Updater`: the poll, and progress of the install thread from stage to stage (60 s read timeout).
  Downloading need not be fair to itself: only leaving a stage counts.
- `CaptureThread`: the loop never blocks (reads of the wire time out after 100 or 200 ms). The game
  keeps writing the key file while it runs, and a lock on it does not meet every look the thread takes (strong
  fairness of `ReadTail` and `SignKeys`). Without the writing, secrets written between the
  read and the signature would never be seen: `LateSecretsAreUsed` fails without `WF_vars(GameWrites)`.
- `Instances`: the listener, which waits for its event and for the app's mutex; a cleanup, which waits for the
  capture thread; and that thread while it adds its rule. Handlers under the mutex return. The user, the worker
  and `main` need do nothing.
- `Launcher`: the two-second check, the steps of a save, and those of `prepare_launcher`, which returns by its timeout at the
  latest. `CloseLauncherIsLeft` also asks that a user presses the one button he is shown again and again, whatever saves
  come in between (`SF_vars(Prepare(TRUE))`), and that a launcher killed again and again dies at last within the wait and can be started
  (`SF_vars` of `KilledDies`, `ExitSeen`, `StartLauncher`): without these the hub may rightly stay.
- `CaptureSource`: the worker tick, a thread that opens or fails, and a read that fails once its adapter is down (`ReadFails`). That the user presses "Try again" is a premise of
  `CaptureComesBack`, not an assumption of the specification.

## 4. Proofs

`SyncSessionProofs` (assumption: `SessionAssumption`, that `None` is no account and no token and that the
bounds are naturals):

1. `FlagsStep` and `FieldsStep` give `TypeCorrect`. The types of `submitting` and `refreshing`
   depend on their channels: a job exists exactly while its channel does.
2. `RetryFootprint` and `NoteSubmitFailureEffect` say which steps touch the retry state and what a failure does to it; `RetryStep`
   gives `RetryScheduleHolds`.
3. `AttemptBudgetHolds`. `attempts <= Retries + 3` is not inductive: the bound has to know what can
   still begin. `Budget` adds `TimerAhead`, the submissions the retry clock may still begin, and
   `RefreshAhead`, those a refresh may; each step that begins one takes at least one from what is
   ahead. A clock that is set counts only while no submission is in flight or the session is synced,
   because the answer overwrites it.
4. `RefreshStep` carries `FlagHasRefresh`, `RefreshHasSession` and `CleanSignOut` together:
   that a sign-out sticks needs to know that no refresh is in flight and no account is stored.
5. `StrandedStep` uses 2 to 4 for `NoStrandedTokenHolds`; `SyncedStep` and `CaptureGateStep` carry
   the remaining invariants, `SyncedIsKeptHolds` the action property.

`SignInProofs`: `SignInInv` says that the awaited attempt's thread holds the port or has reported,
and that a reported token was answered with the success page of that tab; it gives both theorems.

`UpdaterProofs` (assumption: `UpdaterAssumption`): `UpdaterInv` adds to the checked invariants that
the version on disk is at least the running one and that what an install brings is newer
(`InstallGoesForward`). A restart reads the disk, so `UpdatesGoForward` needs the first half, and the first
half needs the second, because an install goes on while a later check withdraws the release it began with.

`InstancesProofs` (assumption: `InstancesAssumption`, that the processes are finitely many):
`NothingOutlives` speaks of states in which everything has ended, so the invariant has to say who will
remove the rule and the keys until then: while one of them exists and the last process to end cleaned up, there is a
`Responsible` process, one whose app still lives in its window or in a thread, and only such a process captures. The bound on second copies needs that every
staying process has its handle to the mutex or never got one, and that at most one of them was neither started by an update nor left without the mutex. Both
theorems hold for any number of processes.

`CaptureThreadProofs` (assumption: `CaptureAssumption`): `RingIsDecrypted` speaks of a thread between two
loads. Its invariant speaks of every moment: of the segments the manager as it is now was given
(`Handled`: the ring, or in a replay the part that was replayed), all those whose stream is there from its handshake on
are decrypted. That a segment is the next one its stream expects follows from `RingOrdered`
(the ring has the order of the wire) and `NextKnown` (the manager expects nothing that was not sent, or in a replay not
given again). `OneMoreDecrypted` is the step for one segment; the wire and the replay both use it. The theorem holds for any connections,
any length of streams and any limits of ring, tail and dedup set.

That the thread implements `TokenSource` (`ImplementsSourceHolds`) comes down to `ProcessReports`: one segment, captured
or replayed, is one report or none. `ReadsSourceHolds`, in `SyncSessionProofs`, is the other half: each handler of the session
leaves the capture alone, ends or starts it, or polls one report (`StepOnCapture`). `KnownIsBoundedHolds` is
proved of the source, and so of both.

`HttpScannerProofs` (assumption: `ScannerAssumption`) proves that the scanner implements `TokenFeed`, for any
requests and responses of these kinds, any number of them, any cut into chunks and any limit of the buffer:

1. `FlattenSeq` and the loop of `Scanned` are recursive. There is no induction here, so the lemmas about them take
   a least counterexample (`LeastNat`) and step to the one before it: `FirstBytesGrow` gives the plaintext one
   request at a time, `LoopKeeps` what every turn of the loop keeps.
2. `MarksOnWire` says where a method word, an empty line and a request line can stand in that plaintext: at a request's
   head, or, a method word, in a body. No two heads overlap (`Apart`).
3. A buffer is a window of the plaintext (`Window`), and each step of `parse_stream` moves its front (`TrimmedWindow`,
   `FromMethodOfWindow`, `SkipKeepsHeads`). `StepOnRequests` collects what one chunk does: at most one request is taken
   for one, its headers are those it was sent with, and the heads before it that are skipped follow a body
   with a method word.
4. `ScanInv` is the inductive invariant. `UnreportedIsBuffered` alone says nothing of the next chunk:
   the invariant adds that a buffer is the end of what was read (`BufferInv`), that the hits are of requests in
   front of the buffer and in their order (`HitsInv`), and that a request in front of it was reported or follows
   such a body, unless the limit cut something (`MissedInv`).
5. For the refinement a chunk is a `Data` step of one feed (`ChunkIsData`): the rank of a new hit is above all before it,
   and is the next one if nothing was lost (`NewReport`). `Rebuild` is `Reread`. What follows from
   `TokenFeed` alone, no token twice or out of order and no gap unless data was given up, is proved for any feeds.

`LauncherProofs` (assumption: `LauncherAssumption`): `LauncherInv` adds to the checked invariants that a source of kind
`ProcessEnv` is inherited, so that a launcher started without an explicit variable has it too; that
without a process there is no capture; and that a call of `prepare_launcher` has a source and a launcher.
`StartsFromSavedChoiceHolds` follows from a part of it that says where a save is: `config.json` is what the last save that came
to its end put there, a file that is half written is the temporary one, and it holds the configuration in memory before it is renamed.

`CaptureSourceProofs` (assumption: `SourceAssumption`): `Fine` is what every part of a handler keeps of the record `app`,
with one lemma for each part; a handler's step follows from the lemmas of its parts in their order.
`PayloadIsWhatWasSentHolds` is arithmetic on lengths, for payloads of any length; that the parser finds the IP header behind the tags
of the sender is `SkippedIsTheHeader`.

Type correctness is proved for every module that models code, and so are all the safety properties the passing runs check.

Only model-checked: all liveness (the prover has no rule for fairness here), `SignalIsTaken` and `ErrorPageCanRetry` among it,
and the violations.

## 5. What is not modelled

- The inside of the vendored stream library: sequence arithmetic, overlapping and pending segments, reuse of an address
  pair, memory accounting, TLS records and ciphers. It is third-party code; `CaptureThread` has the
  behaviour its caller depends on. So are its dissectors, file readers and caches, which the app never calls.
- User interface, languages, fonts and themes beyond the buttons that are guards of actions; statistics,
  messages and tooltips.
- Elevation: one query and one relaunch. Build and release scripts, the example.
- A machine that stops. `config::save` syncs nothing before its rename, so `config.json` may be empty afterwards.
- A panic while the app's mutex is held (it would poison the mutex) and a panic of the capture thread.
- System calls (sockets, driver, process and registry queries, netsh) are the outcomes their callers tell apart.
- The order in which a replay reports tokens: `SyncSession` allows every order, and promises nothing about the newest.

`PROJECT.json` lists under `hazards` also the places that no property covers, or covers in part, with the reason for each.

## 6. Order of the modules

`SyncSession`, `SignIn`, `Updater`, `CaptureThread`, `Instances`, `Launcher`, `TokenFeed` with `HttpScanner`, `CaptureSource`,
`TokenSource`; each checked before it was proved about. What could follow: a `TokenSource` that also orders the tokens, for
the order of tokens after a replay, and a model of the stream library with its own reference.
