# Volcano-Engine-TTS-UI: a verification development

The program is an HTTP server in Go. It gives clients an OpenAI-style
`/v1/audio/speech`, synthesises through the Volcano Engine TTS service, and is
installed and administered through its own web pages. Its state is one SQLite
file, one lock file beside it, and copies of the settings in memory. This
directory holds TLA+ modules that model the parts in which that state can go
wrong, TLC configurations that check them on small instances, and TLAPS proofs
that hold for every instance. File names below are relative to the repository
(`src/` in `PROJECT.json`).

Contents: [inventory](#inventory), [modules](#modules),
[runs](#runs), [mutants](#mutants), [findings](#findings),
[proofs](#proofs), [limits](#limits), [what is left](#what-is-left).

## Inventory

### Installation and start-up: `main.go`, `installer/`, `controller/setup.go`, `store/setup.go`

*State.* On disk: the database file, `installed.lock`, the `.corrupt-<ts>`
backups. In the process: `installer.currentMode`, the `*store.Store` handed to
the controllers, and what `LoadRuntimeConfig` put in package `setting`.

*Operations.* `Detect` opens the database, looks for the lock, checks the
integrity, and repairs: a database that cannot be opened or is damaged is
renamed, the lock is removed, and the service comes up in setup mode. `main`
then loads the configuration; in normal mode a failure is fatal. `POST
/api/setup` checks the mode, commits settings and voices in one transaction,
publishes the key, reloads the configuration, writes the lock and switches the
mode. SIGTERM closes the store and then drains the server.

*Hard.* A kill between any two of these steps; two submissions at once; a
failing call in the middle; the store closed under a running submission; a
database that is merely busy; commits that are in the write-ahead log only when
the file beside it is renamed.

*Correct when* what was acknowledged is kept; the lock is only over a commit;
setup is closed once there is a lock; normal mode is always installed and
never without a key; a sound database stays in service; a damaged one leads
back to a setup page.

### Runtime configuration: `setting/`, `controller/settings.go`, `controller/admin.go`, `middleware/admin_auth.go`, `store/`

*State.* The tables `settings` and `voices`; in memory `ttsOptions`,
`authAPIKeys`, `adminAPIKeys` with their source, the CORS lists, and
`ttsConfigErr`, each guarded by a mutex of its own acquisition.

*Operations.* `PUT /api/settings` and `/api/settings/api-key` write and then
run `LoadRuntimeConfig`; `/auth-key`, `/admin-key` and `/cors` write and then
replace one copy; `POST` and `DELETE /api/voices` change the table and leave
memory alone.

*Hard.* Handlers overlap and nothing orders a handler's database step with its
memory step; the loader publishes field by field what it read before; many
queries have their error ignored and a default used.

*Correct when* the service never comes to be without authentication key or
admin credential; a change takes effect; the admin key keeps the
authentication key out of the administration; the default voice exists.

### Traffic control: `middleware/ratelimit.go`, `ratelimit_instrumented.go`

*State.* Timestamps per client address, the time of the last clean-up; a
semaphore of slots and its gauge. *Operations.* `Allow`, with an hourly clean-up
and an eviction beyond 100 000 entries; take and release a slot. *Hard.* The
eviction drops live timestamps; the pruning is lazy; the gauge lags behind the
slots; handlers may panic. *Correct when* no client gets more than the limit in
a window, the price of an eviction is bounded, and every slot comes back.

### Speech requests: `controller/tts.go`, `middleware/auth.go`, `middleware/cors.go`

*State.* None of its own but the row that a voice is switched on or off in: a
request reads the CORS lists, the keys, the recorded error, the options (twice)
and the voices table. *Operations.* Match the origin, authenticate, validate,
read the format, read the options, route the voice, synthesise, answer; `PATCH
/api/voices/{name}/toggle`, by name and then by row number. *Hard.* Every read
is under a lock of its own, and administrators work in between; a failed reload
leaves old options beside a recorded error; the voice that was found by its name
may be deleted, and its name given to another, before it is switched. *Correct
when* nothing that an acknowledged change has replaced is used for a request
that came after it, and a voice that was switched off is not heard.

### Upstream adapter: `adapter/volcano/`

*State.* That of a call: what `ParseStream` has accumulated. *Operations.* Choose
format and rate, post the request, parse a stream of JSON lines, drain what
follows the final line, wrap PCM as WAV. *Hard.* Audio, error and final lines in
any order; lines that are skipped, those that cannot be parsed among them; a
stream that ends early, also while it is drained; the deadline. *Correct when*
audio is returned exactly for an answer that came to its end without an error, and
then all that was in lines that could be parsed, and every call returns.

### Telemetry: `telemetry/`, `metrics/`

*State.* Families of counters, gauges and histograms: a map by label values
under a read-write lock, and cells that are updated atomically one by one.
*Operations.* `Add` with its double-checked creation and its compare-and-swap
loop, `Observe` with another such loop for the sum, the scrape, which holds the read lock while it writes to the
network. *Hard.* An observation is several updates, and a scrape reads them one
by one; two callers create the same child; a writer that waits keeps readers
out. *Correct when* no update is lost, the scrape's inconsistency is bounded, and
counting never keeps a call from returning.

### The rest

`installguard.go`, `metricsip.go`, `GetClientIP` and the parsing of origins are
pure decisions on the text of one request. The router and the web pages,
`cmd/dumpdb`, the logger, the fixed security headers, the data types and the
constants have no state and no decision worth a model.

### How they interact

`main` runs the installer, hands its store to the controllers and loads the
configuration before it serves. The setup handler and the settings handlers both
call `LoadRuntimeConfig`, the one writer of all copies in memory.
`RequireAdmin` and `ValidateAPIKey` read the copies for each request; with no
key at all the first lets nobody in and the second everybody, which is why the
two properties `AdminNeverLockedOut` and `AuthNeverOpen` matter. Requests to
`/v1/` pass the rate limiter and then the concurrency limit, which share nothing
with the configuration. The speech
handler reads options and voices, writes neither, and calls the adapter, which
reports to the metrics; the scraper of `/metrics` shares their locks with it.

## Modules

| Module | What it is |
|---|---|
| `Install` | the installation life cycle: start-up, repair, setup, shutdown, with kills and failing calls |
| `InstallContract` | what the installer promises, as a specification of four variables; `Install` is shown to implement it |
| `MCInstall` | keys and symmetry for the runs of `Install` |
| `InstallProofs`, `InstallContractProofs` | theorems about `Install`, and the refinement |
| `RuntimeConfig` | tables, memory, and the admin handlers between them |
| `LiveSettings` | "a stored change takes effect at once and as a whole", as a specification of two variables |
| `MCRuntimeConfig` | sets of requests and symmetry for the runs of `RuntimeConfig` |
| `RuntimeConfigProofs` | theorems about `RuntimeConfig` |
| `RateLimiter` | `Allow` with its clean-up and eviction, on a discrete clock |
| `SlidingWindow` | an ideal limiter that always knows the last window; `RateLimiter` is shown to implement it |
| `Traffic` | `RateLimiter` composed with the semaphore and its gauge: a request's way to its handler |
| `MCTraffic` | symmetry for the run of `Traffic` |
| `Speech` | `RuntimeConfig` composed with speech requests and with the switching of voices |
| `MCSpeech` | requests, first states and symmetry for the run of `Speech` |
| `Telemetry` | a counter and a histogram family with maps, locks and cells, and the scraper |
| `Synthesis` | calls of the upstream service, composed with `Telemetry` |
| `Ledger` | a counter in which each call is entered in single steps; `Synthesis` is shown to implement it |
| `MCSynthesis` | formats, latencies and the order of labels for the run of `Synthesis` |
| `EffectProofs` | more about `RuntimeConfig`: what a request that meets no other achieves |
| `SpeechProofs`, `SynthesisProofs` | theorems about `Speech`; about `Synthesis` with `Telemetry` |
| `RateLimiterProofs`, `TrafficProofs` | theorems about the two, the refinement, and that `Traffic` implements `RateLimiter` |

### `Install`

A step is one system call, one SQL statement or transaction, or one assignment
under a mutex. `boot` is the program counter of `main` and `Detect`, `pc[r]`
that of the goroutine that serves submission `r`. `Stop` throws away everything
in memory; `Crash` is `Stop` at any moment.

* A payload stands for one submitted configuration. `settings = p` reads "the
  settings in the database came with `p`", and likewise `auth`, `admin`,
  `options.settings`. `speaker` is kept apart since `SetupApply` overwrites
  settings but skips a voice whose name is there: all payloads use the same
  voice name, the case in which that matters.
* The database is in WAL mode (`store/db.go:42`). `settings` is what the
  database holds, `filed` what its file holds without the log beside it. A commit
  (`Apply`) goes to the log; `CloseDb`, which is `Store.Close` and the end of a
  failed `store.Open`, copies the log into the file as SQLite does when its last
  connection is closed, unless it cannot get at the file or another process has it
  open; `Checkpoint` is SQLite doing so by itself.
* `BackupDb` is `tryBackupCorrupt`, which renames the file and nothing beside it:
  the backup gets what is `filed`. What was in the log only is entered in
  `stranded`, a history variable: SQLite drops a log that it finds beside an empty
  file, so the next start loses it.
* The steps of `Detect` have a `boot` each: "backup" after a failed `store.Open`,
  "backup_quietly" after a failed check (from where a `DeleteLock` that fails is
  ignored), then the look at the lock or its removal.
* `Keys` are the authentication keys, one per payload and those same keys without
  the blanks around them, which is `Trim`. The handler publishes the trimmed key
  (`setup.go:220`), the table and the loader have the key as it came.
* `BadVoice` are the payloads with a voice that `voiceInsertTx` rejects.
  `Contention` lets `store.Open` fail on a sound file. `IOErrors` lets any other
  call fail, but for two whose failure changes nothing else: `EnsureDBDir`, which
  is fatal before anything is done (as a `Crash`), and the start of the server.
* `dbFile` is "unreadable" when it cannot be opened and "damaged" when it can
  but fails `integrity_check`. A new file made by `store.Open` is "healthy" with
  `settings = None`. Damage happens while the service is down.
* `LoadRuntimeConfig` is one step during start-up, when nothing else runs, and
  one step per query and per assignment in the setup handler.
* Submissions that fail a check (mode, token, body, no store) are the second
  disjunct of `Submit`: they change nothing.

### `RuntimeConfig`

It starts where `Install` leaves off: an installed service that has just loaded
its configuration. The database has one connection, so a statement is a step.
Each `Set*` function of package `setting` is a step. `snap[h]` holds the local
variables of handler `h`, and is emptied when it answers.

* `conf` stands for the settings that `LoadRuntimeConfig` takes from
  `SettingsGetAll`, `rate` for those it reads one by one afterwards. The reads
  that make up `rate` are one step, as are `SetTTSTimeout` and `SetTTSOptions`:
  no property compares two of them.
* A voice is its name and its row number; `row = 0` in the options means that
  the name itself was used for the speaker. `FreeRows` stands for AUTOINCREMENT:
  a row number is used again only when nothing refers to it any more.
* The checks on a request that need no state have been made: `Jobs` holds the
  requests that pass them.
* `Admit` is the condition of `RequireAdmin` that there be a credential; which
  key the client shows is not modelled, as any administrator may send any
  request.
* In the first state no query of the load has failed. What a load leaves behind in
  which one has, an update that stores the same values leaves behind as well, so
  those states are reached. Only the service whose first load in the set-up failed as
  a whole is not among them: it has no admin credential, or that of an earlier
  set-up that was never completed, until its next start (see `AdminReachable`).
* `Dangling` lets the service start with a default speaker that names no voice,
  which the set-up does not rule out.
* `solo[h]` is a history variable: handler `h` has met no other handler and no
  failing query. It is what `TakesEffect` needs, and no guard reads it.

### `RateLimiter` and `Traffic`

`Allow` runs under the limiter's mutex and is one step; its two disjuncts are a
request with and without the clean-up in passing. The steps of
`ConcurrencyLimitWithMetrics` are those between which other goroutines can run:
the channel, the gauge, the handler, and the two statements of the deferred
function.

* No two requests read the same instant, so a client's timestamps are a set. An
  absent client has the empty set. The clean-up reads the clock a second time,
  which the model lets be one instant later; `Window > 1` then says that a
  window is longer than that.
* Which of several equally cold clients an eviction deletes is left open, as
  `sort.Slice` does over a map in random order.
* `grants` and `evicted` are history: what each client was granted in the last
  window, and when it was last forgotten. No guard reads them.
* `LimiterAssumption` has `CleanupInterval >= Window`, one hour and one minute in
  `common/constants.go`. `TwiceAtMost` rests on it.
* A request refused a slot has spent its quota; the model does the same, and no
  document promises otherwise.

### `Speech`

It extends `RuntimeConfig`: an administrator's step is a step of that module, and
the rest of the state follows it. `enabled` holds the rows that are switched on;
a deleted row leaves it, and as AUTOINCREMENT never gives out a number twice, a
switch that has found that row finds nothing any more, which `trow = 0` says.

* A request's steps are its reads, in the order of the middleware and of
  `TTSHandler`: the two halves of `matchOrigin`, `ValidateAPIKey`, the recorded
  error with the checks of the body, `resolveClientFormat`, `GetTTSOptions`, the
  look-up of a named voice. What the body says is chosen once, on arrival.
* Speaker, resource and model are named by the row they come from; `OwnModel`
  are the rows that have a model of their own, for a voice without one leaves
  that of the default voice in the options (`tts.go:196`).
* A body that is refused for what it contains is refused at `Check`, whatever the
  state; the call of the service is one step, `Synthesise`.
* `since[s]` is history: every configuration that was in force at some moment
  since request `s` arrived, if it arrived while no admin request was in flight.
  `muted` and `unheard` say which names have been switched off. `silent` tells
  that a query failed unnoticed, or that two admin requests met: what memory then
  shows, no request can be held to. No guard reads any of them.

### `Telemetry` and `Synthesis`

`Telemetry` is the package of that name for one counter and one histogram
family; `Synthesis` is a call of `Synthesize`, and its users of these families
are `UpstreamStarted` and `UpstreamFinished`. An access to a map under its lock,
and each atomic operation, is a step.

* The write lock takes two steps, asking and getting, since a writer that waits
  keeps new readers out: a scraper that has the read lock and does not get on
  then stops every call. `Find` waits for such a writer.
* The scraper prints in the order of the label values, holding the family's read
  lock, and reads each cell when it prints it. `Rank` is Go's order of strings.
* The sum of a histogram is a number of observations: every duration is positive,
  so a sum that another call has changed since it was read is never the one that
  was read. (A duration of zero, or one that rounding swallows, leaves the bits as
  they are, and then it makes no difference that it was there.) Its loop is
  `HLoad`, `HSwap` and `HSwapFails`, as the counter's is `Load`, `Swap` and
  `SwapFails`. The buckets are cumulative, and updated one after the other.
* A line of the answer is one of seven kinds. Six are those that `ParseStream`
  treats differently; "broken", a line that is no JSON, is skipped as a "silent" one
  is, and is a kind of its own so that it can be told from a line without audio.
  The audio taken is the set of the numbers of its lines.
* A call that the service answers with an HTTP error is counted under a status
  made from the code, which `HttpStatus` gives.
* The two families are the ones a call uses first and last. The locks of the
  others (usage, errors, the gauge of the slots) are taken in the same way and are
  not in the model.
* `PostFails` and `Cut` include the deadline. The rest of the metrics of a call is
  one step, `Rest`: they are counters and histograms like the two.
* Once a call counts itself as finished, what it returned and the history of its
  lines are dropped; `AnswerWhole` compares them before that.

### Abstract specifications

`InstallContract` knows no process and no file: setup is open until closed by
the lock, a configuration can be written only while it is open, it can be closed
only over a configuration, and it is opened again only after the file has gone to
the archive, as it was. A configuration gets into the file some time after it has
been written (`Settle`), and the contract does not say that it does so before the
file is archived. The mapping is `closed <- lock`, `conf <- settings`,
`file <- filed`, `archive <- backups`.

`SlidingWindow` holds each client's grants of exactly the last window. It may
forget a client only when more clients than there is room for have any, and never
one that is more recent than one it keeps. The mapping is `window[c] <-` the
timestamps in the map that are still in the window: what an unpruned entry holds
beyond them never shows.

`Ledger` enters a call once when it starts and once, under its outcome, when it
is finished, each time in one step. The mapping is `total <- value`: the entry is
made by the compare-and-swap that succeeds, all that leads to it is a stutter.

`LiveSettings` alternates two actions: a change is stored, and it takes effect.
`RuntimeConfig` with one administrator maps onto it; all the steps of a handler
are stutters but the write and the one that completes the publication. Its
liveness part says that the change does take effect.

## Runs

| Run | Instance | Shows |
|---|---|---|
| `install_sequential` | 3 submissions one at a time, 2 payloads, 2 kills, 1 damage, fairness | `AckedIsStored`, `AdminReachable`, `SetupClosed`, `NothingStranded`, `ServesStored`, `KeepsContract`, `RestartsIntoNormal`, `HealsUnlessKilled` |
| `install_faults` | 2 overlapping submissions, 2 payloads (one rejected by the store), 1 kill, 1 damage, contention, failing calls | `TypeOK`, `CommittedBeforeLock`, `NormalIsInstalled`, `AuthNeverOpen` |
| `config_sequential` | 1 handler, 2 values, voices and keys, every sequence of 4 requests, fairness | `DefaultExists`, `ChangesAreLive` |
| `config_concurrent` | 2 handlers, 2 requests, failing queries, dangling default | `TypeOK`, `AuthNeverOpen`, `AdminNeverLockedOut`, `TakesEffect` |
| `traffic` | 3 clients, 2 goroutines, limit 2, window 8, clean-ups every 8, room for 2 clients, 1 slot, 12 instants | `TypeOK`, `WindowKept`, `TwiceAtMost`, `SlotsKept`, `GaugeTracks`, `IsSlidingWindow`, `RejectJustified` |
| `speech` | 1 speech request after the other, 1 administrator with 2 requests, 1 switch, 2 values, names and keys, an origin in the environment, failing queries | `SpeechTypeOK`, `Fresh`, `CorsAsStored`, `SwitchedOff` |
| `synthesis` | 2 calls, one with every answer of up to 2 lines and one with up to 1, a scraper, 1 bounded bucket, fairness | `TypeOK`, `AnswerWhole`, `Accounted`, `ScrapeBounded`, `CountsCalls`, `Nearing`, `Finishes` |
| `finding_*` | the smallest instance that shows the behaviour | see [findings](#findings) |

*Why the bounds are enough.* Two overlapping submissions are what a race needs,
and a third one, sequential, is what a submission after a repaired installation
needs. Two kills allow one in a repair and one in the start after it; a second
damage would only repeat the first on a database with other contents. Two
payloads tell "mine" from "the other's", and the key of one has blanks around it. In `RuntimeConfig` two handlers are one
writer and one that interferes; four sequential requests allow creating a voice,
making it the default, deleting the old one and one more; two values of each
kind tell new from old. `MaxRows` leaves a free row at every creation (one per
name, one in the options, one per handler). In `traffic` the time is enough for a
clean-up at the start, a full map, a second clean-up that evicts live clients,
and requests of an evicted client after it; three clients overfill a map for two;
two goroutines compete for one slot. In `speech` one request is between
two of its reads while two changes are made, which is one to replace what it has
read and one to replace what it will read; a third value of anything would be
"neither". The switch overlaps with a deletion and a creation of the same name,
which are two requests. `MCSpeech` leaves out the requests that change nothing a
speech request reads (the admin key), and starts with the list of all origins,
which the CORS requests take away. `Asks` are a page of another origin that names
nothing and scripts that name a voice; a request that does both only adds the two.
In `synthesis` two lines allow a line of each kind before or after one of each
other kind, a final line and what follows it among them; the second call is the
other writer of the same series, and its one line lets it end in success, so that a
scrape could show two successes beside one start; one bounded bucket beside +Inf is what a bucket can be above or below, and the two
calls are on either side of it. The proofs confirm, for all the invariants of the
passing runs, that nothing depends on the bounds.

*Symmetry.* Submissions and payloads are interchangeable where none is singled
out (`BadVoice`) and no liveness is checked; values, names and keys in `speech`,
where the environment has no key; handlers, values and names in `RuntimeConfig`, but not keys,
one of which is the environment's; clients and goroutines in `Traffic`. Runs with liveness use no symmetry.

*Deadlock* is checked in every run. A service that is down can be started, and a
scraper can always scrape; administration, speech requests and traffic end in
`Rest` or `Over`, a stutter for when the bound on requests
or on time is used up.

### Fairness

`Install`: weak fairness of start-up as a whole, of each submission and of the
end of the drain (the Go scheduler runs every goroutine; `Exit` has a five second
limit), where start-up includes starting the process, for `docker-compose.yml:27`
says `restart: unless-stopped`. `RestartAfterHeal` is the operator who does what
the 503 of a setup page without a store asks for. Kills and damages are not
fair and bounded; nothing else makes a client act.
`RuntimeConfig`: weak fairness of every handler. `Synthesis`: weak fairness of
each call in flight, as one action of what it does by itself or is made to do by
its deadline (`tts.go:203` gives the call a context with a timeout, which ends the
post and the reads alike), and of the scraper once it prints, for a scraper that
does not read is cut off by the server's write timeout (`main.go:117`). Nothing
makes the service send anything. `Traffic` and `Speech` have no liveness property
and assume none.

### What the less obvious properties say

* `CommittedBeforeLock` has to admit the state in the middle of a repair, between
  the rename and the removal of the lock: `backups # {}`.
* `AdminReachable` asks for a sound database: with a damaged one the reload after
  the set-up may fail and leave the service without admin credentials until its
  next start, which then repairs it.
* `AckedIsStored` says where an acknowledged configuration is: in the database, in
  a backup, or left behind with a log (`stranded`). The third is a loss, and what
  limits it is `NothingStranded`: it takes a kill, for a process that ends by itself
  has closed its store after its last commit, also when a submission is being served
  while the server drains. After a kill it takes a file that SQLite cannot get at
  when it closes the database, which `install_sequential` reaches with a file that
  has become unreadable.
* `ServesStored` is what `LoadRuntimeConfig` promises for the set-up and the start
  alike. The handler of the set-up goes on to normal mode after a failed load, which
  is why options may differ from what is stored as long as the error is recorded;
  the key may not, for the handler publishes it by itself, though without the blanks
  around it: then, and only until a load succeeds, a key that was stored with
  blanks works without them. The speaker is that of the
  stored voice or none, because its query may fail unnoticed. With two overlapping
  submissions memory may show the one and the database hold the other.
* `HealsUnlessKilled` is the part of `Heals` that holds: from a damaged start
  either a usable setup page is reached or there has been another kill.
* `TakesEffect` starts from whatever earlier overlaps and failures left behind
  and says that one undisturbed request puts right what it is responsible for;
  it is stated per kind of request, as each handler refreshes different copies.
* `DefaultExists` is for one administrator at a time and a service that started
  with an existing default. With overlapping requests `VoiceDelete` may pass its
  check before another request makes the voice the default.

* `Fresh` says of a request that is let through to the service that its origin,
  its key and its options were each in force at some moment since it came, not
  that they were so at the same moment, which the code does not promise: each is
  read by itself. The options that came together were in force together.
  After a failed reload old options stay in memory; that they are not used is
  what the recorded error is for, and what the property's mutant takes away.
* `CorsAsStored` allows two readings of the stored lists, for the code has two: a
  reload puts the environment in the place of a list that is not stored, the
  handler of a CORS request does not (`EnvOrigins` is not empty in `speech`, so
  that they differ). Which one holds depends on which request came last.
* `SwitchedOff` is about names: a request names a voice, and `muted` are the names
  of voices that an administrator was told are off.
* `AnswerWhole` says when there is audio, and that it is all the audio of the lines
  that can be parsed. A "broken" line is passed over as the code does, so an answer
  that lost an audio frame to it counts as whole (see
  [other disagreements](#other-disagreements-and-surprises)). So does an
  answer that ends without a final line but at its regular end: the code does not
  ask for the final line, and the transport reports a cut.
* `Accounted` holds at every moment: a metric equals the number of the calls that
  have got past the step that updates it. `ScrapeBounded` is what remains of that
  for a scrape, whose cells are of different moments: no bucket is above +Inf, and
  +Inf is not above the observations of the sum printed after it. More is not
  true: `_count`, printed last, may exceed +Inf, and the bounded buckets need not
  be monotone among themselves.
* `Nearing` compares, over each step, the most steps that each call can still
  take (`ToGo`): a failed compare-and-swap counts as progress because the value it
  has read is out of date by a whole call, and there are only so many of these. It
  is the half of `Finishes` that needs no fairness; the other half is that no lock
  is kept, and that the deadline and the write timeout act.
* `Finishes` is what a lock held across a write to the network puts at risk.
* `WindowKept` counts from the last time the client was forgotten, `TwiceAtMost`
  does not. The comment at `ratelimit.go:132` wants evictions to be harmless to
  active clients; `IsSlidingWindow` says which clients may be hit, and
  `TwiceAtMost` what a client that is hit can gain at most.
* `GaugeTracks` does not bound the gauge by `MaxConcurrent`, for it may pass it:
  the slot is given back before the gauge is lowered.
* `RejectJustified` speaks of requests that really are being served: a slot that
  leaks makes it fail.

## Mutants

Each property of a passing run is paired with a plausible bug for which it fails
under the run's own configuration. The mutated operators stand in the modules
just before the definition they replace, and are no part of the specification.

| Property (run) | Definition | Mutant |
|---|---|---|
| `AckedIsStored` (`install_sequential`) | `BackupDb` | `BackupDbDeletes`: the repair deletes the file |
| `AdminReachable` | `SetAdmin` | `SetAdminSkipped`: the load leaves the admin keys alone |
| `SetupClosed` | `Submit` | `SubmitInAnyMode`: no check of the mode |
| `NothingStranded` | `Shutdown` | `ShutdownLeavesOpen`: the store is not closed |
| `ServesStored` | `ReadSettingsFails` | `ReadSettingsFailsUnnoticed`: a failed load is not recorded |
| `KeepsContract` | `ApplyFails` | `ApplyFailsGoesOn`: no return after the error |
| `TypeOK` (`install_faults`) | `ReadVoice` | `ReadVoiceKeepsRow`: the row instead of its speaker |
| `CommittedBeforeLock` | `ApplyFails` | `ApplyFailsGoesOn` |
| `NormalIsInstalled` | `CreateLockFails` | `CreateLockFailsGoesOn`: normal mode without a lock |
| `AuthNeverOpen` | `SetAuth` | `SetAuthSkipped`: the key is left to the load |
| `RestartsIntoNormal` (`install_sequential`) | `IntegrityOk` | `IntegrityOkForgetsMode` |
| `HealsUnlessKilled` | `DropLock` | `DropLockForgotten`: the lock outlives the repair |
| `DefaultExists` (`config_sequential`) | `ReadDefault` | `ReadDefaultIgnored`: the default voice may be deleted |
| `ChangesAreLive` | `WriteOptions` | `WriteOptionsOnly`: no reload |
| `TypeOK` (`config_concurrent`) | `LoadVoice` | `LoadVoiceName`: the name for the row |
| `AuthNeverOpen` | `SetAuth` | `SetAuthFromDb`: no fall-back on the environment |
| `AdminNeverLockedOut` | `ReadAuth` | `ReadAuthUnchecked`: cleared with nothing to fall back on |
| `TakesEffect` | `ClearErr` | `ClearErrForgotten`: an old error stays recorded |
| `TypeOK` (`traffic`) | `Reject` | `RejectReleases`: the deferred release is set up too early |
| `WindowKept` | `Judge` | `JudgeOneMore`: `>` for `>=` |
| `TwiceAtMost` | `AllowAndCleanUp` | `AllowAndCleanUpUnrecorded`: every request cleans up |
| `IsSlidingWindow` | `Coldest` | `ColdestAny`: deletes in the order of the map |
| `SlotsKept` | `Acquire` | `AcquireOneMore` |
| `GaugeTracks` | `Dec` | `DecSet`: the gauge is set to the number of slots |
| `RejectJustified` | `Serve` | `ServeWithoutDefer`: a panic skips the release |
| `SpeechTypeOK` (`speech`) | `SwitchRow` | `SwitchRowUnchecked`: that the row is gone goes unnoticed |
| `Fresh` | `Check` | `CheckBodyOnly`: the recorded error is not looked at |
| `CorsAsStored` | `ReadAll` | `ReadAllForgotten`: the handler does not read the flag back |
| `SwitchedOff` | `LookUp` | `LookUpAny`: a voice that is off may be named |
| `TypeOK` (`synthesis`) | `Begin` | `BeginAsAsked`: counted under the client's format |
| `AnswerWhole` | `Cut` | `CutUnnoticed`: a failed read is taken for the end |
| `AnswerWhole` | `FinalFormat` | `FinalFormatUpstream`: the client is told the service's format |
| `AnswerWhole` | `ReadSilent` | `ReadSilentAsAudio`: a subtitle's data are taken for audio |
| `Accounted` | `Rest` | `RestCodeOnly`: an error without a code is not counted |
| `Accounted` | `Create` | `CreateUnchecked`: no second look under the write lock |
| `Accounted` | `HSwap` | `HSwapBlindly`: a store for the compare-and-swap of the sum |
| `ScrapeBounded` | `First` | `FirstReversed`: a scrape in the opposite order |
| `CountsCalls` | `Swap` | `SwapBlindly`: a store for the compare-and-swap |
| `Nearing` | `SwapFails` | `SwapFailsAnyTime`: a compare-and-swap that may fail for no reason |
| `Finishes` | `Cut` | `CutReadOnly`: the deadline does not reach the drain |

## Findings

Each is a run that TLC ends with a counterexample, against a statement of the
repository.

* `finding_setup_reopened`. Two overlapping submissions both pass the check of
  the mode; the second commits over the installation after the lock is there,
  although `controller/setup.go:233` says setup is closed for good from then on.
* `finding_heal_crash`. A kill between the rename of a damaged database and the
  removal of the lock: the next start makes an empty database, takes it for an
  installation because of the lock, and dies in the load; so does every start
  after it. `PROJECT_BOOK.md:195` promises the setup page.
* `finding_busy_renamed`. A database that cannot be opened because another
  process holds it is renamed, which `installer/bootstrap.go:54-56` says must not
  happen; `ErrInUse` is never returned.
* `finding_key_rotation`. Without an admin key, a new authentication key does not
  reach the admin credential, although `controller/settings.go:266-273` says the
  next request uses it.
* `finding_admin_isolation`. An update that read the settings before an admin key
  was set publishes the older credential after it: the authentication key opens
  the administration, although `middleware/admin_auth.go:16` says it cannot.

### Other disagreements and surprises

Met while modelling, and not given a run of their own:

* `CHANGELOG.md:99` promises of the repair that no data are lost ("不丢数据").
  `tryBackupCorrupt` renames the main file only (`installer/bootstrap.go:172`) and
  the database is in WAL mode (`store/db.go:42`). After a kill the last commits may
  be in `tts.db-wal` alone. They are copied into the file when the database is
  closed after the failed check, and usually when the failed `store.Open` closes it,
  a garbled header notwithstanding; where SQLite cannot get at the file
  (permissions, an I/O error, another process that has it open) they are not, and
  are then neither in the database nor in the backup. Damage that empties or deletes
  the file is not modelled: the next start then takes it for a new database, and
  drops the log too.
* `docs/UPSTREAM_ADAPTER_GUIDE.md:466` says that frames which fail to be parsed must
  not be skipped silently, and points to item 4 of its section 2.6 (line 138), which
  says of audio frames whose base64 does not decode that skipping them makes half an
  audio. For these the code returns an error (`response.go:94-102`); a line that is
  no JSON, audio or not, it skips, and logs only in debug mode (`response.go:43-48`).
* An authentication key submitted with blanks around it works without them for a
  moment: the handler publishes the trimmed key (`controller/setup.go:220`), the load
  right after it the stored one (`setting/config.go:426`). If the blanks are at the
  end, no header can carry that key.

* The comment at `controller/tts.go:161` has a disabled voice usable when it is
  named; the code answers 403. A disabled *default* voice goes on to be used.
* `PROJECT_BOOK.md:257` has a named voice replace the language too; the code
  leaves it. A voice without a model leaves the default voice's (`tts.go:196`).
* Creating the voice that a dangling default speaker names does not refresh the
  options: the name goes on to be used as the speaker until the next reload.
* `matchOrigin` reads its two halves under two locks: a request may be refused for
  an origin that was allowed before a change and is allowed after it.
* A switch whose voice is deleted meanwhile is answered 500 and not 404.
* The comment at `controller/tts.go:295` has `/health` answer 200 in setup mode;
  `RequireAdmin` guards it. `docs/IMPLEMENT_v0.3.0.md:227` names
  `/api/admin/settings/cors`, which is not registered.
* The metric called "Total /v1/audio/speech requests" counts requests of a wrong
  method and syntheses, and none of the refusals between them. What the service
  has charged for is not counted when the drain or the wrapping fails.
* A scraper that does not read keeps the read lock of a family: a call that needs
  a new series waits for it, and then every call of that family does, until the
  write timeout. `Finishes` shows that this ends, and not that it is short.

## Proofs

All theorems are checked by TLAPS for arbitrary sets of submissions, payloads,
handlers, keys, voices, requests, clients, calls and goroutines and arbitrary
bounds. The only assumptions are `InstallAssumption`, `ConfigAssumption` and
`SpeechAssumption` (`None` is no payload, value, name, key or origin, flags are
Boolean, bounds are numbers, the environment's key is a key), `LimiterAssumption`
and `TrafficAssumption` (clients and goroutines are finite, limits are numbers,
clean-ups are at least a window apart), and `TelemetryAssumption` and
`SynthesisAssumption` (calls and keys are finite, keys are ordered with "ok"
before "started", codes are numbers and not those of a success). TLC evaluates
them in the runs. A theorem that needs more has it as a hypothesis, `~Concurrent`
say, which is a flag of the model that a run can set either way.
`InstallAssumption` also says that the key of a payload and its trimmed form are
keys.

`InstallProofs`: `TypeCorrect`, `CommittedBeforeLockHolds`,
`NormalIsInstalledHolds`, `AuthNeverOpenHolds`. None of the three properties is
inductive: that the lock is over a commit depends on what the handler about to
rename it has done before. `IInv` adds

* `HandledWhileRunning`: what is known of a submission at each of its steps: the
  process runs and has a store, a commit stands from `set_auth` on, a key is
  published from `read_settings` on, what was read is not empty, the lock is
  there at `set_mode`. It is kept because only `BackupDb` removes settings, and
  that runs when nothing is being handled;
* `NormalMode`: what normal mode implies already while the load of start-up is
  under way;
* `AtIntegrity`: the check is reached with a lock and a store only.

Two more have hypotheses. `AdminReachableHolds` assumes that no call of a running
service fails (`~IOErrors`), and allows overlaps, kills, damage and contention: its
`ReachInv` says that a store is closed only on the way out, and that whoever is past
the publication of the configuration has left an admin credential behind.
`NothingStrandedHolds` assumes `~IOErrors` and `~Contention`, without which a close
may leave the log as it is, and allows overlaps, damage and any number of kills (it
speaks of the time before the first). Its `SettledInv` says that, before a kill,
file and database agree whenever the store is not open in a serving process:
a repair meets what start-up found, and start-up what the last close left. The case
that needs care is a submission still being served while the server drains: it can
commit only on an open store, and `Shutdown` has closed it. `OpenReadable` says that
a file which has been opened stays readable, so that no close before a kill fails.

`InstallContractProofs`: `KeepsContractHolds`, `SetupClosedHolds`,
`AckedIsStoredHolds` and `ServesStoredHolds`, under the hypothesis `~Concurrent`, which
`finding_setup_reopened` shows to be needed. `SeqInv` says that one submission is
handled at a time, that a process running beside a lock has nothing left to write
(`LockedSetup`), and that the lock is removed only after a backup
(`RepairBackedUp`). Every step is then a step of the contract or a stutter.
`AckedIsStoredHolds` follows a configuration from its commit to the backup or the
history of the log; only with `NothingStrandedHolds` does it say that nothing is lost.
`ServesStored` says nothing of the way to normal mode; `ServeInv` does: what the
submission that is being handled has published so far, step by step, and that no
normal mode is left behind by a process that ends. Kills, damage, contention and
failing calls are all allowed.

`RuntimeConfigProofs`: `TypeCorrect`, `AuthNeverOpenHolds`,
`AdminNeverLockedOutHolds`, with any overlap and any failure. A credential
in memory comes from a handler's local variables, possibly long out of date, so
the invariant must follow it there: `Fits` says, for every step of a handler, what
its variables hold. That a key read from the database is one uses `AuthOf(db) #
None`, which no request takes away. The case that makes the property deep is the
clearing of the admin key: the handler acts on an authentication key it has read
before, and the proof shows that it may, because no request removes that key.

`EffectProofs`: `TakesEffectHolds`, unconditionally; `DefaultExistsHolds`, for one
administrator at a time (`~Concurrent`) and a default voice that exists from the
start (`~Dangling`); and `NeverHalfAChange`, for the same and `~IOErrors`. Where a
step needs that the handler is alone, its lemma asks for no more than that a
request is admitted while none is in flight (`Lone`), which `~Concurrent` gives
for a whole run, and the history of `Speech` for the past of a state.

* `Course` says, for each kind of request and each of its steps, what a handler
  that has met nobody finds in its local variables, in the tables and in memory;
  `EffectInv` that every such handler is on its course, and alone. At the answer,
  that is `TakesEffect`.
* The check of a default speaker and the statement that counts on it are two
  steps; `DefaultInv` carries what was found over the step between them
  (`DefaultFound`, `DefaultSpared`), which is where `~Concurrent` is needed: with
  overlapping requests the two checks defeat each other.
* `NeverHalfAChange` is the refinement of `LiveSettings` without its fairness.
  `ShownInv` says that memory differs from the tables in the one copy at most that
  the handler is about to replace, so that each write is the abstract `Store`,
  its publication the abstract `TakeEffect`, and all else a stutter.

`SpeechProofs`: all four properties of the run `speech`. `StepsOfConfig` makes
each step one of `RuntimeConfig` or a stutter of it, so that the invariants above
carry over; `ImplementsRuntimeConfig` says so of whole behaviours.

* `SwitchedOffHolds`, for every overlap. `TogglersRight` says that a switch holds
  the row that its name still stands for, or none; that is kept because a row that
  is still there has kept its name (`RowKeepsName`), and a name gets a new row
  only after its old one has gone.
* `FreshHolds`, with `~Dangling`; overlapping admin requests and failing queries are
  allowed, and `Fresh` speaks of the requests that came before either. In
  the invariant, `Kept` is `ShownInv` weakened by what a failed reload leaves
  behind, options that are stale beside a recorded error. `MemorySeen` says of each
  copy that a request has still to read that it was in force since the request
  came, stale options excepted for a request before the check, which will refuse
  it; and `Held` says the same of what the request has read already. An
  administrator's step adds to what was in force, and a copy that it replaces is
  in force then (`KeptStep`). As long as nothing has gone unnoticed (`~silent`)
  each handler is alone (`LoneWhileSolo`), so that the lemmas of `EffectProofs`
  apply. `DefaultExistsUntilTheyMeet` is what the same invariant says of the
  default voice, without `~Concurrent`.
* `CorsAsStoredHolds`, without any hypothesis. `CorsInv` follows the lists into the
  handler of a CORS request, whose local variables hold one of the readings
  between its queries and its publication (`CorsFollows`).

`SynthesisProofs`: all properties of the run `synthesis` but `Finishes`: the
invariants, that the counter implements `Ledger`, and `Nearing`.

* `NothingLost` and `CounterIsALedger` rest on `Base`: the types, and where a call
  stands in `Add` or `Observe` for each of its stations. A step changes at most
  the marks of its own call (`Same`), and a compare-and-swap that succeeds found
  the value it had read (`SwapIsEntry`).
* `AnswersAreWhole`: `AnswerOf` says what the lines so far are at each station, so
  that audio can only be taken before a final line and with nothing wrong.
* `ScrapesAreBounded`: `CounterShown` compares what has been printed with the calls
  that have got so far, of which there are only more later (`OnlyGrow`), and uses
  that "ok" is printed before "started"; `SeriesRight` is why a key that is not in
  the map has nothing to print, and `HistogramShown` does the same for the cells
  of a child, in the order in which they are updated and printed.
* `CallsComeToAnEnd` (`Nearing`): neither a counter nor a sum shows more than there
  are calls, by `Accounted`, and no compare-and-swap has read more than there is (`Bounded`,
  which rests on `OnlyGrow`), so that one that fails has strictly less to wait for
  (`MetricStep`); a value that another call has raised meanwhile leaves no more to
  do (`LeftShrinks`). With the bound on lines, a call takes at most
  `6 * Cardinality(Calls) + Les + 24` steps more than there are lines.

`RateLimiterProofs` and `TrafficProofs`: all seven properties of the run
`traffic`. `TwiceAtMost` needs an invariant that looks into the past: what a
client was granted since it was last forgotten is still in the map
(`Remembered`), and what it was granted up to then was within the limit
(`ForgottenWithinLimit`). An eviction moves that boundary to the present, and
keeps the second part because every earlier eviction was before the last clean-up
(`Chronology`), more than a window ago: all that is still in the window is in the
map. The refinement of `SlidingWindow` needs no more than `JudgeIsAsk`: pruning a
list and then pruning it again at a later cutoff is pruning it once.
`TrafficIsLimiter` carries the limiter's theorems over to `Traffic`. That slots
and gauge equal the number of servers between the steps that change them is
inductive.

## Limits

*Model-checked only.* The liveness properties `RestartsIntoNormal`,
`HealsUnlessKilled` and `Finishes`, and the liveness part of `ChangesAreLive`:
fairness and ENABLED are beyond the prover. `Nearing`, which is proved, is the
measure that an argument for `Finishes` would use; what is left of it is that in
every state some call in flight or the scraper can take a step. Every other property of a passing run
is a theorem; the hypotheses of some are named above, and the findings show that
they are needed where a finding is about them.

*Not modelled.* The contents of settings, messages and pages; the setup token;
handlers that only read; CORS preflights; bodies that are malformed, but for that
they are refused; the metrics of a request as a whole (`tts_request_total` and its
duration) and the counters of refused requests, which are counters like the one
that is modelled; the text of `/metrics`, and the contents of the request to the
service and of the WAV header, which are data; `VoiceUpdate`, which nothing calls;
two processes on one database beyond the contention it causes; the components
listed as such above.

*Abstracted.* A kill by itself loses no committed transaction, which is in the log
if not in the file, and no finished rename: the file system and SQLite are trusted
for that. A loss of power, against which `synchronous = NORMAL` does not save the
last commits, is not modelled. A query on a damaged file may
succeed or fail each time.

## What is left

What is not modelled of the core is of three kinds, and none of it is a step that
can go wrong by its order.

* Pure functions of one request's text: `GetClientIP`, the parsing of origins and
  addresses, the percentage a speed is turned into, the WAV header. Bounded checks
  of them against a second definition would repeat the unit tests.
* More of the same: the other metric families, the other administration pages.
* Text: the router's table, the exposition format, the pages.

A change of the code that would be worth a model first: a lock around the setup
handler, which would remove `finding_setup_reopened` and with it the hypothesis
`~Concurrent` of four theorems; a lock around a settings handler, which would do
the same for `DefaultExists` and `NeverHalfAChange`, and let `Fresh` and
`CorsAsStored` speak of every request.
