# A TLA+ model of DADS

DADS (Docker App Deployment Simplified) scaffolds and operates Docker stacks: a
Bash toolkit (`scripts/`, entered through a workspace's `run.sh`), a Go backend
(`dads-ui/backend`) that runs the same `run.sh` commands for a browser, and a
React frontend. There is no lock anywhere between them: every HTTP request and
WebSocket is a goroutine, every command a process, and what they share is the
files of a workspace and the Docker daemon. This directory models that.

All paths below are relative to the repository, except module names.

## 1. Inventory

| Component | State | Operations | What makes it hard | What makes it correct |
|---|---|---|---|---|
| Login limiter (`api/handlers.go:36-142`) | `rl.entries` under `rl.mu`, in memory | `allow`, `Login`, restart | concurrent logins, two clock readings in one call; a key that is not an address | the quota of a key, per window and per any 15 minutes; no refused attempt prolongs the wait |
| Live command stream (`RunAction`, `shell/bridge.go`, `WorkspacePage.jsx`) | OS pipe, `io.Pipe`, the socket's buffer, the child; in the page `wsRef`, the lines, the light | connect, run, copy, pump, verdict; select, reconnect, clear, leave | four threads on one socket; a slow or absent reader; the close of an old socket after the next was made | output in order and complete; a true verdict; commands that reach their end; a log that shows what is selected |
| Stack operations (`deploy.sh`, `compose-gen.sh`, `image-check.sh`, `run.sh.template`) | `docker-compose.yml`, containers, local images | start, stop, down, restart, ps, update, refresh | check-then-act over a long pull; a file rewritten in place while another command reads it | run state kept by an update; data never lost by a deploy |
| Backup and restore (`backup.sh`, `restore.sh`) | snapshot directories, volumes | backup (all, db, files), prune, restore | `set -e` and `pipefail` at every step; each step may fail; overlap with any other command | a backup that says it succeeded holds current data; a restore gives it back (in fact only where the volume has the name the scripts think it has) |
| Compose and config editors (`PutCompose`, `PutConfig`, `regenCompose`, `EditWorkspacePage.jsx`) | `docker-compose.yml`, `config.json`; the cached copy and the form | open, edit, rename, add, remove, save, delete | asynchronous regeneration; a form filled once from a cached copy and saved inside a later one | the file defines what the config says; a save sends every edit and undoes only what was changed behind it |
| Environment file (`env-gen.sh`, `lib.sh:136`, `workspace.go:110-184`, `EnvVarsModal`) | `.env`, `.env.example`; the list shown and the edits | generate, ensure, list, reveal, edit, save | read-modify-write with no lock; truncation before reading | a save does what was asked to each variable and keeps the others |
| Workspaces (`create.go`, `CreateWorkspace`, `DeleteWorkspace`, `bootstrap.sh`, `NewWorkspacePage.jsx`) | directories, `config.json`; the wizard's form and step | fill in, continue, back, create, bootstrap, delete | check-then-act; partial failure of a bootstrap loop; steps validated one at a time | what is sent is complete; nobody is left watching |
| Accounts and sessions (`auth.go`, `db.go`, `store/auth.js`, `lib/api.js`) | user rows, access token, refresh cookie, timer, in-flight flag | setup, login, refresh, logout, change password | timer, interceptor and logout racing for one token in several tabs | a session that neither dies early nor revives |
| Image update cache (`imagecheck/checker.go`, `GetImageUpdates`) | map of results; the badge | background check, on-demand check, read | results that outlive the update they announced | no update announced or withheld for ever |
| Container events (`StreamEvents`, `useDockerEvents.js`) | child process, scanner goroutine, channel; each card's state | stream, reconnect, poll | events lost while reopening; answers older than events | a card comes to show the truth |
| Terminal (`Terminal`, `dockerexec.go`, `TerminalModal.jsx`) | exec session, socket | open, type, resize, close | two ends, each may go first | both ends learn of it; no shell is left behind |
| Housekeeping (`housekeeping_handlers.go`, `HousekeepingPage.jsx`) | docker's objects; lists, ticks, gates, the hold timer | list, tick, approve, purge | a list confirmed and a purge done later; a timer that outlives its button | what goes was offered and selected |
| Settings (`settings.go`, `settings_handlers.go`, `SettingsPage.jsx`) | rows; the list, the window, its fields | create, edit, delete | saves answered after other forms were opened | a save stays in its row |
| Versions, build, promote, sync (`version.sh`, `build.sh`, `promote.sh`, `sync.sh`) | `config.json`'s version, registry tags | bump, set, build, promote | read-modify-write; tag and deploy apart | what is deployed is what was promoted |
| Statistics, lists, shell wizard, routing, templates | none | read and format | - | - |

How they interact. The browser's buttons open a WebSocket (`RunAction`) and the
backend starts `run.sh` as a child; `run.sh` runs one of the scripts; the
scripts run `docker` commands one after the other. A terminal on the host may
run the same `run.sh` at any time. The editors write the files the scripts
read. Docker's events reload the browser's cards, and the image cache is filled
by a goroutine on a timer. Every call of a page goes through one axios
instance, whose interceptor ends the session on a 401.

The modelled components meet at these seams. `ActionStream` treats the command
as a child process that prints and exits, `StackOps` treats a command as a job
that starts and ends; neither depends on more of the other than that. `EnvCard`
has commands that run and end, and containers that change by themselves.
`Session` has the pages' calls as one kind of call that may come back with a
401. The pages share no state with one another; what two of them write on the
server (a `.env`, a `config.json`, a row) is written in each model by everybody
else as well.

## 2. The modules

| Module | Models | Checked by |
|---|---|---|
| `LoginLimiter` | `rateLimiter.allow` and `Login` | `login_limiter`, `login_quota` |
| `ActionStream` | `RunAction`, `Bridge.Run`, pump, socket, reader | `action_stream` |
| `StackOps` | the commands on one environment | `stack_ops`, `restore_starts`, `update_stopped`, `config_regen`, `snapshots_cover` |
| `Session` | the tabs of one browser, their tokens, cookie, timers and calls | `session` |
| `SessionPromise` | abstract: what signing in promises | `session` (`KeepsPromise`) |
| `WorkspacePage` | composes `EnvCard`, `UpdateBadge`, `LiveViews`, `EnvFile` | `workspace_page` |
| `EnvCard` | the state a card shows: events, polling, its commands | `workspace_page` |
| `UpdateBadge` | image checks, the server's cache of them, the badge, Update | `workspace_page` |
| `LiveViews` | log viewer, action log, terminal modal, restore window | `workspace_page` |
| `EnvFile` | `.env`, its editor, `UpdateEnvVars`, `env-gen.sh`, other writers | `workspace_page` |
| `Pages` | composes `Wizard`, `ConfigEditor`, `ServiceCards`, `Housekeeping`, `SettingsPage` | `pages` |
| `Wizard` | the page that makes a workspace, and `CreateWorkspace` behind it | `pages` |
| `ConfigEditor` | the page that edits `config.json`, and its other writers | `pages` |
| `ServiceCards` | the port and volume rows of the services in that page | `pages` |
| `Housekeeping` | the safety center, and the purges behind it | `pages`, `volumes_selected` |
| `SettingsPage` | the three tabs of the settings, and the stores behind them | `pages` |
| `...Proofs`, `SessionRefinement` | theorems and their proofs | - |
| `MC...` | the constants' values for TLC, symmetry | - |

**LoginLimiter.** A request goes through the steps a goroutine takes: `Arrive`,
`Lock`, `Look` (the two conditions of `allow`, with the time read there),
`Write` (the entry, with the time read again), `Unlock` (the deferred unlock and
the refusal), `Answer` (the rest of `Login`). `Tick` moves the clock between any
two of them, `Restart` empties the map. What the code calls `ip` is a key
(`Keys`): an address together with the way the request came (`Ways`), a
connection's port or the header `X-Forwarded-For`, so one address has several
entries. `grants` is a history variable: the moments at which each key was let
through to the password check. An attempt counts as made at the time `allow`
compared with the window, except that the first of a window counts at the second
reading, from which the window runs.

**ActionStream.** One record of a session for each WebSocket: the handler
(`main`), the child, the copying goroutine of `os/exec`, the pump goroutine, the
client. Output is numbered chunks; `written >= copied >= taken` say how far each
thread has got. The point that matters is in `PumpReads`: an `io.Pipe` has no
buffer, and its writer is released at the read, before the pump has sent
anything. So the handler may be through with the verdict (`EndVerdict` leaves it
`told`) before the pump has sent its last chunk, and the connection is alive
until the deferred `Close`, a step of its own: the chunk may follow the verdict.
`BeginVerdict`, `BeginSend` and `CrashInSend` are the two ways in which two
concurrent `WriteMessage` calls on one connection go wrong in the WebSocket
library: garbled frames, or a panic, which in the handler is recovered by
`net/http`, with the deferred calls yet to come, and in the pump's bare
goroutine ends the process.

**StackOps.** Jobs (invocations of `run.sh`, or of the two handlers that write
`docker-compose.yml`) move from one `docker` command to the next; between two of
them any other job may act. The stack is two services, an application and a
database. What decides most questions about data is a naming convention: the
generator names services and volumes `<project>_<env>_<service>` and Compose
puts the project `<project>_<env>` in front of every volume, so the volume of a
generated stack is `<project>_<env>_<project>_<env>_<label>`, whereas
`backup.sh` and `restore.sh` mean `<project>_<env>_<label>` and `compose exec
<service>`. A file written in the Compose editor may use bare names, and then
the scripts reach it. A `Key` is such a name with its service. Every `docker`
command that may fail has a branch in which it does, with what it has done so
far chosen freely; what the script does next follows its `set -e`, `pipefail`
and `|| true`. `Write` is a container writing to its volume, `Release` a new
image in the registry. `lone` and `before` are history variables: whether any
other job has been under way since this one began, and the state at that time.

**Session.** The server keeps nothing about sessions: its answer is fixed by the
cookie, token or password the request carries. So `ask[t][c]` holds the answer
to call `c` of tab `t` from the moment it is sent until it arrives or is lost,
and the delays in between are the interleavings. `RefreshSucceeds`,
`RefreshFails`, `TimerFires` and `StartTimeout` are `tryRefresh`,
`scheduleRefresh` and the five seconds of `AppRoutes`; `Intercept` is the
response interceptor, which starts a logout, does not wait for it, and replaces
the page (`NewPage`): the cookie may or may not be gone by then. A tab that is
signed in is in front of the user on a page with the layout (`app`), or it is
not (`away`): in the background, where React Query pauses its intervals, or in
the wizard, which has a header of its own and no `Layout`. `Turn` goes from one
to the other; `Poll` is the layout's poll and happens in view only, `AskAway` is
any call of a tab that is away. `RequireAuth` is applied wherever a page's token
or readiness changes, as React renders it. `SessionPromise` knows only of tabs
that are signed in, of answers with a token under way and of the cookie;
`Promise` in `Session` is the refinement mapping.

**WorkspacePage.** The parts share the server and no state of the page, so
a behaviour is of one part, and `Unused` is the value the variables of the
others keep. `EnvCard`: `fetch`, `stream` and `wire` are a card's status query,
its event stream and the events on it; the containers run, run in part or are
stopped, and where `docker compose ps` fails the server says `unknown` with
status 200 and the card shows that. Nothing keeps a second command from being
started while one runs, so `job` counts those that run and those whose socket
has closed and whose two seconds have not passed. `UpdateBadge`: an environment
runs the tag `latest`, a `pinned` tag or an image from `elsewhere`; what has been
published since may be something the check can see (`seen`) or cannot
(`unseen`); `online` and `local` say whether Docker Hub and docker's own digests
are to be had. `look` is the checks in progress, each with what it found,
`found` the server's cache, `ask` the page's question. `AfterUpdate` asks again
and gets what is in the cache, which nothing empties. `LiveViews`: `socks` lists
every socket a view ever opened, `ref` is `wsRef.current`; a socket that was
closed here is `closing` until its close event is delivered, and `OnClose` is
what the handler of each view does with it, whichever socket it is. `EnvFile`:
`patch` is a save between its read and its write, `gen` a run of `env-gen.sh`
between its steps; a `blank` value is one of its own, and `asked.left` are the
hidden values that a save carries blank. `crossed` is a history of writes by
others in between.

**Pages.** One page is shown at a time and nothing of it outlives it, so a
behaviour is one visit; the copy of `config.json` that React Query keeps does
outlive its page, so `ConfigEditor` leaves and comes back by itself.
`Wizard` keeps of each step only whether it is complete, which is all `validate`
looks at, together with the stack's type on which the checks depend.
`ConfigEditor` distinguishes the file (`disk`), the cached copy (`cache`), the
form, and what a PUT carries. Of the file's parts the form holds the
environments, the user's part of the project with the services (`project`) and
the project's version, which no field shows (`version`); all of them are saved
from the form, and only the `rest` of the file from the latest copy. `base` and
`typed` are histories: the copy the form was filled from, and what the user has
made of each part since. `ServiceCards` keeps a card's rows beside what its
service saves: the rows may hold half-typed entries that are not saved. A text
is the list of its parts between colons, and a part is a number, begins with
one, or does not, which is what `split(':')` and `parseInt` tell apart.
Services begin as the wizard's `buildPayload` or an earlier save wrote them, and
`Reopen` makes the cards anew from what was saved. `Housekeeping` has `hold` and
`stray`, the interval that `holdTimer.current` points to and one it points to no
more. `SettingsPage` keeps the open window and its fields apart from the save
under way, since the one may change before the other is answered.

## 3. What the runs show

| Run | Module | Bounds | Shows |
|---|---|---|---|
| `login_limiter` | MCLoginLimiter | 2 requests in progress, 1 address with 2 keys (a port, the header), limit 2, window 2, clock to 3 | `WindowQuota`, `SlidingQuota`, `WindowIsNotExtended`, `EveryRequestIsAnswered` |
| `login_quota` | MCLoginLimiter | the same, clock to 4 | a counterexample to `LimitPerAddress` |
| `action_stream` | MCActionStream | 1 session, commands `restore`, `logs` and one not permitted, 4 chunks, pipe and socket of 1 | `OutputIsAPrefix`, `VerdictIsTrue`, `CommandRunsToItsEnd`, `PumpEnds` |
| `stack_ops` | MCStackOps | 2 jobs with any command each, 2 services, 2 generations of data, 2 releases, 1 old snapshot | `OnlyRestoreLosesData`, `LoneUpdateKeepsRunState`, `LoneBackupIsCurrent`, `RestoredVolumesMatch` |
| `restore_starts` | MCStackOps | 1 restore | a counterexample to `RestoreStartsTheStack` |
| `update_stopped` | MCStackOps | 2 jobs, update and stop | a counterexample to `StoppedStaysStopped` |
| `config_regen` | MCStackOps | 1 save of the config | a counterexample to `SaveConfigRegenerates` |
| `snapshots_cover` | MCStackOps | 2 jobs, backup and restore | a counterexample to `SnapshotsCoverVolumes` |
| `session` | MCSession | 2 tabs | `RenewalSurvives`, `KeepsPromise`, `StartupEnds`, `ExpiredSessionEnds`, `SignOutReachesEveryTab` |
| `workspace_page` | MCWorkspacePage | 1 environment, 2 commands of a card at a time; 2 targets, 4 sockets of one view; 2 variables, 1 pending change, 1 write by another | `CardCatchesUp`; `BadgeCatchesUp`; `OneStream`, `LogShowsItsTarget`, `LightIsTrue`, `NobodyWaitsForEver`; `OthersVariablesKept` |
| `pages` | MCPages | 2 environment names, 2 settings, 2 parts edited in a form, 2 writes; 2 services of 2 rows, texts of up to 3 parts; 2 things; 2 rows of settings | `PayloadComplete`, `CreationEnds`; `SaveKeepsTheRest`; `CardsTellTheTruth`; `NamesWereOffered`; `SaveStaysInItsRow` |
| `volumes_selected` | MCHousekeeping | 2 volumes | a counterexample to `SelectedVolumesOnly` |

Each passing run also checks its module's `TypeOK`, which for a composition is
that of its parts.

*Why the bounds are enough.* Two requests race for a limit of two, and three
ticks of a window of two reach into a second window, which is what an excess
over the limit within one stretch needs; keys share the mutex and nothing else,
so two are enough. Four chunks are one more than the pipes, buffers and threads
in between can hold, so every thread blocks on every other. Two jobs are what an
overlap needs, and everything a third could do between two steps of one job a
second can do too, one command at a time; two services separate "this volume"
from "that volume" and the database's dump from a plain archive; two generations
separate old from new. Two tabs share the cookie, and what a third could do to
it a second can. Cards of two environments share the stream and nothing else,
and the stream may be closed at any time in any case. Two commands of a card are
one that ends while another runs. Four sockets are one in use, one closing, one
whose close comes late, and the next. A view tells a target only from another
one. In the editors two names allow a rename onto an existing one, two settings
tell old from new, two edits are all a rename makes, and two writes are a save
and somebody else's, or a save and an earlier one. Two rows and two services
show a removal before another; a host port is empty or a number, a container
port empty, no number, begun by one, or two parts long, which with the host port
makes an entry of three; a service is added only while every card is its
service's own. Two volumes are one that is ticked and one that is not. Two rows
of settings are the one edited and the one that must not change. The variables'
editor holds one pending change at a time; two of them on different variables do
not meet, and two on one variable are the delete-and-add that its property sets
aside. The theorems below carry the main results to every size.

*What the properties mean.* `WindowQuota` and `SlidingQuota` speak of a key of
the limiter's map: windows are fixed, so across a boundary up to 2*5-1 = 9
attempts may pass in 15 minutes under one key, never 10. That is what `allow`
gives, and it is not what README.md:1472 says ("5 attempts per IP per 15
minutes"), which `login_quota` refutes. `OutputIsAPrefix` says that chunk *n* is
frame *n*, and of the verdict only that one chunk at most can follow it, the
last. `OnlyRestoreLosesData` is the promise behind "keeps volumes" of `down` and
of every deploy, under any overlap: only a restore's data steps take data back,
and then to what its own snapshot holds of that service. It says nothing of
whether a snapshot covers what it should. `LoneUpdateKeepsRunState`,
`LoneBackupIsCurrent` and `RestoredVolumesMatch` say what one command achieves
when nothing overlaps it, other than the containers themselves: with overlaps
they do not hold, since nothing locks an environment (an update may start what a
stop has just stopped; a restore's volumes may be written by a concurrent
start). The last two speak of volumes under the names the scripts give them;
that a generated stack's volumes have other names is `SnapshotsCoverVolumes`,
which `snapshots_cover` refutes.

`RenewalSurvives` is the invariant behind "stays signed in": whatever order
timers, answers and sign-outs come in, a tab with a token has a timer or a
renewal under way, or its renewal failed. `KeepsPromise` is a refinement: every
step of `Session` is a step of `SessionPromise` or leaves its state alone.
`ExpiredSessionEnds` and `SignOutReachesEveryTab` say what becomes of a tab on a
page with the layout, for as long as the user looks at it: its poll gets the 401
that ends the session, at once when the token has expired, and at the next
expiry when the user signed out in another tab. Of a tab in the background or in
the wizard they say only that it keeps no token that works; it goes on showing
what it shows until it is turned to or a call of its own is refused.

`CardCatchesUp` and `BadgeCatchesUp` are of the form *if the world stays so, the
card comes to say so*, and hold although events are lost and caches outlive what
they describe, because the timers ask again. `CardCatchesUp` includes that the
state cannot be told. `BadgeCatchesUp` speaks of releases the check can see; of
the others (another registry's, a tag that does not sort after the one in use)
there is never a badge, and while docker cannot tell its digests there is one on
every `latest`.

`SaveKeepsTheRest` says what a save of `config.json` may do to the parts the user
left alone: send them as the file has them, or, if somebody else wrote the part
after the form's copy was read, take that back. The second half is no slip of
the property but what the page does: a version bump made while the form is open
is undone by a save of anything. `CardsTellTheTruth` says that the rows on
display are what is saved, and sets aside what a card cannot show: a first port
without a number, which the wizard itself may write, an entry with an address
before its ports, and, until the page is opened again, the cards behind a
removed service. `OthersVariablesKept` and `SaveStaysInItsRow` say of two more
editors that a save changes what the user changed; they set aside the
interleavings in which another write falls between a read and a write, which
nothing in the code prevents, and the variables' editor a hidden value that was
left blank, by history variables that mark them.

*Deadlock.* The runs state `CHECK_DEADLOCK FALSE` where the system may really
stop: all requests answered, all jobs ended, a command waiting for nothing, a
page that waits for its user, a bound on writes that is used up.

### Findings

The six runs that end in a counterexample are disagreements between the code
and what the repository says of it:

1. `restore_starts` - a restore that has restored a volume ends at
   `restore.sh:171` under `set -e`; step 4 of README.md:601, the start, is never
   reached.
2. `update_stopped` - `deploy.sh:53` says a stopped stack remains stopped; the
   decision is read before the pull and used after it.
3. `config_regen` - `handlers.go:532` regenerates `docker-compose.yml` by making
   it the standard output of a script that writes the same file itself.
4. `volumes_selected` - `HousekeepingPage.jsx:459` says that the selected volumes
   go. The interval behind the held button outlives the button: unticking the
   last volume while it runs makes it send an empty list, which the server
   answers with a prune of every unattached anonymous volume.
5. `snapshots_cover` - README.md:574-600 and `SlideOutPanel.jsx:246-250` say that
   a backup has, and a restore brings back, the database and every volume. The
   volumes of a generated stack have their project's name twice, the scripts look
   for it once (`backup.sh:159`, `restore.sh:156`): on a custom stack the backup
   archives an empty volume that docker makes for it, on an image stack none, and
   both succeed; the restore extracts into that other volume or skips it. The
   run shows it of the application's volume.
6. `login_quota` - README.md:1472 says "5 attempts per IP per 15 minutes". The
   key is the connection's address with its port, or the header's first entry
   (`handlers.go:115-119`), and windows are fixed.

**Open disagreements.** These too are places where a text of the repository says
one thing and its code does another. They are in the models unless said
otherwise. They have no run of their own: most show in a single read of the two
places, and the others are set aside by the property named with them.

* `WorkspacePage.jsx:775` says of a hidden value "leave blank to keep existing";
  what is typed and erased again is sent and written as an empty value (758-761).
  `OthersVariablesKept` sets it aside (`asked.left`).
* README.md:1391 says that Save applies all edits and deletions atomically;
  `UpdateEnvVars` reads the file, changes the lines and writes it, with no lock,
  so what another writes in between is lost. `OthersVariablesKept` sets it aside
  (`crossed`).
* `env-gen.sh:42`, `:93` and `:173` say that existing values are preserved. On an
  image stack `.env` is truncated before they are looked up (29); on a custom
  stack they are looked up under names the script never writes. The header it
  writes says "resets values" (34), so the script disagrees with itself.
* `WorkspacePage.jsx:103` says the update cache is cleared after an update. The
  page asks again; the server's cache (`handlers.go:985`) answers as before until
  the next check (`AfterUpdate`).
* `WorkspacePage.jsx:79` says 15 seconds where the code polls every 120 (not in a
  model: none has seconds).
* `housekeeping_handlers.go:311-312` says that containers of a project that runs
  should not be pruned, and the page says "all {n} stopped" of the list without
  them; the prune takes every stopped container, listed or not.
* README.md:900 speaks of `--pull always`, which is nowhere in `deploy.sh` (not in
  a model: an update's pull is a step of its own).

Met while modelling, in the models unless said otherwise, where we found no text
that says otherwise:

* Stream: the verdict may come before the last chunk of output, or meet it on
  the wire; no text of the repository orders the two (`handlers.go:882` speaks of
  the command's own two streams).
* Backups: `backup all` of an image stack that archives something ends as failed
  before it prunes (`backup.sh:152`, the same idiom as 1).
* Session: a tab in the background or in the wizard is not told that its session
  ended; a sign-out does not cancel a refresh in flight, whose answer signs the
  tab in again; a wrong password, at sign-in or when it is changed, is a 401
  like any other, so the interceptor logs out and reloads; a failed refresh
  stops the renewals and leaves the token; the logout the interceptor starts may
  be cut off by the reload it also starts.
* Terminal: the close of an earlier socket sets `wsRef` to null, so a later
  socket is closed by nobody and its shell stays (`OneStream` sets this aside as
  `overtaken`). Logs: the "disconnected" line of the old socket lands in the new
  log. Actions: output of an older action mixes into the new log and its close
  puts out the light; Clear is undone by the next line. The restore window says
  it is complete on any close, and closing the panel unmounts it while the
  restore goes on.
* Cards: an unreachable registry, another registry's image and a pinned tag
  whose successor does not sort after it all count as "up to date", and then
  Update refuses; `latest` counts as outdated whenever the hub answers and
  docker cannot tell its digest. Several commands of one card may run at a time.
* Editors: a save writes the project, its version, the services and the
  environments as they were when the form was filled, over a version bump or the
  user's own earlier save; what is typed while a save is pending is dropped when
  it succeeds; a late answer leads away from whatever is shown; renaming an
  environment onto another drops one of the two; the counter behind "new
  environment" starts anew with the page, so a second one replaces the first
  saved under that name; going from one workspace's editor to another's keeps
  the first one's form. Removing a service leaves the cards of those after it
  with the wrong rows (`key={i}`), until the page is opened again. A container
  port is what `parseInt` makes of it: of `abc` nothing, and the next opening
  drops the row or its number; of `80abc` 80. An extra port of three parts (an
  address, a host port, a container port) loses all but its first when the card
  is next touched.
* Wizard: it may write a service with a host port and no container port; of a
  volume it sends `mountPath` where `create.go:37` reads `mount_path` (not in the
  model); Continue says nothing when a template, a service or an environment's
  name is missing; what a template filled in stays when another kind of stack is
  chosen, and its details may arrive after that; Step 7 leads on even when the
  creation was refused; a failed creation removes the directory even when
  someone else made it in between.
* Housekeeping: the keys the purges invalidate are nobody's, so lists stay until
  the next focus; ticks of images outlive their rows; PRUNE stays typed; the
  server does not check again that a kernel is not locked.
* Variables: `ensure_env_file` copies the placeholders of `.env.example`; a save
  that reads during `env-gen.sh` writes the truncated file back.
* Settings: success of one save closes whatever form is open; a form switched to
  another row by keyboard keeps the fields of the first; the general tab after a
  failed load saves blanks; a target's form stores the whole row as it was when
  it was opened.

## 4. Fairness

`login_limiter`: goroutines run (weak fairness of every step inside `allow` and
`Login`), and `Lock` is strongly fair because `sync.Mutex` hands itself to a
waiter that has starved for a millisecond. Clients, the clock and restarts have
none. `action_stream`: the handler, the copier, the pump and the child run; a
browser that is connected and has a frame to read reads it; nothing makes a
browser connect, stay or leave, and nothing makes `logs -f` end. `StackOps`
claims no liveness: a `docker` command may hang for as long as it likes.

`session`: the two timers fire (`StartTimeout`, `TimerFires`), time passes
(`TokenExpires`), `Layout` polls every 30 seconds in a tab that stays in view on
a page that has it (`Poll`; React Query pauses an interval in a hidden tab, and
`NewWorkspacePage.jsx` renders no `Layout`), and a 401 that comes again and
again is not lost every time (strong fairness of `Intercept(t, "api")`). Users
do what they like, `Turn` and `AskAway` included, and axios has no timeout, so
every call but the polls may hang for ever: no answer is owed to anybody.

`workspace_page`: for the cards, the `refetchInterval`s of status and updates go
on (of a page that stays in view), the server's hourly ticker goes on, a check
that was begun ends (the hub answers or the connection fails: `http.Get` has no
timeout, so this is assumed), and an answer to a question asked for ever is not
lost for ever (`StatusArrives`, `UpdatesArrive`); the event stream is owed
nothing. For the views, a connection that is being made is made or fails, a
close that was begun is delivered, and a connected terminal prints its prompt or
ends. Nobody clicks because they must. `pages`: only the server behind Step 7
and the close of its socket go on (`W!Fairness`).

## 5. What is proved

Checked by TLAPS, for every value of the constants that satisfies the named
assumptions: `LimiterAssumption`, `StreamAssumption`, `StackAssumption`,
`PagesAssumption` (the name a new environment gets is a name, no environment is
called `project` or `version`, a blank setting is a setting, the mark `"gone"` of
a removed one is none, what is typed into a row is a text, and the bounds are
numbers) and `WorkspacePageAssumption` (there is a target and room for one
socket). `Session` assumes nothing. With the theorems of this section every
invariant and every action property a passing run checks is proved, and the
refinement too; TLC alone answers for liveness.

*The login limiter*

* `LoginLimiterProofs!TypeCorrect` - `Spec => []TypeOK`.
* `LoginLimiterProofs!QuotaHolds` - `Spec => []WindowQuota`. `WindowQuota` is
  not inductive: it needs that only the mutex's holder is between `Lock` and
  `Unlock` (`MutexInv`), that what a goroutine decided in `Look` still holds at
  `Write` (`DecisionInv`), that no recorded attempt is later than the window
  (`HistoryInv`), and that the entry's counter is at least the number of
  recorded attempts under that key since the window opened (`CountInv`). The
  step that matters is `WriteKeepsCount`, with cardinalities of finite sets.
* `LoginLimiterProofs!WindowFixed` - `Spec => WindowIsNotExtended`.
* `LoginLimiterProofs!SlidingQuotaHolds` - `Spec => []SlidingQuota`. A stretch as
  long as a window can meet two windows and not three, but the state keeps no
  past windows, so the invariant is said of positions in the record: attempts
  `2 * MaxAttempts - 1` places apart are more than `Window` apart in time
  (`SpacingInv`). To keep that, one must know of the open window where it begins
  in the record, that what comes before is older and what comes `MaxAttempts`
  places before is older by a whole window (`OpenInv`), and that an attempt about
  to be counted falls into it (`LookInv`). `SpacingImpliesQuota` turns positions
  into a cardinality.

*The live command stream*

* `ActionStreamProofs!TypeCorrect` - `Spec => []TypeOK`.
* `ActionStreamProofs!InOrderAndComplete` - `Spec => []OutputIsAPrefix`. The
  property speaks of positions in the stream of frames, which the pump does not
  know: `EndSend` puts the chunk it holds after whatever is there. `LengthInv`
  ties the two: while the connection is alive and unspoiled there are exactly as
  many frames as chunks sent, and one more once the verdict is told (`TellInv`
  reads off the handler whether it is). That what follows it is the last chunk
  and no other is `ChildInv`: a verdict is begun when the child's output has
  been copied, so the pump holds one chunk at most. It rests on `CopierInv` (the
  chunk being handed over is the next one, so none is missed) and on
  `HandlerInv` (no thread of a session works before its handler has started it).
  `OtherRows` and `SameRow` dispose of the sessions a step does not touch;
  `OwnRow` has one step for each action of the session that moves.
* `ActionStreamProofs!VerdictTrue` - `Spec => []VerdictIsTrue`. The verdict shown
  was decided three threads and a buffer earlier. `VerdictInv` says that wherever
  a success is decided, being written, on the wire or shown, the child has exited
  with 0 and its output has all been copied (`Through`); `ChildInv` says what each
  thread may conclude from the one below it, and `ThroughStays` that nothing
  undoes it, a crash in another session included.

*The commands on an environment*

* `StackOpsProofs!TypeCorrect` - `Spec => []TypeOK`, one step for each action and
  under it one for each variable the action changes.
* `StackOpsProofs!DataSafe` - `Spec => OnlyRestoreLosesData`, for any number of
  jobs: a volume goes back only at a data step of a restore, to nothing or to
  what that restore's own snapshot has of the same service. The property speaks
  of single steps but needs an invariant: a container's write moves a volume
  forward only if no volume holds data later than the counter, and since a
  restore copies from snapshots, no snapshot either (`GenInv`); and a job at a
  data step of `restore.sh` was asked for a restore (`RestoreInv`). It promises
  nothing of what a snapshot covers, which `snapshots_cover` refutes.
  `VolumeStep` reduces the twenty-odd actions to the three ways a step changes
  the volumes.
* `StackOpsProofs!UpdateKeeps`, `BackupHolds` and `RestoreHolds` -
  `Spec => LoneUpdateKeepsRunState`, `LoneBackupIsCurrent` and
  `RestoredVolumesMatch`, for any number of jobs before, after and, as long as
  they do not overlap the one in question, between. Each property looks at the
  last step of a command and speaks of its first, so the invariant (`LoneInv`)
  follows the command through: `LoneUpdate`, `LoneBackup` and `LoneRestore` say
  what holds at each of its steps, `Alone` that no other job is under way
  meanwhile. What the steps rely on was there before: a directory that was not
  made holds nothing (`MadeFirst`), a restore finds in its snapshot what it saw
  when it decided to use it or no snapshot at all, though a backup's prune may
  take the old one at any time (`Sources`), and a container that runs has its
  volume (`InUse`, which is why a dump that succeeds is not empty). `LoneMoves`
  reduces a step of the system to three: the job begins, it goes on, or a
  container writes.

*Sessions*

* `SessionProofs!TypeCorrect` and `SessionProofs!Renewed` - `Spec => []TypeOK` and
  `Spec => []RenewalSurvives`, for any number of tabs. With the type invariant
  `RenewalSurvives` is inductive: each action moves one tab, and `OneTab`,
  `OneCall` and their kin dispose of the rest of the two tables.
* `SessionRefinement!PromiseKept` - `Spec => KeepsPromise`, the refinement. The
  lemmas `Abstract...` restate the actions of `SessionPromise` in terms of the
  mapping; `GrantsAfter` says what one call's start or end does to the set of
  answers with a token; `TabRefines` then takes the twenty actions of a tab in
  turn: it enters, loses an answer, leaves, loads anew, is granted one, or
  nothing of it shows.

*The pages*

* `PagesProofs!SentComplete` - `Spec => []PayloadComplete`. `StepsBehind` is the
  inductive form: every step behind the one on display is complete. `Back` keeps
  it for want of anything to check, an edit because it touches only what its own
  step checks, and late details because they only complete.
* `PagesProofs!TakenWereOffered` - `Spec => NamesWereOffered`, for any set of
  things: what is ticked, shown or named in a request was in the list once
  (`NamesKnown`), and a purge of named things takes only those
  (`TakenIsNamed`).
* `PagesProofs!SavesKeepTheRest` - `Spec => SaveKeepsTheRest`, for any sets of
  names and settings and however others write. The inductive form (`EditorInv`)
  is that the form is the copy it was filled from with the typed edits applied,
  so a part nobody typed into is as `base` has it and one that was is as typed.
  That this survives editing, renaming, removing and adding rests on lemmas about
  a few operators on functions (`EdTwice`, `Rewritten`, `Renamed`, `Removed`,
  `Added`), and `SaysEdited` reads a part of the result.
* `PagesProofs!SavesStay` - `Spec => SaveStaysInItsRow`: an intact form holds its
  row but for what was typed, and so does the save made of it (`FormsKeep`).
* `CardsProofs!CardsAreTrue` - `Spec => []CardsTellTheTruth`, for any number of
  services and rows, whatever texts are typed, from anything the wizard or a save
  writes and through any number of openings of the page. What is saved are the
  rows of certain kinds, so the first half of the module is about picking
  elements out of a sequence (`Among`): its length and its elements by rank
  (`AmongIs`), and what it does to an appended element. The second is about what
  becomes of a service that is shown and saved again: the same one
  (`PortsBack`, `VolumesBack`, `RoundTrip`), unless its ports are `Numberless` or
  `Bound`.
* `PagesProofs!TypeCorrect` - `Spec => []TypeOK` of the composition; the typing of
  the editor and of the settings is part of the invariants above.
* `WorkspacePageProofs!NoStrayStream`, `LogTrue`, `LightHasStream` -
  `Spec => []OneStream`, `[]LogShowsItsTarget` and `[]LightIsTrue`, for any set of
  targets and any number of sockets. `ViewInv` joins the three: the log's lines
  are its target's because only the socket in use still flows, and that one is
  the selection's once the effect has run. `ClosedFacts`, `TakeFacts` and
  `StateFacts` say what closing, taking and a change of state do to the sequence
  of sockets.
* `WorkspacePageProofs!SaveDoesAsAsked` - `Spec => OthersVariablesKept`, for any
  number of other writers; hidden values left blank, which the page says are
  kept, are set aside. `SaveInv` says that until somebody else writes, what a
  save has read is what the file holds.
* `WorkspacePageProofs!TypeCorrect` - `Spec => []TypeOK` of the composition, with
  `ViewInv` for the sequence of sockets.

Only model-checked: every liveness property (`EveryRequestIsAnswered`,
`CommandRunsToItsEnd`, `PumpEnds`, `StartupEnds`, `ExpiredSessionEnds`,
`SignOutReachesEveryTab`, `CardCatchesUp`, `BadgeCatchesUp`, `NobodyWaitsForEver`,
`CreationEnds`): leads-to under weak and strong fairness needs `ENABLED`, which is
out of the prover's reach. And the six counterexamples, which are what they are.

## 6. What is not modelled

*Stacks.* Swarm deployments; restarts of a single service; the MySQL path of a
restore (which does not drop the database first) and a MySQL service skipped for
want of a root password; Garage (whose archive names no volume, so a restore
always skips it); two backups within one second, which share a directory;
containers that crash or restart on their own; the text of the generated files;
the removal of a workspace while commands run in it.

*Server.* A restart that empties the update cache, and a check that cannot read
the configuration and stores nothing; several images of one environment, which
are one in `UpdateBadge`; all but one of the values `X-Forwarded-For` may have;
the scanner goroutine of `StreamEvents` and the two copying goroutines of
`Terminal`, which are seen only from the browser; `secrets.go`, which decides
what is masked; the build cache, and of the daily job the prune of networks;
versions, builds, promotion and sync.

*Pages.* The text buffer of the compose editor; the quick actions and automation
tabs of the housekeeping page; the dashboard and the lists of workspaces,
backups and activity, which only read; layout, menus and themes. Of the wizard's
form what is filled in is abstracted to whether it is complete, so its Traefik
switch, which cannot be switched off again, is not seen. A second first-run setup
racing the first is left out of `Session`: the users table refuses a second
account only under the same name.

Process start-up, routing, templates and sample workspaces are wiring and data.
The interactive wizard of the shell asks questions and writes one file.

## 7. Plan

1. Proofs: an abstract specification of the command stream (a queue of chunks
   and one verdict) and the refinement by `ActionStream`, from `LengthInv`,
   `TellInv` and `VerdictInv`.
2. `Release`: version bumps, builds and promotion over `config.json` and the
   registry's tags; that what is deployed is what was promoted.
3. `StackOps` with the removal of a workspace under running commands, and with
   the two setups that race on a first run in `Session`.
