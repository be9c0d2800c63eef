# interview: a TLA+ verification of the session CLI and its gateway

`interview` provisions a coding-interview environment, on a cloud VM or on the
local docker engine, and tears it down again. What can go wrong is what costs
money or a candidate's hour: a VM nobody lists any more, an API key nobody
revokes, a session called ready that is not, a destroy that reports success too
early. The modules here model the code that decides those things, at the
granularity at which processes, crashes and failures can interleave.

TLC checks a run with `tlc -config <run>.cfg <module>.tla`; `tlapm` checks the
proofs in CloudSessionProofs, CloudStatusProofs, LocalSessionProofs, LaunchWaitsProofs,
GatewayAuthProofs, LaunchPrepProofs and LoginLimiterProofs.
PROJECT.json names the module of each run and maps every definition to the lines
it models.

## 1. Inventory

| component | source | state | operations | modelled in |
|---|---|---|---|---|
| session store | `internal/session` | `sessions/<slug>/` with `metadata.json`, `.lock`, `logs/`; `archive/<slug>/` | newSlug, New, List, Get, Save and setters, Lock, Archive | CloudSession, LocalSession, LaunchPrep |
| cloud launch | `internal/cli/launch.go` | its copy of the metadata, the ssh client | the choices before a session, the pipeline of 15 phases, failLaunch | LaunchPrep, CloudSession, LaunchWaits |
| destroy | `internal/cli/destroy.go`, `ssh.go` (resolveSession) | its copy of the metadata | resolve, confirm, lock, terraform or docker, revoke, archive | CloudSession, LocalSession |
| local launch | `internal/cli/local.go`, `internal/kindx` | docker containers, kind cluster, port 8080 | check, stage, cluster, mint, compose up, setup | LocalSession |
| terraform runner | `internal/terraform` | the child process, the state and its lock | Init, Apply, Destroy, Outputs | CloudSession, LaunchWaits |
| ssh | `internal/ssh` | `known_hosts`, one connection | Dial, first-use host key, Run, RunStream, RunIn | LaunchWaits |
| openrouter keys | `internal/openrouter` | keys at the provider | Configure, Mint, Revoke | CloudSession, LocalSession, LaunchPrep |
| configuration | `internal/config`, `internal/cli/init.go` | `config.yaml` | Load, Write, edits by init and launch | LaunchPrep |
| provider contract | `internal/provider` | attempt counter | roles, Configured, Retry | LaunchPrep |
| cloud providers | `internal/{digitalocean,hetzner,aws,cloudflare,localvm}` | none | Configure; catalogue requests | LaunchPrep (Configure) |
| packs | `internal/pack` | none (files in) | Load, Validate, StagePayload | PackContent, LaunchPrep |
| login limiter | `docker/images/gateway/limiter.go` | buckets per address | allow, sweep | LoginLimiter, LoginMeter |
| gateway auth | `server.go`, `token.go`, `config.go` | secret file, cookies | loadConfig, resolveSecret, login, requireAuth | GatewayAuth |
| gateway proxy, health | `proxy.go`, `health.go` | none | proxy, readiness | not modelled: stateless |
| terminal output | `internal/ui` | one spinner goroutine | Step; layout | LaunchWaits (Step) |
| other commands | `root.go`, `list`, `info`, `doctor`, `images`, `pack` | the context of the process | menu; read and print | LaunchPrep (menu) |
| stack, version | `internal/{stack,version}` | none | text and tables | not modelled: no state |
| terraform modules, images, pack content | `terraform/`, `docker/`, `packs/` | | declarative data | external: modelled by use |

How they interact. CLI processes share nothing but the file system: a launch
and any number of destroys meet in the session directory, under an advisory
flock that only launch and destroy take (`list`, `info`, `ssh` and
resolveSession read without it). The CLI starts terraform as a child in its own
process group, so terraform survives the CLI; the two meet again in terraform's
state lock. Local sessions also share the docker engine and one port. Inside the
gateway, handlers and the sweeper goroutine share the limiter's map under a mutex.
`init` and `launch` share `config.yaml`, each with a copy of its own and with credentials of its
environment that beat the file's, and draw session names from the same directory; all commands of one menu process share a
context that the first SIGINT cancels for good.

What is hard. A destroy decides by metadata read before its prompt and its
lock; saves are truncate-then-write; Archive is a series of renames and
unlinks, of the lock file too; every phase of a launch may fail or the process
die; the key exists before its handle is saved; local launches check and then
create; handlers read the clock before the mutex; an interrupt and the exit of a
terraform child are ready in the same select; the host key is pinned while the
disk may be full; configuration edits of two commands overwrite each other;
a docker or kind command outlives the process that waits for it;
a pack is checked and copied at different times; a gateway dies between the
truncation and the write of its secret. PROJECT.json lists each hazard at its line
with the properties that cover it.

What makes each component correct. Store: one writer per session, what costs
money stays readable. Launch: ready means complete, an error is recorded, an
interrupt is obeyed. Destroy: success means nothing is left, rerunning it converges.
Local: a ready session serves, docker holds nothing that destroy
cannot find. Runner: no child is left behind, and after SIGINT nobody waits for it for long. ssh: commands reach the VM whose key was
pinned first. Configuration: a stored credential is lost only to an overlapping
command. Packs: what reaches the candidate was meant for the candidate.
Limiter: a rate bound, refusals that are earned, forgetting without
effect. Gateway: a login is what lets in, for as long as its cookie says, across
restarts.

## 2. Modules

### CloudSession

One cloud session, its `Launcher`, the `Destroyers`, terraform, the VM and the
key. Sessions share neither files nor cloud resources, so one stands for all.

| variable | in the code |
|---|---|
| `opt` | the flags and the bundle: which phases run |
| `phase`, `mem[p]` | `s.Meta` in the memory of each process |
| `dir`, `logs`, `meta`, `archived` | the session directory, `logs/`, `metadata.json`, `archive/<slug>/metadata.json` |
| `lockfile`, `inodes`, `fd`, `locked` | the inode `.lock` names, inodes made, what each process has open and whether it has the flock |
| `vm`, `child` | the VM and terraform's knowledge of it, the terraform process |
| `stack`, `key` | compose is up on the VM; the OpenRouter key and whether its hash was saved |
| `pc`, `saving` | where a process is; it is between truncation and write |

Each action is what happens between two system calls another process can
observe: a save is `Save` and `Write` (or `WriteFails`), `Session.Lock` is
`OpenLock` and `Flock`, `Archive` is `ArchiveMeta`, `ArchiveLogs`, `RemoveFiles`,
`RemoveDir`. A phase is `SetPhase` and then its work or `PhaseFails`. `Faults`
selects what may go wrong, `Overlap` whether destroy may start while the launch
is still running, `Options` which launches are explored.

Abstractions: metadata keeps status, ip, url and hash as far as the properties tell
them apart; SetIP and SetFQDN are one save; the phase name written to disk is not
kept, since nothing reads it back; terraform takes its state lock together
with its start, and a VM is one resource; RemoveAll unlinks all entries and then
the directory; the suffix of a second archive directory is not kept; a process that has ended keeps no memory of its copy. A
MkdirAll of session.New that fails half-way and a failing password generator are
left out: nothing is billed then.

### SessionLifecycle

The abstract specification: a status, whether a VM is billed, whether a key is
live. Launch hands over only what is provisioned, and a session is archived only when it costs
nothing. `CloudSession!FollowsLifecycle` is the refinement: status is that of
metadata.json (the new one as soon as a process rewrites it), billed is "terraform
knows the VM", keyed is "live and its handle saved".

### LocalSession

Several local launches and destroys on one machine. Sessions are separate
directories here, named by their launch; what they share is docker, the port and
liveLocalSession.

| variable | in the code |
|---|---|
| `opt`, `phase`, `mem[p]` | the bundle and the profile; `s.Meta` in the memory of each process |
| `meta`, `archived`, `holder` | `metadata.json`, the archived directory, the holder of the flock |
| `cluster`, `compose`, `key` | the kind cluster, the containers and the port, the OpenRouter key |
| `saving` | the process is between the truncation and the write of metadata.json |
| `orphan` | the docker and kind commands that go on although their process was killed |
| `early` | history: a destroy read the session while its launch, or a command the launch left, was still at work |

The save is two steps, because a torn file is what liveLocalSession skips, and
a process may be killed between them. Lock and Archive, studied in CloudSession, are one step
each. A destroy reads its copy at any time (`Resolve`), before its prompt and its lock. A process may
be killed while its docker or kind command runs: SIGKILL does not reach the child that
`exec.CommandContext` started, so that `Crash` leaves it in `orphan` or not, and `Orphan` is what it
still does, at any later time, or nothing. A command is `KindCreate`, `KindDelete`, `Up` or `Down`,
the same whether its process waits for it or not.

Two things the code does are the named exceptions of `DockerIsListed`. A save that is cut off leaves
a session no command can find (`CutOff`, the local case of the finding `torn_metadata`). A destroy that
reads before the launch has saved what it makes works on a copy without the cluster or the
key's hash, and reports success with both alive (`early`, the local case of `stale_destroy`); a destroy that
starts while a surviving `kind create` is still at work can do the same. `DestroyLeavesNothing` and
`ReadyServes` are also claimed for sessions no destroy read early; they need no exception for torn saves.

### LoginLimiter and LoginMeter

The gateway's token bucket in integers (a token is `Window` units, so a second refills `Burst`
units; float64 rounding is left out). A handler reads the clock (`Arrive`) and is
served later (`Grant`, `Refuse`), at most `Skew` seconds later; the ticker may
fire at any time. `granted` is a history variable: the attempts granted before each mark on the
clock, so that those of a span are a difference of two counts. LoginMeter is the abstract
limiter, a debt per key that is never forgotten unless it is paid;
`FollowsMeter` shows the bucket with its sweeper implements it. That and `RateBound` need
`2 * Skew <= Window`, which holds for goroutines that wait for a mutex and windows of seconds.
With more skew the sweeper, which drops a bucket two windows after its last attempt, drops debts
that a late handler would still have met, and TLC finds both violated at once (window 2, skew 2).
`Window > 0` is assumed: `time.NewTicker(0)` panics at start.

`RateBound` is the bound the code keeps: a full bucket at once and the refill after it.
That is more than `Burst` attempts within one window, where the flag's description
(`config.go:144`) speaks of attempts "per window"; a token bucket means it as an average.

### GatewayAuth

Gateway containers that are started, killed and started again with other flags, and
browsers that log in, keep a cookie and come back with it.

| variable | in the code |
|---|---|
| `clock`, `drawn` | `time.Now` in ticks, the random keys generated so far |
| `file[g]` | the key in `-secret-file`, None when it is absent or empty |
| `gate[g]` | the process: `down`, in resolveSecret, in os.WriteFile, listening; its flags and key |
| `conn[b]`, `jar[b]`, `inside[b]` | the request under way, the browser's cookie, what requireAuth let through |
| `logins`, `welcomed` | history: when a browser gave the password; whom this life of the gateway gave a cookie |

Start is `Start` (loadConfig refuses half a TLS pair, an empty password, a landing page it
cannot open), `ResolveSecret` (flag, file, random), `Truncate` and `WriteSecret` (os.WriteFile),
`Listen`; `Exit` may fall between any two. loginSubmit is `LoginAccepted` or
`LoginRefused`, requireAuth `Enter` or `TurnedAway`. A signature is its key: HMAC is
taken for granted, and so are the limiter (LoginLimiter) and constant-time comparison. Each
gateway has a secret file of its own, as compose gives each its volume.

### LaunchPrep and PackContent

The menu, `interview init` and the first half of `interview launch`, in several processes
over one config file, one session directory and one pack directory.

| variable | in the code |
|---|---|
| `file`, `run[p].cfg` | `config.yaml`, and the copy each command loaded and edits |
| `run[p]` | the command of process p: where it is, its terminal, context, flags, credential under test, attempt, pack, profile, name |
| `meta`, `payload` | per name, the session's metadata and what is staged for the candidate |
| `tree` | the pack directory, which its author goes on editing |
| `Env[p]` | constant: the credentials in the environment of process p, which beat the file's |
| `told`, `blind`, `lost` | history: what init stored last, what others wrote since a process looked, what was overwritten that way |

init is `StartInit`, `Configure` (the prompt of any provider), `AttemptSucceeds`, `AttemptFails`,
`DelayEnds` and `DelayCancelled` (Retry), `PickZone` or `LeaveZone` (Cloudflare), `Write`: a rejected
credential ends with the write of the unchanged copy too, because Configure returns nil.
launch is `EnsureBundle` ... `ConfirmGate`, each with its flag, its picker or its refusal
(`LaunchStops`), then `NewSlug`, `NewSession`, `FillSession`, `LockSession`, `Stage`. What follows is
CloudSession's and LaunchWaits'. PackContent has Load's rules and StagePayload's walk as
operators over a tree: files in groups (task, solution, lab, setup.sh, cluster.yaml, manifests),
links by the group they lie in and lead to, schemas as one Boolean. A link in the place of a
copied directory is followed, as WalkDir follows its root (`RootLinks`); below it a link to a file is
read and one to a directory fails the copy (`Met`).

`Configured` is true of a credential in the environment or in the command's copy. A Cloudflare token in
the environment is not in `Env`: it is of no use without the zone, which only init stores, and
then together with a token.

Abstractions: one VM provider, the local one, one AI and one access provider stand for their
kind; a launch's prompts have two outcomes; sessions are not destroyed here, and
liveLocalSession is LocalSession's.

### LaunchWaits

What the waiting steps of a cloud launch do when SIGINT arrives or a budget runs out.

| variable | in the code |
|---|---|
| `step`, `at` | the step of runLaunch, and where in its wait it is |
| `cancelled`, `expired` | the launch's context; the deadline of the step's own |
| `child`, `remote` | the terraform process; the remote command |
| `peer`, `hostkey`, `pin`, `conn` | the VM and its host key; `known_hosts`; the VM at the other end of the connection |
| `spinner`, `screen` | the goroutine of ui.Step; what was drawn last |
| `status`, `finished`, `late` | of the session; history: outside work that ended well, terraform children started after SIGINT |

Runner.run is `StartChild`, `Signal` (either branch of the select when both are ready),
`GraceEnds`, `Reap`, `ReapSignalled`; Outputs shares them, under exec.CommandContext. Dial is `Configure`,
`Connect`, `VerifyHostKey` or `PinFails`, `Authenticate`, then `Rest`, `Again` or `GiveUp`; a remote
command is `OpenSession`, `CloseSession` (watchCtx), `CommandReturns`. ui.Step is `Begin`,
`Frame`, `CloseDone`, `SpinnerStops`, `Finish`. One remote step with a
budget and one without stand for those of the pipeline. One timing fact is assumed: no
terraform ends before run reaches its select.

## 3. Runs

| run | result | question |
|---|---|---|
| `cloud_any` | pass, 41k states | a destroy run again and again from any moment of a full launch on, every fault; liveness under `Fairness` |
| `cloud_after` | pass, 0.3M | two destroys after a bare, an AI or a full launch that ended anyhow: the lock, listing, keys and life cycle |
| `local` | pass, 1.1M | three of two local launches and two destroys, killed anywhere, commands that outlive them |
| `limiter` | pass, 0.3M | two handlers and the sweeper, burst 2, window 2, skew 1, eight seconds |
| `gateway` | pass, 2.1M | two gateways killed and restarted with changing flags, a browser that keeps its cookie |
| `prepare` | pass, 2.0M | init and launch in two processes, one with a key in its environment, or in one over a pack that is being edited |
| `launch_waits` | pass, 7k | SIGINT and deadlines anywhere, a VM that stops, hangs and changes its host key; liveness |
| `stale_destroy` | violation | `KeyRevoked` with a destroy that overlaps the launch |
| `redial_panic` | violation | `LaunchFailureRecorded` when the second dial fails |
| `torn_metadata` | violation | `BilledIsListed` when a save is cut off |
| `two_locals` | violation | `OneLocalSession`, the promise of the help text |
| `linked_solution` | violation | `SolutionStays`, the promise of StagePayload's comment, with a link from `task/` to `solution/` |

The five violations are the findings of PROJECT.json. `OneLocalSession` and `SolutionStays` state promises
the code does not keep and are claimed nowhere. The others hold in the runs that switch the
cause off, and nowhere else are they claimed: `KeyRevoked`,
`KeyIsListed` and `FollowsLifecycle` only for destroys that start after the launch,
`BilledIsListed` only without torn or failed writes of metadata.json (TLC checks it after the
launch, the proof covers destroys that overlap it), `LaunchFailureRecorded` only without the failing
redial.

Properties, by what they say.

- Sessions. `LockExclusive`: at most one process inside Session.Lock while terraform can
  run, although Archive unlinks the lock file. `BilledIsListed`: a VM terraform knows or may be
  creating has metadata that list shows. `ReadyComplete`: what is listed as ready has VM,
  containers, address, URL and key. `SuccessMeansGone` and `KeyRevoked`: what exit status 0 of
  destroy is worth. `KeyIsListed`: no handle of a live key is dropped. `LaunchFailureRecorded`.
  `DestroyConverges`, `BillingEnds`: destroy run again gets there, unless a save was cut off.
  `ReadyServes`, `DockerIsListed`, `DestroyLeavesNothing`: the same for docker, for sessions that no destroy
  read early.
- Preparation. `StoredStays`: a credential init stored is lost only to a command that had loaded
  the file before, never to a rejection, a prompt left, a crash or a launch. `Revocable`: a
  session launched with the AI credential of the file, and none in its environment, leaves one in the file
  to revoke its key with. Both exempt what overlapping commands overwrite (`lost`): that is what the code
  does, and no text promises otherwise.
  `NamesAreFresh`: a launch records over another's session only when both drew the name before either
  had made the directory. `AcceptedStages`: a pack that was accepted and left alone can be staged.
  `ContentIsChecked`: a file from outside the pack reaches the candidate only if the pack changed after
  the check, or its own path is a link.
- Waiting. `NoChildLeft`, `InterruptIsObeyed` (one more terraform child at most),
  `NothingCutShort`, `OneHost`, `PinStays`, `RowsStay`, and the liveness properties `InterruptEnds`
  and `BudgetsHold`.
- Gateway. `RateBound`, `RefusalsAreEarned`, `FollowsMeter`; `AdmittedInTime`: whoever was let in
  gave a password less than the cookie's life before. `RestartRevokes`: a gateway with a
  random key lets in nobody from before its start. `CookiesSurvive`: with a file or a fixed secret
  everybody stays in, wherever its start was cut off.

What the runs taught about the code where no text of the repository promises otherwise. A pack whose own
path is a link is accepted unchecked (filepath.Walk does not enter it); `ContentIsChecked` and
`AcceptedStages` name that exception. A VM that accepts a connection and then says nothing holds
the dial beyond its five minutes and beyond SIGINT: `ssh.ClientConfig.Timeout` covers the TCP connect
only. `InterruptEnds` and `BudgetsHold` name that exception, so that they say nothing of such a VM. A launch
that hangs there, or on a terraform that does not end, keeps its session's lock and with it every
destroy out, until an operator kills it. A full disk leaves an empty
`known_hosts`, after which no dial of that session can succeed. After one SIGINT in the menu every later
command of that process runs under a cancelled context and rejects good credentials. A session launched
with a management key of the environment can be revoked only by a destroy that has the key too.

Bounds and why they are enough. Two destroys: the lock is a two-party race, a third
process only repeats a role. `cloud_any` has one destroy beside the launch and every feature and fault,
`cloud_after` two without the launch and the branches without features; two that overlap
the launch are covered by the theorems, for any number. Destroys may be run again without limit, since
they hold no counter; inodes grow with the times the directory is emptied, once per session. `local` needs two
launches to collide on the port and a destroy to clean up after one of them, or one launch and two
destroys: `MaxStarted` 3 has all three-process combinations, with one launch that uses everything and one
that is bare. A session read early is not read again there (`Reread`), since it has no claim left
to check. The limiter's one key is enough because
keys share only the mutex; eight seconds are four windows, long enough to fill, spend,
sweep (older than two windows) and refill. `gateway` has a cookie life of 2 within 3 ticks, so that cookies
expire and are renewed, and `MaxKeys` 2, so that both gateways, or two lives of one, draw a key; one
browser, since browsers share nothing (the proofs cover any number of all of these). In `prepare`
`Budget` bounds what a process may do: 3 in the first process are an init with two prompts or an
init and a launch, or a launch and an init; 2 in the second let it launch or store against
that. One good credential and one bad one tell the fields apart by presence; two names are the
least with a collision and an escape; the second process has an AI credential in its environment; `Attempts` 2 has a first and a last attempt (the code has
four; the two between are alike); packs are edited only when one process is at work, since the
second shares nothing that depends on the pack. `launch_waits` lets the key of the VM change once
(the proofs cover any number).

`CHECK_DEADLOCK FALSE` appears where the system may really stop: in `limiter` and `gateway` the
bounded clock ends, in `local` and `two_locals` all launches may have ended and nothing be left to destroy,
in `prepare` and `linked_solution` the budgets are spent, in `launch_waits` the launch is over. Destroyers, handlers,
gateways, names and local launches are interchangeable, so their permutations are a symmetry; the runs with
liveness use none.

Fairness of CloudSession (`Fairness`). Nothing in the code bounds the wait for a silent VM, a remote command
or terraform. So a launch is assumed to run on or to be killed in the end, and a terraform to end or
to be killed: an operator who wants the session gone does that, and without it neither liveness
property would hold. Destroys run on, and the operator runs destroy again after each failure; that is weak
fairness of `Destroy(d)`, with `Resolve` enabled whenever it rests. Strong fairness says that terraform
init, destroy and the revoke do not fail every single time; `<>[][~Setback]_vars` that the operator
does not decline, and crashes and disk errors of destroys do not recur, for ever. What is left to show is that
from every state that faults and crashes have led to, destroy alone reaches the end; the one state it
cannot leave, a save cut off, is named in the properties (`CutOff`).

Fairness of LaunchWaits. The process runs on, deadlines pass, and SIGKILL kills. Nothing is assumed of
terraform or of a remote command, which may take for ever: that an interrupted
launch ends rests on the grace period, SIGKILL and watchCtx alone.

## 4. Proofs

CloudSessionProofs holds for any number of destroyers, any options, any faults:

- `TypeCorrect`: `Spec => []TypeOK`.
- `LockSafe`: `Spec => []LockExclusive`. `LockExclusive` is not inductive; `LockInv` adds
  that a process has the flock exactly at the steps inside, has `.lock` open
  exactly there and before `Flock`, that while `logs` exists every open
  descriptor is of the inode `.lock` names now, and that a destroy that is about
  to unlink the file has moved `logs` away first.
- `BilledSessionsListed`: `Spec => []BilledIsListed` when neither `torn` nor `full` is in
  `Faults`. `BilledInv` says that a destroy past its terraform leaves no VM and no apply,
  which needs mutual exclusion (`LockInv`), that the launch outside the lock has no
  phase, and that a launch inside it finds its metadata. `SavingCompletes`: a torn file
  is always about to be written.
- `SuccessIsComplete`: `Spec => []SuccessMeansGone` for every set of faults, by `SuccessInv`.

The assumptions are the module's named ones: the launcher is no destroyer, options are sets
of features of which kind and setup need a bundle, faults are of the listed kinds.

CloudStatusProofs, for any number of destroyers and any options too, is about what the status in
metadata.json is worth:

- `ReadyIsWhole`: `Spec => []ReadyComplete` for every fault and every overlap. `LaunchInv` says what
  stands behind the launch at each of its steps (VM, address, key, containers, no child left);
  `ReadyInv` that whoever reads ready finds a launch that has handed over and no destroy that has
  begun; `DoomedInv` that a destroy saves only its own two statuses.
- `FailureIsRecorded`: `Spec => []LaunchFailureRecorded` without the fault `redial`, the finding; any
  overlap, any other fault. By `FailureInv`: a launch past its failure has saved it or is saving it.
- `SuccessRevokes`: `Spec => []KeyRevoked` when no destroy overlaps the launch (the other case is the
  finding `stale_destroy`), for every fault, torn and unfinished saves and the panic included. By
  `KeyInv`: every copy of the metadata that can be read or worked on has the hash exactly while the
  key is recorded, or has it of a key already revoked.
- `KeyStaysListed`: `Spec => []KeyIsListed` under `Sequential`, that is, when besides metadata.json is
  neither torn nor cut short. `StatusInv` has three parts. `AloneInv`: until the launch has ended
  nobody else touches the session, and metadata.json is its copy. `EndedInv`: afterwards
  metadata.json names what is live. `DestroyInv`: a destroy's copy names it too, although it
  was read before the prompt and the lock.
- `ImplementsLifecycle`: `Spec => FollowsLifecycle` under `Sequential`, the redial included. Each
  action is shown to be one of SessionLifecycle or to leave status, billed and keyed alone
  (`LaunchFollows`, `TerraformFollows`, `DestroyFollows`, `SharedFollows`).

LocalSessionProofs holds for any number of local launches and destroys, killed at any step, in a save or
with a docker or kind command that goes on without them:

- `ReadyHasItsStack`, `NothingIsLostInDocker`, `DestroyIsComplete`: `ReadyServes`, `DockerIsListed` and
  `DestroyLeavesNothing`, with their exceptions (`early`, `CutOff`), all by `LocalInvariant`. Its parts: `StepInv`
  and `LockInv`, who is at which step, holds a session's lock and is rewriting its metadata; `LaunchInv`, what a
  launch has made by its step and what its copy says of that; `SessionInv`, metadata.json names the
  cluster and the key that exist or that a surviving command may make; `DestroyInv`, what a destroy has removed by
  its step and that its copy still names what is left; `OnePort`. `LaunchInv`, `SessionInv` and `DestroyInv` speak of sessions no
  destroy read early. The properties are not inductive without them, because a destroy works from a copy that it
  read before the prompt and the lock, and a second destroy, or a command left by one that was killed, may have
  done part of the work since.
- `TypeCorrect`.

Besides the module's assumptions it uses that `None` is no process.

LaunchWaitsProofs holds for any number of host key changes and with or without a full disk:

- `ChildrenAreReaped`, `InterruptIsHeard`: by `ChildInv`, which ties the child to the step
  and place that wait for it, and `LateInv`: a child started after the interrupt is in its
  grace period, so its step fails and no other follows.
- `ReadyIsWhole`: by `FinishedInv`, the steps before the present one have all ended well.
- `CommandsStayOnHost`, `PinIsKept`: by `HostInv`, the connection of a verified dial has the
  pinned key.
- `RowIsLast`: by `RowInv`, the spinner is off outside a step, and the row drawn.
- `TypeCorrect`.

GatewayAuthProofs holds for any number of gateways and browsers, any setups, and gateways killed
and restarted at any moment:

- `LoginsExpire`, `RestartsRevoke`, `CookiesStayGood`, `TypeCorrect`. The idea is where a key can be.
  `KeyInv`: no key is known before it is drawn, a gateway listens with the key of its source, and a random
  key is in no file and no other process. `CookieInv`: every cookie, in a jar or on its way, was
  earned; there is a login at its expiry less `Ttl`, its key is still what its source stands for,
  and who holds a cookie under a running gateway's random key was welcomed by it. `OpenInv`: requests and
  pages end with their gateway. `AdmittedInTime` and `RestartRevokes` are inductive together with
  these; `CookiesSurvive` follows from them.

LaunchPrepProofs holds for any number of processes, environments, credentials, names, packs and attempts:

- `CredentialsStay`: by `CopyInv`, a command's copy of a credential is the stored one, unless another
  was stored since it loaded the file, or the one it has just accepted and is about to write.
- `KeysAreRevocable`: by `KeyInv`, who holds, or has recorded, the AI role without a key in its
  environment read a credential that was stored; with `CopyInv` and `StoredStays` it is still in the file
  or counted as lost.
- `NamesComeFresh`: `NameInv` says whose record lies under a drawn name.
- `AcceptedPacksStage`, `OnlyCheckedContent`: by `PackInv`, a launch works with a pack that loaded, and
  three lemmas on PackContent: the links of a loaded pack lead to what it holds
  (`LinksStayInside`), a file from outside is staged only through a link (`WalkedOnly`), and only a launch at its staging adds content (`PayloadStep`).
- `TypeCorrect`, by `FitInv`: what goes with the place where a command is.

Besides the module's assumptions on bounds and trees it uses that `None` is no value and that a
session's name is no provider's role. One assumption on trees matters: an embedded pack holds no
links, as `pack/validate.go` says, since it is loaded without the check for them.

LoginLimiterProofs holds for any burst, window, skew, addresses and handlers:

- `RefusalsEarned`: by `OwedInv`, what a bucket owes was run up by a granted attempt; neither a
  refusal, nor a refill at an older time, nor the sweep deepens it.
- `TypeCorrect`: times out of order drain a bucket by `Skew` seconds of refill at most.
- `RateIsBounded`: `Spec => []RateBound` when `2 * Skew <= Window`. `RateBound` is not inductive, since
  it says nothing of the bucket; `DebtInv` adds that for every second all attempts granted
  since have been added to the debt, which ends at `Paid(k)`, or no later than `Oldest`, the
  time of the oldest attempt to come, once the sweeper may have dropped it. A grant is
  where the debt may not reach further than a full bucket beyond now, and that is the bound.
- `ImplementsMeter`: `Spec => FollowsMeter` when `2 * Skew <= Window`. `Decided` relates the comparison
  that allow makes of tokens to the one LoginMeter makes of debts, for a time out of order and an
  absent bucket too; `Swept` is the only place where the hypothesis is used.

Only model-checked: the four liveness properties (`DestroyConverges`, `BillingEnds`, `InterruptEnds`,
`BudgetsHold`), since fairness and ENABLED are out of the prover's reach. Every invariant
and action property and both refinements of the passing runs are theorems, each under the hypotheses
named above.

## 5. Not modelled, and why

- Keys whose answer is lost, and VMs terraform was killed before recording: no
  step of this code can reach them afterwards, and the properties say so by
  speaking of recorded keys and tracked VMs.
- Local saves that fail for a full disk (CloudSession has them), and what a surviving docker command
  does after its session was archived and its name drawn again.
- More than one OpenRouter account: a 404 counts as revoked (`openrouter.go:90`), so that a destroy with
  another account's management key reports success while the key lives. Nothing the session stores tells
  the accounts apart. The environment of a process never changes.
- A deadline for a launch that hangs on a silent VM or on terraform: there is none to model.
- The monthly cap of a key: a number no other state depends on (`validateCap` accepts NaN and Inf).
- Two gateways that share one secret file, power loss after os.WriteFile without fsync, and cookies of an
  old password under a kept secret, which stay good until they expire: the cookie does not
  name the password.
- The fallback of the landing page, catalogue requests, image references, the tar stream to the
  VM beyond its success, layout and wording.

## 6. Plan

Done: sessions, local launches, the limiter, the gateway's logins, preparation, waits, and the
proofs of their safety properties and refinements. What is left, most important first.

1. CloudStatusProofs: what is left of `KeyIsListed` and of the life cycle when metadata.json may be
   torn or cut short; as they stand, TLC finds both violated there.
2. The exceptions of the local properties, one by one: what is still true of a session that was read early
   or cut off, for instance that its containers are found again by their project name.
3. What SessionLifecycle and LoginMeter imply by themselves, as theorems on the abstract modules,
   so that a reader can reason from them.

Runs: twelve are at hand and all are in use; new properties join existing runs, and
the violation runs of findings stay.
