---- MODULE CloudSession ----
(***************************************************************************)
(* One cloud session of the interview CLI: the `interview launch` process  *)
(* that creates it, any number of `interview destroy` processes started    *)
(* against it, the session directory they share on disk, the terraform     *)
(* child they run in it, and the two remote things that cost money: the VM *)
(* and the OpenRouter API key.                                             *)
(*                                                                         *)
(* Every step between two system calls another process can observe is an  *)
(* action.  os.WriteFile is two steps (truncate, write), flock is two      *)
(* (open, lock), Archive is four.  Sessions share no files and no cloud    *)
(* resources, so one session stands for each of them.                      *)
(***************************************************************************)
EXTENDS Naturals

CONSTANTS
    Launcher,    \* the launch process
    Destroyers,  \* the destroy processes; each may be run again once it ends
    Options,     \* the launches explored: what each one uses, see Features
    Overlap,     \* TRUE: a destroy may read the session while launch still runs
    Faults,      \* what may go wrong, see FaultKinds
    None,        \* there is no metadata.json
    Torn         \* metadata.json is not a JSON document

Features == {"bundle", "kind", "setup", "ai"}

\* crash:  SIGKILL, SIGTERM or power loss of one CLI process between two steps
\* torn:   a crash may come between the truncation of metadata.json and its write
\* full:   the write of metadata.json fails after the truncation
\* io:     a rename or a remove of Archive fails
\* kill:   terraform dies without writing its state (SIGKILL after 5 s)
\* lost:   the provider acts but its answer does not arrive
\* redial: the second ssh dial of a launch fails
FaultKinds == {"crash", "torn", "full", "io", "kill", "lost", "redial"}

Procs == {Launcher} \cup Destroyers

ASSUME LauncherAssumption == Launcher \notin Destroyers
ASSUME OptionsAssumption ==
    /\ Options \subseteq SUBSET Features
    /\ \A o \in Options : ("kind" \in o \/ "setup" \in o) => "bundle" \in o
ASSUME OverlapAssumption == Overlap \in BOOLEAN
ASSUME FaultsAssumption == Faults \subseteq FaultKinds

VARIABLES
    opt,       \* what this launch uses: a subset of Features
    phase,     \* the launcher's Meta.Phase, as last set by SetPhase
    dir,       \* sessions/<slug> exists
    logs,      \* sessions/<slug>/logs exists
    lockfile,  \* inode that sessions/<slug>/.lock names; 0: no such file
    inodes,    \* inodes created for .lock so far
    meta,      \* content of metadata.json: None, Torn or a record
    archived,  \* metadata.json has been moved to archive/<slug>
    vm,        \* "none", "untracked" (exists, not in terraform state), "tracked"
    stack,     \* compose up has succeeded on the VM
    child,     \* the terraform process holding the state lock
    key,       \* "none", "minted" (live), "recorded" (live, hash saved), "revoked"
    pc,        \* what each process does next
    mem,       \* each process's copy of the metadata
    saving,    \* the process has truncated metadata.json and not yet written it
    fd,        \* inode of the .lock each process holds open; 0: none
    locked     \* the process holds the flock on fd

disk  == <<dir, logs, lockfile, inodes, meta, archived>>
cloud == <<vm, stack, child, key>>
local == <<mem, saving, fd, locked>>
vars  == <<opt, phase, disk, cloud, pc, local>>

----
(* Metadata: the fields the properties tell apart.  hash is AIKeyHash # "". *)

Statuses == {"launching", "ready", "failed", "destroying", "failed-destroy"}

Metadata == [status : Statuses, ip : BOOLEAN, url : BOOLEAN, hash : BOOLEAN]

NewMeta == [status |-> "launching", ip |-> FALSE, url |-> FALSE, hash |-> FALSE]

ASSUME MetaAssumption == None # Torn /\ None \notin Metadata /\ Torn \notin Metadata

\* Seeded fault: a file that is not JSON is taken for metadata.
BadReadable(m) == m # None

Readable(m) == m # None /\ m # Torn

(* Launch phases in the order the pipeline runs them; SetPhase writes each *)
(* before its work.  "redial" reconnects without a phase write.            *)

Phases == {"stage", "terraform-init", "terraform-apply", "outputs", "wait-ssh",
           "cloud-init", "push-stack", "pull-stack", "install-kind",
           "push-payload", "create-cluster", "ai-mint", "compose-up", "setup",
           "summary"}

\* Phases that open a file in the session's logs directory.
LogsPhases == {"terraform-init", "terraform-apply", "cloud-init", "pull-stack",
               "install-kind", "create-cluster", "compose-up", "setup"}

\* Phases whose work leaves everything modelled here as it was.
PlainPhases == {"stage", "terraform-init", "wait-ssh", "cloud-init",
                "push-stack", "pull-stack", "install-kind", "push-payload",
                "create-cluster", "setup"}

AfterBundle == IF "ai" \in opt THEN "ai-mint" ELSE "compose-up"

After(ph) ==
    CASE ph = "stage"           -> "terraform-init"
      [] ph = "terraform-init"  -> "terraform-apply"
      [] ph = "wait-ssh"        -> "cloud-init"
      [] ph = "cloud-init"      -> "redial"
      [] ph = "push-stack"      -> "pull-stack"
      [] ph = "pull-stack"      -> IF "kind" \in opt THEN "install-kind"
                                   ELSE IF "bundle" \in opt THEN "push-payload"
                                   ELSE AfterBundle
      [] ph = "install-kind"    -> "push-payload"
      [] ph = "push-payload"    -> IF "kind" \in opt THEN "create-cluster"
                                   ELSE AfterBundle
      [] ph = "create-cluster"  -> AfterBundle
      [] OTHER                  -> "summary"

\* Where a process may be: resting (not started, ended with success, with an
\* error from inside the lock, or over in any other way), inside a launch,
\* inside a destroy.
Resting == {"idle", "over", "ok", "failed"}
Leaving == {"leave-ok", "leave-failed"}
LaunchSteps == Phases \cup {"new", "record", "applying", "redial", "mint-save", "url"}
DestroySteps == {"confirm", "load", "begin", "init", "destroy", "destroying",
                 "revoke", "archive", "archive-logs", "remove", "rmdir"}
Steps == Resting \cup Leaving \cup LaunchSteps \cup DestroySteps
             \cup {"open", "flock", "fail"}

Terminals == Resting \ {"idle"}

Init ==
    /\ opt \in Options
    /\ phase = "session"
    /\ dir = FALSE /\ logs = FALSE
    /\ lockfile = 0 /\ inodes = 0
    /\ meta = None /\ archived = FALSE
    /\ vm = "none" /\ stack = FALSE /\ child = "none"
    /\ key = "none"
    /\ pc = [p \in Procs |-> "idle"]
    /\ mem = [p \in Procs |-> NewMeta]
    /\ saving = [p \in Procs |-> FALSE]
    /\ fd = [p \in Procs |-> 0]
    /\ locked = [p \in Procs |-> FALSE]

----
(* Steps the two kinds of process share. *)

At(p, s) == pc[p] = s /\ ~saving[p]

Goto(p, s) == pc' = [pc EXCEPT ![p] = s]

\* Session.Save of m, first half: os.WriteFile opens with O_TRUNC.  Without a
\* directory the open fails, and the caller goes on at `err`.
Save(p, m, next, err) ==
    /\ mem' = [mem EXCEPT ![p] = m]
    /\ meta' = IF dir THEN Torn ELSE meta
    /\ saving' = [saving EXCEPT ![p] = dir]
    /\ Goto(p, IF dir THEN next ELSE err)
    /\ UNCHANGED <<opt, dir, logs, lockfile, inodes, archived, fd, locked>>

\* Second half: the bytes arrive.  If the file was unlinked in between they
\* go to an inode without a name.
Write(p) ==
    /\ saving[p]
    /\ meta' = IF meta = None THEN None ELSE mem[p]
    /\ saving' = [saving EXCEPT ![p] = FALSE]
    /\ key' = IF key = "minted" /\ mem[p].hash THEN "recorded" ELSE key
    /\ UNCHANGED <<opt, phase, dir, logs, lockfile, inodes, archived, vm, stack,
                   child, pc, mem, fd, locked>>

\* The write fails after the truncation.  Launch returns the error, before
\* the lock to its caller and later to failLaunch; destroy ignores it.
WriteFails(p) ==
    /\ "full" \in Faults
    /\ saving[p]
    /\ saving' = [saving EXCEPT ![p] = FALSE]
    /\ Goto(p, IF p # Launcher \/ pc[p] = "leave-failed" THEN pc[p]
               ELSE IF pc[p] \in {"record", "open"} THEN "over"
               ELSE "fail")
    /\ UNCHANGED <<opt, phase, disk, cloud, mem, fd, locked>>

\* Session.Lock, first half: open .lock, creating it if the directory is there.
OpenLock(p) ==
    /\ At(p, "open")
    /\ LET ino == IF lockfile = 0 THEN inodes + 1 ELSE lockfile
       IN  IF dir
           THEN /\ lockfile' = ino
                /\ inodes' = IF lockfile = 0 THEN inodes + 1 ELSE inodes
                /\ fd' = [fd EXCEPT ![p] = ino]
                /\ Goto(p, "flock")
           ELSE /\ Goto(p, "over")
                /\ UNCHANGED <<lockfile, inodes, fd>>
    /\ UNCHANGED <<opt, phase, dir, logs, meta, archived, cloud, mem, saving, locked>>

\* flock(LOCK_EX|LOCK_NB) fails while another process holds the inode.
Busy(p) == \E q \in Procs \ {p} : locked[q] /\ fd[q] = fd[p]

\* Second half: flock the inode opened, whatever .lock names by now.
Flock(p) ==
    /\ At(p, "flock")
    /\ locked' = [locked EXCEPT ![p] = ~Busy(p)]
    /\ fd' = [fd EXCEPT ![p] = IF Busy(p) THEN 0 ELSE @]
    /\ Goto(p, IF Busy(p) THEN "over"
               ELSE IF p = Launcher THEN "stage" ELSE "load")
    /\ UNCHANGED <<opt, phase, disk, cloud, mem, saving>>

\* The file descriptors of a process go with it, and the flock with them; so
\* does what it had in memory.
Drop(p, end) ==
    /\ Goto(p, end)
    /\ fd' = [fd EXCEPT ![p] = 0]
    /\ locked' = [locked EXCEPT ![p] = FALSE]
    /\ saving' = [saving EXCEPT ![p] = FALSE]
    /\ mem' = [mem EXCEPT ![p] = NewMeta]

\* Seeded fault: release() also removes the .lock file.
BadLeave(p) ==
    /\ pc[p] \in Leaving
    /\ ~saving[p]
    /\ Drop(p, IF pc[p] = "leave-ok" THEN "ok" ELSE "failed")
    /\ lockfile' = 0
    /\ UNCHANGED <<opt, phase, dir, logs, inodes, meta, archived, cloud>>

\* The deferred release() and the end of the process.
Leave(p) ==
    /\ pc[p] \in Leaving
    /\ ~saving[p]
    /\ Drop(p, IF pc[p] = "leave-ok" THEN "ok" ELSE "failed")
    /\ UNCHANGED <<opt, phase, disk, cloud>>

\* The process dies; a terraform child is in its own process group and goes on.
Crash(p) ==
    /\ "crash" \in Faults
    /\ pc[p] \notin Resting
    /\ saving[p] => "torn" \in Faults
    /\ Drop(p, "over")
    /\ UNCHANGED <<opt, phase, disk, cloud>>

----
(* interview launch: runCloudLaunch and the pipeline of runLaunch. *)

\* session.New up to its Save: the slug is free, the directories are made.
NewDirs ==
    /\ At(Launcher, "idle")
    /\ dir' = TRUE /\ logs' = TRUE
    /\ Goto(Launcher, "new")
    /\ UNCHANGED <<opt, phase, lockfile, inodes, meta, archived, cloud, local>>

NewSave ==
    /\ At(Launcher, "new")
    /\ Save(Launcher, NewMeta, "record", "over")
    /\ UNCHANGED <<phase, cloud>>

\* newLaunchSession saves again with profile, password and bundle.
RecordBundle ==
    /\ At(Launcher, "record")
    /\ Save(Launcher, mem[Launcher], "open", "over")
    /\ UNCHANGED <<phase, cloud>>

SetPhase ==
    /\ pc[Launcher] \in Phases /\ ~saving[Launcher]
    /\ phase # pc[Launcher]
    /\ phase' = pc[Launcher]
    /\ Save(Launcher, mem[Launcher], pc[Launcher], "fail")
    /\ UNCHANGED cloud

\* The work of the phase that SetPhase has announced.
Working(ph) == At(Launcher, ph) /\ phase = ph

\* Seeded fault: a failed phase ends the launch without failLaunch.
BadPhaseFails ==
    /\ pc[Launcher] \in Phases /\ ~saving[Launcher]
    /\ phase = pc[Launcher] \/ pc[Launcher] = "stage"
    /\ Goto(Launcher, "leave-failed")
    /\ UNCHANGED <<opt, phase, disk, cloud, local>>

\* Its error, its timeout or the cancelled context: runLaunch returns.  Before
\* the first phase newSessionRunner can fail.
PhaseFails ==
    /\ pc[Launcher] \in Phases /\ ~saving[Launcher]
    /\ phase = pc[Launcher] \/ pc[Launcher] = "stage"
    /\ Goto(Launcher, "fail")
    /\ UNCHANGED <<opt, phase, disk, cloud, local>>

PhaseDone(ph) ==
    /\ Working(ph)
    /\ ph \in LogsPhases => logs
    /\ Goto(Launcher, After(ph))
    /\ UNCHANGED <<opt, phase, disk, cloud, local>>

\* Runner.run: the log is opened, terraform apply started.  An apply that
\* finds the state locked ends as PhaseFails.
Apply ==
    /\ Working("terraform-apply")
    /\ logs
    /\ child = "none"
    /\ child' = "apply"
    /\ Goto(Launcher, "applying")
    /\ UNCHANGED <<opt, phase, disk, vm, stack, key, local>>

\* fetchIP saves the address terraform emitted.
FetchIP ==
    /\ Working("outputs")
    /\ Save(Launcher, [mem[Launcher] EXCEPT !.ip = TRUE], "wait-ssh", "fail")
    /\ UNCHANGED <<phase, cloud>>

RedialDone ==
    /\ At(Launcher, "redial")
    /\ Goto(Launcher, "push-stack")
    /\ UNCHANGED <<opt, phase, disk, cloud, local>>

\* client is nil when redialSSH fails and the deferred client.Close
\* dereferences it: release() runs, failLaunch does not.
RedialPanics ==
    /\ "redial" \in Faults
    /\ At(Launcher, "redial")
    /\ Drop(Launcher, "failed")
    /\ UNCHANGED <<opt, phase, disk, cloud>>

Mint ==
    /\ Working("ai-mint")
    /\ key' = "minted"
    /\ Goto(Launcher, "mint-save")
    /\ UNCHANGED <<opt, phase, disk, vm, stack, child, local>>

\* The key exists, the answer with its hash never comes.
MintLost ==
    /\ "lost" \in Faults
    /\ Working("ai-mint")
    /\ key' = "minted"
    /\ Goto(Launcher, "fail")
    /\ UNCHANGED <<opt, phase, disk, vm, stack, child, local>>

\* mintAIKey persists the revoke handle before anything else.
MintSave ==
    /\ At(Launcher, "mint-save")
    /\ Save(Launcher, [mem[Launcher] EXCEPT !.hash = TRUE], "compose-up", "fail")
    /\ UNCHANGED <<phase, cloud>>

\* Seeded fault: the exit status of compose up is not looked at.
BadComposeUp ==
    /\ Working("compose-up")
    /\ stack' \in BOOLEAN
    /\ Goto(Launcher, "url")
    /\ UNCHANGED <<opt, phase, disk, vm, child, key, local>>

\* The log of compose up is written after it.
ComposeUp ==
    /\ Working("compose-up")
    /\ stack' = TRUE
    /\ Goto(Launcher, IF logs THEN "url" ELSE "fail")
    /\ UNCHANGED <<opt, phase, disk, vm, child, key, local>>

\* upStack's SetURL.
SetURL ==
    /\ At(Launcher, "url")
    /\ Save(Launcher, [mem[Launcher] EXCEPT !.url = TRUE],
            IF "setup" \in opt THEN "setup" ELSE "summary", "fail")
    /\ UNCHANGED <<phase, cloud>>

\* printLaunchSummary's SetStatus.
MarkReady ==
    /\ Working("summary")
    /\ Save(Launcher, [mem[Launcher] EXCEPT !.status = "ready"], "leave-ok", "fail")
    /\ UNCHANGED <<phase, cloud>>

\* Seeded fault: the failure is saved from the copy New returned.
BadFailLaunch ==
    /\ At(Launcher, "fail")
    /\ Save(Launcher, [NewMeta EXCEPT !.status = "failed"],
            "leave-failed", "leave-failed")
    /\ UNCHANGED <<phase, cloud>>

FailLaunch ==
    /\ At(Launcher, "fail")
    /\ Save(Launcher, [mem[Launcher] EXCEPT !.status = "failed"],
            "leave-failed", "leave-failed")
    /\ UNCHANGED <<phase, cloud>>

Launch ==
    \/ NewDirs \/ NewSave \/ RecordBundle
    \/ SetPhase \/ PhaseFails
    \/ \E ph \in PlainPhases : PhaseDone(ph)
    \/ Apply \/ FetchIP \/ RedialDone \/ RedialPanics
    \/ Mint \/ MintLost \/ MintSave
    \/ ComposeUp \/ SetURL \/ MarkReady \/ FailLaunch

----
(* The terraform child, outside the code: it holds the state lock from its *)
(* start to its end and writes its state before it ends unless killed.     *)

ApplyCreates ==
    /\ child = "apply" /\ vm = "none"
    /\ vm' = "untracked"
    /\ UNCHANGED <<opt, phase, disk, stack, child, key, pc, local>>

ApplyRecords ==
    /\ child = "apply" /\ vm = "untracked"
    /\ vm' = "tracked"
    /\ UNCHANGED <<opt, phase, disk, stack, child, key, pc, local>>

DestroyDeletes ==
    /\ child = "destroy" /\ vm = "tracked"
    /\ vm' = "none" /\ stack' = FALSE
    /\ UNCHANGED <<opt, phase, disk, child, key, pc, local>>

\* Seeded fault: the exit status of terraform is not looked at.
BadChildEnds(done, next) ==
    /\ child' = "none"
    /\ pc' = [p \in Procs |->
                IF pc[p] \notin {"applying", "destroying"} THEN pc[p] ELSE next]
    /\ UNCHANGED <<opt, phase, disk, vm, stack, key, local>>

\* The process in Runner.run's select sees the child end.  A cancelled
\* context returns an error even when terraform succeeded.
ChildEnds(done, next) ==
    /\ child' = "none"
    /\ pc' = [p \in Procs |->
                IF pc[p] \notin {"applying", "destroying"} THEN pc[p]
                ELSE IF done THEN next ELSE "fail"]
    /\ UNCHANGED <<opt, phase, disk, vm, stack, key, local>>

ApplyEnds(done) ==
    /\ child = "apply"
    /\ vm # "untracked"
    /\ done => vm = "tracked"
    /\ ChildEnds(done, "outputs")

DestroyEnds(done) ==
    /\ child = "destroy"
    /\ done => vm # "tracked"
    /\ ChildEnds(done, "revoke")

\* SIGKILL after the 5 seconds of grace, or from outside.
ChildKilled ==
    /\ "kill" \in Faults
    /\ child # "none"
    /\ ChildEnds(FALSE, "fail")

Terraform ==
    \/ ApplyCreates \/ ApplyRecords \/ DestroyDeletes \/ ChildKilled
    \/ \E done \in BOOLEAN : ApplyEnds(done) \/ DestroyEnds(done)

----
(* interview destroy: runDestroyCmd, runDestroy and Archive. *)

\* Seeded fault: only a session whose launch has ended can be destroyed.
BadResolve(d) ==
    /\ pc[d] \in Resting
    /\ Overlap \/ pc[Launcher] \in Terminals
    /\ IF Readable(meta) /\ meta.status # "launching"
       THEN Goto(d, "confirm") /\ mem' = [mem EXCEPT ![d] = meta]
       ELSE Goto(d, "over") /\ mem' = [mem EXCEPT ![d] = NewMeta]
    /\ UNCHANGED <<opt, phase, disk, cloud, saving, fd, locked>>

\* resolveSession: the copy of the metadata everything below works on.
Resolve(d) ==
    /\ pc[d] \in Resting
    /\ Overlap \/ pc[Launcher] \in Terminals
    /\ IF Readable(meta)
       THEN Goto(d, "confirm") /\ mem' = [mem EXCEPT ![d] = meta]
       ELSE Goto(d, "over") /\ mem' = [mem EXCEPT ![d] = NewMeta]
    /\ UNCHANGED <<opt, phase, disk, cloud, saving, fd, locked>>

\* confirmDestroyGate; the prompt may stay open for any time.
Confirm(d) ==
    /\ At(d, "confirm")
    /\ Goto(d, "open")
    /\ UNCHANGED <<opt, phase, disk, cloud, local>>

Decline(d) ==
    /\ At(d, "confirm")
    /\ Goto(d, "over")
    /\ UNCHANGED <<opt, phase, disk, cloud, local>>

\* config.Load and destroyRunner; an error leaves the status as it is.
LoadRunner(d, ok) ==
    /\ At(d, "load")
    /\ Goto(d, IF ok THEN "begin" ELSE "leave-failed")
    /\ UNCHANGED <<opt, phase, disk, cloud, local>>

Begin(d) ==
    /\ At(d, "begin")
    /\ Save(d, [mem[d] EXCEPT !.status = "destroying"], "init", "init")
    /\ UNCHANGED <<phase, cloud>>

TerraformInit(d, ok) ==
    /\ At(d, "init")
    /\ ok => logs
    /\ Goto(d, IF ok THEN "destroy" ELSE "fail")
    /\ UNCHANGED <<opt, phase, disk, cloud, local>>

\* terraform destroy starts, unless an earlier child still holds the state
\* lock or the log cannot be opened.
TerraformDestroy(d) ==
    /\ At(d, "destroy")
    /\ IF child = "none" /\ logs
       THEN child' = "destroy" /\ Goto(d, "destroying")
       ELSE child' = child /\ Goto(d, "fail")
    /\ UNCHANGED <<opt, phase, disk, vm, stack, key, local>>

\* Seeded fault: a key that is already gone is an error.
BadRevoke(d) ==
    /\ At(d, "revoke")
    /\ key' = IF mem[d].hash THEN "revoked" ELSE key
    /\ Goto(d, IF mem[d].hash /\ key = "revoked" THEN "fail" ELSE "archive")
    /\ UNCHANGED <<opt, phase, disk, vm, stack, child, local>>

\* revokeAIKey goes by the copy's hash; without one there is nothing to do.
\* A key that is already gone counts as revoked.
Revoke(d) ==
    /\ At(d, "revoke")
    /\ key' = IF mem[d].hash THEN "revoked" ELSE key
    /\ Goto(d, "archive")
    /\ UNCHANGED <<opt, phase, disk, vm, stack, child, local>>

\* Seeded fault: the session is archived although the revoke failed.
BadRevokeFails(d) ==
    /\ At(d, "revoke")
    /\ mem[d].hash
    /\ Goto(d, "archive")
    /\ UNCHANGED <<opt, phase, disk, cloud, local>>

\* The request fails, or its answer is lost after it took effect.
RevokeFails(d) ==
    /\ At(d, "revoke")
    /\ mem[d].hash
    /\ \E k \in {key} \cup (IF "lost" \in Faults THEN {"revoked"} ELSE {}) : key' = k
    /\ Goto(d, "fail")
    /\ UNCHANGED <<opt, phase, disk, vm, stack, child, local>>

\* Archive, in the order of its system calls.
ArchiveMeta(d) ==
    /\ At(d, "archive")
    /\ IF meta = None
       THEN Goto(d, "leave-failed") /\ UNCHANGED <<meta, archived>>
       ELSE Goto(d, "archive-logs") /\ meta' = None /\ archived' = TRUE
    /\ UNCHANGED <<opt, phase, dir, logs, lockfile, inodes, cloud, local>>

ArchiveLogs(d) ==
    /\ At(d, "archive-logs")
    /\ logs' = FALSE
    /\ Goto(d, "remove")
    /\ UNCHANGED <<opt, phase, dir, lockfile, inodes, meta, archived, cloud, local>>

\* RemoveAll unlinks every entry, .lock among them ...
RemoveFiles(d) ==
    /\ At(d, "remove")
    /\ meta' = None /\ lockfile' = 0
    /\ Goto(d, "rmdir")
    /\ UNCHANGED <<opt, phase, dir, logs, inodes, archived, cloud, local>>

\* Seeded fault: the error of RemoveAll is dropped.
BadRemoveDir(d) ==
    /\ At(d, "rmdir")
    /\ dir' = (meta # None \/ lockfile # 0 \/ logs)
    /\ Goto(d, "leave-ok")
    /\ UNCHANGED <<opt, phase, logs, lockfile, inodes, meta, archived, cloud, local>>

\* ... and then the directory, which fails if something is in it again.
RemoveDir(d) ==
    /\ At(d, "rmdir")
    /\ dir' = (meta # None \/ lockfile # 0 \/ logs)
    /\ Goto(d, IF dir' THEN "leave-failed" ELSE "leave-ok")
    /\ UNCHANGED <<opt, phase, logs, lockfile, inodes, meta, archived, cloud, local>>

\* An error of Archive is returned as it is, without failDestroy.
ArchiveFails(d) ==
    /\ "io" \in Faults
    /\ pc[d] \in {"archive", "archive-logs", "remove"} /\ ~saving[d]
    /\ Goto(d, "leave-failed")
    /\ UNCHANGED <<opt, phase, disk, cloud, local>>

\* Seeded fault: a failed destroy is recorded as a failed launch.
BadFailDestroy(d) ==
    /\ At(d, "fail")
    /\ Save(d, [mem[d] EXCEPT !.status = "failed"], "leave-failed", "leave-failed")
    /\ UNCHANGED <<phase, cloud>>

FailDestroy(d) ==
    /\ At(d, "fail")
    /\ Save(d, [mem[d] EXCEPT !.status = "failed-destroy"],
            "leave-failed", "leave-failed")
    /\ UNCHANGED <<phase, cloud>>

Destroy(d) ==
    \/ Resolve(d) \/ Confirm(d) \/ Decline(d)
    \/ Begin(d) \/ TerraformDestroy(d)
    \/ \E ok \in BOOLEAN : LoadRunner(d, ok) \/ TerraformInit(d, ok)
    \/ Revoke(d) \/ RevokeFails(d)
    \/ ArchiveMeta(d) \/ ArchiveLogs(d) \/ RemoveFiles(d) \/ RemoveDir(d)
    \/ ArchiveFails(d) \/ FailDestroy(d)

Runs(p) == Write(p) \/ OpenLock(p) \/ Flock(p) \/ Leave(p)

Next ==
    \/ Launch \/ Terraform
    \/ \E d \in Destroyers : Destroy(d)
    \/ \E p \in Procs : Runs(p) \/ WriteFails(p) \/ Crash(p)

Spec == Init /\ [][Next]_vars

\* What only the operator or the machine can do to a destroy.
Setback == \E d \in Destroyers :
    Decline(d) \/ LoadRunner(d, FALSE) \/ ArchiveFails(d) \/ Crash(d)

\* Nothing in the code bounds the wait for a VM that has gone silent or for
\* terraform: who hangs there is killed in the end (Crash, ChildKilled), if only
\* by an operator who wants the session gone, and everyone else runs on.  The
\* operator runs destroy again after every failure; setbacks stop some time, and
\* terraform and the key provider do not fail for ever.
Fairness ==
    /\ WF_vars(Launch \/ Runs(Launcher) \/ Crash(Launcher))
    /\ WF_vars(Terraform)
    /\ SF_vars(DestroyDeletes)
    /\ SF_vars(DestroyEnds(TRUE) /\ \E d \in Destroyers : pc[d] = "destroying")
    /\ \A d \in Destroyers :
        /\ WF_vars(Destroy(d) \/ Runs(d))
        /\ SF_vars(TerraformInit(d, TRUE))
        /\ SF_vars(Revoke(d))
    /\ <>[][~Setback]_vars

FairSpec == Spec /\ Fairness

----
(* Properties. *)

\* Types of the variables; in particular no process works on a copy of the
\* metadata that it did not parse from a whole file.
TypeOK ==
    /\ opt \in SUBSET Features
    /\ phase \in Phases \cup {"session"}
    /\ dir \in BOOLEAN /\ logs \in BOOLEAN /\ archived \in BOOLEAN
    /\ lockfile \in Nat /\ inodes \in Nat
    /\ meta \in Metadata \cup {None, Torn}
    /\ vm \in {"none", "untracked", "tracked"}
    /\ stack \in BOOLEAN
    /\ child \in {"none", "apply", "destroy"}
    /\ key \in {"none", "minted", "recorded", "revoked"}
    /\ pc \in [Procs -> Steps]
    /\ mem \in [Procs -> Metadata]
    /\ saving \in [Procs -> BOOLEAN]
    /\ fd \in [Procs -> Nat]
    /\ locked \in [Procs -> BOOLEAN]

\* While terraform can still run in the session (its logs directory exists)
\* at most one CLI process is inside Session.Lock, although RemoveAll unlinks
\* the .lock file itself and a waiting process may hold its old inode.
LockExclusive ==
    logs => \A p, q \in Procs : locked[p] /\ locked[q] => p = q

\* A VM that terraform knows, or may be creating, always belongs to a session
\* that list shows and destroy can read: metadata.json is whole, or a running
\* process is about to complete it.
BilledIsListed ==
    vm = "tracked" \/ child = "apply" =>
        /\ dir /\ logs
        /\ Readable(meta) \/ \E p \in Procs : saving[p]

\* A session listed as ready is one that was handed over whole: VM,
\* containers, address, URL and, if the launch minted a key, its live handle.
ReadyComplete ==
    Readable(meta) /\ meta.status = "ready" =>
        /\ vm = "tracked" /\ stack
        /\ meta.ip /\ meta.url
        /\ "ai" \in opt => meta.hash /\ key = "recorded"

\* A destroy that exits with success has left nothing behind: the metadata is
\* archived, the directory gone, and no VM that terraform knew is running.
SuccessMeansGone ==
    \A d \in Destroyers : pc[d] = "ok" => archived /\ ~dir /\ vm # "tracked"

\* A destroy that exits with success has revoked the key whose handle the
\* launch persisted.
KeyRevoked ==
    \A d \in Destroyers : pc[d] = "ok" => key # "recorded"

\* Until the key is revoked its handle is in metadata.json, or in the copy a
\* running process is writing there.
KeyIsListed ==
    key = "recorded" =>
        \/ Readable(meta) /\ meta.hash
        \/ \E p \in Procs : saving[p] /\ mem[p].hash

\* A launch that returns an error after it has locked the session has
\* recorded the failure.
LaunchFailureRecorded ==
    pc[Launcher] = "failed" /\ Readable(meta) => meta.status # "launching"

\* A write of metadata.json was cut off, and no other is under way.
CutOff == meta = Torn /\ \A p \in Procs : ~saving[p]

\* A session that destroy can read is archived in the end, however often
\* commands fail or crash on the way and are run again, or else a save that was
\* cut off has put it out of reach.
DestroyConverges == Readable(meta) ~> (archived \/ CutOff)

\* A VM that terraform knows is gone in the end, unless its session is lost in
\* the same way.
BillingEnds == vm = "tracked" ~> (vm # "tracked" \/ CutOff)

----
(* The life cycle a session goes through, as seen from its status.         *)

\* While a process is rewriting metadata.json its new status already counts.
Status ==
    IF archived THEN "archived"
    ELSE IF meta = None THEN "absent"
    ELSE IF meta = Torn THEN mem[CHOOSE p \in Procs : saving[p]].status
    ELSE meta.status

Lifecycle == INSTANCE SessionLifecycle WITH
    status <- Status, billed <- vm = "tracked", keyed <- key = "recorded"

\* Every run of the processes is a run of the abstract life cycle.
FollowsLifecycle == Lifecycle!Spec
====
