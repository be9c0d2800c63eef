---- MODULE LocalSession ----
(***************************************************************************)
(* Local sessions: `interview launch` with the local provider and the      *)
(* `interview destroy` of its sessions, on one machine.  A session is      *)
(* named by the launch that creates it.  All share the docker engine and   *)
(* the one gateway port, so their launches meet in liveLocalSession and in *)
(* compose up.                                                             *)
(*                                                                         *)
(* metadata.json is truncated and then written, as in CloudSession, because *)
(* session.List skips a torn one.  The rest of the directory protocol is   *)
(* CloudSession's: here Lock is one step and Archive is one step.  Memory  *)
(* is forgotten when a process ends.  A process may be killed anywhere: in *)
(* a save, which leaves the file torn, or while docker or kind runs, whose *)
(* command may then go on without it.                                      *)
(***************************************************************************)
EXTENDS Naturals, FiniteSets

CONSTANTS
    Launchers,   \* launch processes; each creates one session at most
    Destroyers,  \* destroy processes; each may be run again once it ends
    Options,     \* what the launches may use: functions to {"kind", "setup", "ai"}
    Crashes,     \* TRUE: a process may be killed, wherever it is
    MaxStarted,  \* bound: how many of the processes are ever started
    Reread,      \* bound: FALSE: a session read early is not read again
    None,        \* no metadata.json, no lock holder, no target
    Torn         \* metadata.json is not a JSON document

ASSUME ProcsAssumption == Launchers \cap Destroyers = {}
ASSUME OptionsAssumption ==
    Options \subseteq [Launchers -> SUBSET {"kind", "setup", "ai"}]
ASSUME SwitchAssumption == Crashes \in BOOLEAN /\ Reread \in BOOLEAN
ASSUME BoundAssumption == MaxStarted \in Nat

Procs == Launchers \cup Destroyers

ASSUME NoneAssumption == None \notin Procs

VARIABLES
    opt,       \* launch to what it uses
    phase,     \* launch to the phase SetPhase has written last
    meta,      \* session to the content of its metadata.json
    holder,    \* session to the process inside its Lock
    archived,  \* session to whether it has been archived
    cluster,   \* session to whether its kind cluster exists
    compose,   \* session to its containers: "none", "some", or "up" on the port
    key,       \* session to its API key: "none", "minted", "recorded", "revoked"
    pc,        \* what each process does next
    target,    \* destroy to the session it works on
    mem,       \* each process's copy of the metadata
    saving,    \* the process has truncated metadata.json and not yet written it
    orphan,    \* session to the commands that outlived the process that ran them
    early      \* history: whether a destroy has read the session too early

docker == <<cluster, compose>>
local  == <<target, mem, saving>>
aside  == <<orphan, early>>
vars   == <<opt, phase, meta, holder, archived, docker, key, pc, local, aside>>

----
Statuses == {"launching", "ready", "failed", "destroying", "failed-destroy"}

Metadata == [status : Statuses, kind : BOOLEAN, url : BOOLEAN, hash : BOOLEAN]

NewMeta == [status |-> "launching", kind |-> FALSE, url |-> FALSE, hash |-> FALSE]

ASSUME MetaAssumption == None # Torn /\ None \notin Metadata /\ Torn \notin Metadata

\* Seeded fault: a file that is not JSON is taken for metadata.
BadReadable(l) == meta[l] # None

Readable(l) == meta[l] # None /\ meta[l] # Torn

Phases == {"stage", "create-cluster", "ai-mint", "compose-up", "setup", "summary"}

AfterCluster(l) == IF "ai" \in opt[l] THEN "ai-mint" ELSE "compose-up"

AfterStage(l) == IF "kind" \in opt[l] THEN "create-cluster" ELSE AfterCluster(l)

AfterUp(l) == IF "setup" \in opt[l] THEN "setup" ELSE "summary"

\* The steps at which a process waits for a docker or kind command, and those of
\* them that make something.
Making   == {"create-cluster", "compose-up"}
Commands == Making \cup {"delete-cluster", "compose-down"}

\* Not started, ended with success, ended in any other way.
Resting == {"idle", "ok", "over"}

Steps ==
    Resting \cup Phases \cup {"new", "record", "lock", "images", "mint-save", "url"}
        \cup {"load", "begin", "delete-cluster", "compose-down", "revoke",
              "archive"} \cup {"fail", "leave-ok", "leave-failed"}

Init ==
    /\ opt \in Options
    /\ phase = [l \in Launchers |-> "session"]
    /\ meta = [l \in Launchers |-> None]
    /\ holder = [l \in Launchers |-> None]
    /\ archived = [l \in Launchers |-> FALSE]
    /\ cluster = [l \in Launchers |-> FALSE]
    /\ compose = [l \in Launchers |-> "none"]
    /\ key = [l \in Launchers |-> "none"]
    /\ pc = [p \in Procs |-> "idle"]
    /\ target = [d \in Destroyers |-> None]
    /\ mem = [p \in Procs |-> NewMeta]
    /\ saving = [p \in Procs |-> FALSE]
    /\ orphan = [l \in Launchers |-> {}]
    /\ early = [l \in Launchers |-> FALSE]

----
(* Steps the two kinds of process share. *)

MayStart(p) ==
    pc[p] # "idle" \/ Cardinality({q \in Procs : pc[q] # "idle"}) < MaxStarted

Session(p) == IF p \in Launchers THEN p ELSE target[p]

At(p, s) == pc[p] = s /\ ~saving[p]

Goto(p, s) == pc' = [pc EXCEPT ![p] = s]

\* Session.Save of m: truncated here, written by Write.
Save(p, m, next) ==
    /\ meta' = [meta EXCEPT ![Session(p)] = Torn]
    /\ mem' = [mem EXCEPT ![p] = m]
    /\ saving' = [saving EXCEPT ![p] = TRUE]
    /\ Goto(p, next)
    /\ UNCHANGED <<opt, holder, archived, docker, target, aside>>

\* What is written after the directory was archived is nobody's.
Write(p) ==
    /\ saving[p]
    /\ meta' = [meta EXCEPT ![Session(p)] = IF archived[Session(p)] THEN None ELSE mem[p]]
    /\ saving' = [saving EXCEPT ![p] = FALSE]
    /\ key' = IF mem[p].hash /\ key[Session(p)] = "minted"
              THEN [key EXCEPT ![Session(p)] = "recorded"] ELSE key
    /\ UNCHANGED <<opt, phase, holder, archived, docker, pc, target, mem, aside>>

\* The process ends: its lock goes with it, and what it had in memory.  Which
\* session it was about is kept when it succeeded, for DestroyLeavesNothing.
End(p, result) ==
    /\ holder' = [l \in Launchers |-> IF holder[l] = p THEN None ELSE holder[l]]
    /\ Goto(p, result)
    /\ mem' = [mem EXCEPT ![p] = NewMeta]
    /\ saving' = [saving EXCEPT ![p] = FALSE]
    /\ phase' = [l \in Launchers |-> IF l = p THEN "session" ELSE phase[l]]
    /\ target' = [d \in Destroyers |->
          IF d = p /\ result # "ok" THEN None ELSE target[d]]
    /\ UNCHANGED <<opt, meta, archived, docker, key, early>>

\* Session.Lock: taken, or refused as busy or because the directory is gone.
Lock(p) ==
    /\ At(p, "lock")
    /\ holder[Session(p)] = None /\ ~archived[Session(p)]
    /\ holder' = [holder EXCEPT ![Session(p)] = p]
    /\ Goto(p, IF p \in Launchers THEN "images" ELSE "load")
    /\ UNCHANGED <<opt, phase, meta, archived, docker, key, local, aside>>

LockFails(p) ==
    /\ At(p, "lock")
    /\ holder[Session(p)] # None \/ archived[Session(p)]
    /\ End(p, "over")
    /\ UNCHANGED orphan

Leave(p) ==
    /\ pc[p] \in {"leave-ok", "leave-failed"} /\ ~saving[p]
    /\ End(p, IF pc[p] = "leave-ok" THEN "ok" ELSE "over")
    /\ UNCHANGED orphan

\* The command p is waiting for; a launch saves its phase before it runs one.
Command(p) ==
    {c \in Commands : At(p, c) /\ (p \in Launchers => phase[p] = c)}

\* p is killed, in a save or outside: the file is then as it is.  Go kills a
\* child only by its context, so that a command of p's may go on.
Crash(p) ==
    /\ Crashes
    /\ pc[p] \notin Resting
    /\ End(p, "over")
    /\ \E left \in SUBSET Command(p) :
          orphan' = [l \in Launchers |->
              IF l = Session(p) THEN orphan[l] \cup left ELSE orphan[l]]

----
(* What the commands do to docker. *)

\* Nobody else's gateway is bound to the port.
PortFree(l) == \A m \in Launchers \ {l} : compose[m] # "up"

\* kind create, kubectl apply, kubeconfig: a failure after the first of them
\* leaves the cluster.
KindCreate(l) == cluster' = [cluster EXCEPT ![l] = TRUE] /\ UNCHANGED compose

\* kind delete cluster; an absent cluster is no error.
KindDelete(l, ok) ==
    /\ cluster' = [cluster EXCEPT ![l] = ~ok /\ @]
    /\ UNCHANGED compose

\* docker compose up --wait: without the port, or with a container that does
\* not get healthy, it fails and leaves what it has created.
Up(l, ok) ==
    /\ ok => PortFree(l)
    /\ compose' = [compose EXCEPT ![l] = IF ok THEN "up" ELSE "some"]
    /\ UNCHANGED cluster

\* docker compose down -v of the project; one that fails stops some of it.
Down(l, ok) ==
    /\ compose' = [compose EXCEPT ![l] = IF ok \/ @ = "none" THEN "none" ELSE "some"]
    /\ UNCHANGED cluster

\* A command without its process does what it would have done, or dies first.
Orphan(l) ==
    /\ \E c \in orphan[l], ok \in BOOLEAN :
          /\ orphan' = [orphan EXCEPT ![l] = @ \ {c}]
          /\ \/ UNCHANGED docker
             \/ c = "create-cluster" /\ KindCreate(l)
             \/ c = "compose-up" /\ Up(l, ok)
             \/ c = "delete-cluster" /\ KindDelete(l, ok)
             \/ c = "compose-down" /\ Down(l, ok)
    /\ UNCHANGED <<opt, phase, meta, holder, archived, key, pc, local, early>>

----
(* runLocalLaunch. *)

\* liveLocalSession finds no session that can be read; the host binaries of a
\* kind bundle are there.
Check(l) ==
    /\ At(l, "idle") /\ MayStart(l)
    /\ \A m \in Launchers : ~Readable(m)
    /\ Goto(l, "new")
    /\ UNCHANGED <<opt, phase, meta, holder, archived, docker, key, local, aside>>

\* It finds one, or gateKindHostBins misses a binary.
Refused(l) ==
    /\ At(l, "idle") /\ MayStart(l)
    /\ "kind" \in opt[l] \/ \E m \in Launchers : Readable(m)
    /\ Goto(l, "over")
    /\ UNCHANGED <<opt, phase, meta, holder, archived, docker, key, local, aside>>

\* newLocalSession: session.New, then a second save with the bundle.
New(l) ==
    /\ At(l, "new")
    /\ Save(l, NewMeta, "record")
    /\ UNCHANGED <<phase, key>>

Record(l) ==
    /\ At(l, "record")
    /\ ~archived[l]
    /\ Save(l, [NewMeta EXCEPT !.kind = "kind" \in opt[l]], "lock")
    /\ UNCHANGED <<phase, key>>

\* A destroy has already archived the directory: the save finds no place.
RecordFails(l) ==
    /\ At(l, "record")
    /\ archived[l]
    /\ Goto(l, "over")
    /\ UNCHANGED <<opt, phase, meta, holder, archived, docker, key, local, aside>>

\* resolveAndValidateImages runs inside the lock.
Images(l, ok) ==
    /\ At(l, "images")
    /\ Goto(l, IF ok THEN "stage" ELSE "fail")
    /\ UNCHANGED <<opt, phase, meta, holder, archived, docker, key, local, aside>>

SetPhase(l) ==
    /\ pc[l] \in Phases /\ ~saving[l]
    /\ phase[l] # pc[l]
    /\ phase' = [phase EXCEPT ![l] = pc[l]]
    /\ Save(l, mem[l], pc[l])
    /\ UNCHANGED key

Working(l, ph) == At(l, ph) /\ phase[l] = ph

PhaseFails(l) ==
    /\ pc[l] \in Phases /\ Working(l, pc[l])
    /\ Goto(l, "fail")
    /\ UNCHANGED <<opt, phase, meta, holder, archived, docker, key, local, aside>>

Stage(l) ==
    /\ Working(l, "stage")
    /\ Goto(l, AfterStage(l))
    /\ UNCHANGED <<opt, phase, meta, holder, archived, docker, key, local, aside>>

CreateCluster(l, ok) ==
    /\ Working(l, "create-cluster")
    /\ KindCreate(l)
    /\ Goto(l, IF ok THEN AfterCluster(l) ELSE "fail")
    /\ UNCHANGED <<opt, phase, meta, holder, archived, key, local, aside>>

Mint(l) ==
    /\ Working(l, "ai-mint")
    /\ key' = [key EXCEPT ![l] = "minted"]
    /\ Goto(l, "mint-save")
    /\ UNCHANGED <<opt, phase, meta, holder, archived, docker, local, aside>>

MintSave(l) ==
    /\ At(l, "mint-save")
    /\ Save(l, [mem[l] EXCEPT !.hash = TRUE], "compose-up")
    /\ UNCHANGED <<phase, key>>

\* Seeded fault: docker's exit status is not looked at.
HopefulComposeUp(l, ok) ==
    /\ Working(l, "compose-up")
    /\ Up(l, ok)
    /\ Goto(l, "url")
    /\ UNCHANGED <<opt, phase, meta, holder, archived, key, local, aside>>

ComposeUp(l, ok) ==
    /\ Working(l, "compose-up")
    /\ Up(l, ok)
    /\ Goto(l, IF ok THEN "url" ELSE "fail")
    /\ UNCHANGED <<opt, phase, meta, holder, archived, key, local, aside>>

SetURL(l) ==
    /\ At(l, "url")
    /\ Save(l, [mem[l] EXCEPT !.url = TRUE], AfterUp(l))
    /\ UNCHANGED <<phase, key>>

Setup(l) ==
    /\ Working(l, "setup")
    /\ Goto(l, "summary")
    /\ UNCHANGED <<opt, phase, meta, holder, archived, docker, key, local, aside>>

MarkReady(l) ==
    /\ Working(l, "summary")
    /\ Save(l, [mem[l] EXCEPT !.status = "ready"], "leave-ok")
    /\ UNCHANGED <<phase, key>>

FailLaunch(l) ==
    /\ At(l, "fail")
    /\ Save(l, [mem[l] EXCEPT !.status = "failed"], "leave-failed")
    /\ UNCHANGED <<phase, key>>

Launch(l) ==
    \/ Check(l) \/ Refused(l) \/ New(l) \/ Record(l) \/ RecordFails(l)
    \/ SetPhase(l) \/ PhaseFails(l) \/ Stage(l)
    \/ \E ok \in BOOLEAN : Images(l, ok) \/ CreateCluster(l, ok) \/ ComposeUp(l, ok)
    \/ Mint(l) \/ MintSave(l) \/ SetURL(l) \/ Setup(l) \/ MarkReady(l) \/ FailLaunch(l)

----
(* runLocalDestroy. *)

\* resolveSession, before the prompt and the lock: the copy everything below
\* works on.  It is early when the launch, or a command it left, is under way.
Resolve(d, l) ==
    /\ pc[d] \in Resting /\ MayStart(d)
    /\ Readable(l)
    /\ early[l] => Reread
    /\ early' = [early EXCEPT ![l] =
          @ \/ pc[l] \notin Resting \/ orphan[l] \cap Making # {}]
    /\ target' = [target EXCEPT ![d] = l]
    /\ mem' = [mem EXCEPT ![d] = meta[l]]
    /\ Goto(d, "lock")
    /\ UNCHANGED <<opt, phase, meta, holder, archived, docker, key, saving, orphan>>

Load(d, ok) ==
    /\ At(d, "load")
    /\ Goto(d, IF ok THEN "begin" ELSE "leave-failed")
    /\ UNCHANGED <<opt, phase, meta, holder, archived, docker, key, local, aside>>

Begin(d) ==
    /\ At(d, "begin")
    /\ Save(d, [mem[d] EXCEPT !.status = "destroying"],
            IF mem[d].kind THEN "delete-cluster" ELSE "compose-down")
    /\ UNCHANGED <<phase, key>>

\* Seeded fault: the cluster of a destroy that is run again is taken for gone.
ForgetfulDeleteCluster(d, ok) ==
    /\ At(d, "delete-cluster")
    /\ KindDelete(target[d], ok)
    /\ Goto(d, "compose-down")
    /\ UNCHANGED <<opt, phase, meta, holder, archived, key, local, aside>>

DeleteCluster(d, ok) ==
    /\ At(d, "delete-cluster")
    /\ KindDelete(target[d], ok)
    /\ Goto(d, IF ok THEN "compose-down" ELSE "fail")
    /\ UNCHANGED <<opt, phase, meta, holder, archived, key, local, aside>>

\* Seeded fault: docker's exit status is not looked at.
HopefulComposeDown(d, ok) ==
    /\ At(d, "compose-down")
    /\ Down(target[d], ok)
    /\ Goto(d, "revoke")
    /\ UNCHANGED <<opt, phase, meta, holder, archived, key, local, aside>>

ComposeDown(d, ok) ==
    /\ At(d, "compose-down")
    /\ Down(target[d], ok)
    /\ Goto(d, IF ok THEN "revoke" ELSE "fail")
    /\ UNCHANGED <<opt, phase, meta, holder, archived, key, local, aside>>

\* revokeAIKey goes by the copy's hash.
Revoke(d) ==
    LET l == target[d]
    IN  /\ At(d, "revoke")
        /\ key' = IF mem[d].hash THEN [key EXCEPT ![l] = "revoked"] ELSE key
        /\ Goto(d, "archive")
        /\ UNCHANGED <<opt, phase, meta, holder, archived, docker, local, aside>>

RevokeFails(d) ==
    /\ At(d, "revoke")
    /\ mem[d].hash
    /\ Goto(d, "fail")
    /\ UNCHANGED <<opt, phase, meta, holder, archived, docker, key, local, aside>>

Archive(d) ==
    LET l == target[d]
    IN  /\ At(d, "archive")
        /\ meta' = [meta EXCEPT ![l] = None]
        /\ archived' = [archived EXCEPT ![l] = TRUE]
        /\ Goto(d, "leave-ok")
        /\ UNCHANGED <<opt, phase, holder, docker, key, local, aside>>

FailDestroy(d) ==
    /\ At(d, "fail")
    /\ Save(d, [mem[d] EXCEPT !.status = "failed-destroy"], "leave-failed")
    /\ UNCHANGED <<phase, key>>

Destroy(d) ==
    \/ \E l \in Launchers : Resolve(d, l)
    \/ Begin(d) \/ Revoke(d) \/ RevokeFails(d) \/ Archive(d) \/ FailDestroy(d)
    \/ \E ok \in BOOLEAN : Load(d, ok) \/ DeleteCluster(d, ok) \/ ComposeDown(d, ok)

Next ==
    \/ \E l \in Launchers : Launch(l)
    \/ \E d \in Destroyers : Destroy(d)
    \/ \E l \in Launchers : Orphan(l)
    \/ \E p \in Procs : Write(p) \/ Lock(p) \/ LockFails(p) \/ Leave(p) \/ Crash(p)

Spec == Init /\ [][Next]_vars

----
(* Properties. *)

\* Types of the variables; no process takes a torn file for metadata.
TypeOK ==
    /\ opt \in Options
    /\ phase \in [Launchers -> Phases \cup {"session"}]
    /\ meta \in [Launchers -> Metadata \cup {None, Torn}]
    /\ holder \in [Launchers -> Procs \cup {None}]
    /\ archived \in [Launchers -> BOOLEAN]
    /\ cluster \in [Launchers -> BOOLEAN]
    /\ compose \in [Launchers -> {"none", "some", "up"}]
    /\ key \in [Launchers -> {"none", "minted", "recorded", "revoked"}]
    /\ pc \in [Procs -> Steps]
    /\ target \in [Destroyers -> Launchers \cup {None}]
    /\ mem \in [Procs -> Metadata]
    /\ saving \in [Procs -> BOOLEAN]
    /\ orphan \in [Launchers -> SUBSET Commands]
    /\ early \in [Launchers -> BOOLEAN]

Saved(l) == \E p \in Procs : saving[p] /\ Session(p) = l

\* session.List finds it, or will at the end of the save under way.
Listed(l) == Readable(l) \/ Saved(l)

\* A process was killed in its save, and no other save is under way.
CutOff(l) == meta[l] = Torn /\ ~Saved(l)

\* Two launches may both get past liveLocalSession, but a session listed as
\* ready has its whole stack, and with it the one gateway port, whoever is
\* killed and whatever docker still does for him.
ReadyServes ==
    \A l \in Launchers : ~early[l] /\ Readable(l) /\ meta[l].status = "ready" =>
        /\ compose[l] = "up" /\ meta[l].url /\ PortFree(l)
        /\ "kind" \in opt[l] => cluster[l]
        /\ "ai" \in opt[l] => meta[l].hash /\ key[l] = "recorded"

\* What a launch has left in docker, or what its docker or kind command makes
\* after it was killed, belongs to a session that destroy can find; but a
\* session cut off is in no list, and a destroy that reads one early may archive
\* what it does not know of.
DockerIsListed ==
    \A l \in Launchers : ~early[l] /\ (cluster[l] \/ compose[l] # "none") =>
        Listed(l) \/ CutOff(l)

\* A destroy that exits with success has removed the cluster, the containers
\* and the key of its session, and no command of a killed process brings them
\* back, provided that no destroy read the session early: before its launch, and
\* what that had running, was done.
DestroyLeavesNothing ==
    \A d \in Destroyers : pc[d] = "ok" /\ ~early[target[d]] =>
        LET l == target[d]
        IN  /\ archived[l] /\ ~cluster[l]
            /\ compose[l] = "none" /\ key[l] # "recorded"

\* What the help text of launch says: one local session at a time.
OneLocalSession ==
    \A l, m \in Launchers : Readable(l) /\ Readable(m) => l = m
====
