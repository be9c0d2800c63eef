---- MODULE LocalSessionProofs ----
(***************************************************************************)
(* Theorems about LocalSession for any number of launches and destroys and *)
(* any crashes.  The inductive invariant says who may touch a session that *)
(* no destroy has read early: its launch until that ends, then the commands *)
(* the launch has left, then the destroy inside the session's lock, which   *)
(* works on a copy of the metadata that may be old.                        *)
(***************************************************************************)
EXTENDS LocalSession, TLAPS

LaunchSteps ==
    Resting \cup Phases \cup {"new", "record", "lock", "images", "mint-save", "url"}
        \cup {"fail", "leave-ok", "leave-failed"}

DestroySteps ==
    Resting \cup {"lock", "load", "begin", "delete-cluster", "compose-down", "revoke"}
        \cup {"archive", "fail", "leave-ok", "leave-failed"}

\* Where a process has its session's lock.
Inside == (LaunchSteps \cup DestroySteps) \ (Resting \cup {"new", "record", "lock"})

\* The launch of a session is over.
Ended(l) == pc[l] \in {"ok", "over"}

\* Which steps a process can be at; a destroy works on a session whose launch
\* has ended, or that was read early; only a destroy that has the lock rewrites
\* metadata.json.
StepInv ==
    /\ \A l \in Launchers : pc[l] \in LaunchSteps
    /\ \A d \in Destroyers :
        /\ pc[d] \in DestroySteps
        /\ pc[d] \notin {"idle", "over"} =>
              target[d] \in Launchers /\ (early[target[d]] \/ Ended(target[d]))
        /\ saving[d] => pc[d] \in {"delete-cluster", "compose-down", "leave-failed"}
    /\ \A l \in Launchers :
        /\ pc[l] \in {"idle", "new"} => early[l] \/ meta[l] = None
        /\ saving[l] => pc[l] \notin Resting \cup {"new"}

\* Who has a session's lock, and who is rewriting its metadata.json.
LockInv ==
    /\ \A p \in Procs : pc[p] \in Inside => holder[Session(p)] = p
    /\ \A p \in Procs : saving[p] => early[Session(p)] \/ meta[Session(p)] = Torn

\* The steps of a launch after its cluster, after compose up, and before mint.
Composed == {"url", "setup", "summary", "leave-ok"}
Clustered == Composed \cup {"ai-mint", "mint-save", "compose-up"}
BeforeKey ==
    {"idle", "new", "record", "lock", "images", "stage", "create-cluster", "ai-mint"}

\* What a launch has done by the step it is at, and what its copy says of that.
LaunchInv(l) ==
    ~Ended(l) =>
        /\ ~archived[l] /\ orphan[l] = {}
        /\ pc[l] \notin {"idle", "new"} /\ ~saving[l] => meta[l] = mem[l]
        /\ pc[l] \notin {"idle", "new", "record"} => (mem[l].kind <=> "kind" \in opt[l])
        /\ pc[l] \in {"idle", "new", "record"} => ~cluster[l] /\ compose[l] = "none"
        /\ cluster[l] \/ pc[l] = "create-cluster" => "kind" \in opt[l]
        /\ pc[l] \in Clustered /\ "kind" \in opt[l] => cluster[l]
        /\ pc[l] \in Composed => compose[l] = "up"
        /\ pc[l] \in Composed \ {"url"} => mem[l].url
        /\ pc[l] \in BeforeKey => key[l] = "none"
        /\ pc[l] = "mint-save" => key[l] = "minted"
        /\ pc[l] \in BeforeKey \cup {"mint-save"} => ~mem[l].hash
        /\ pc[l] \in Composed \cup {"compose-up"} /\ "ai" \in opt[l] => mem[l].hash
        /\ mem[l].hash => key[l] = "recorded" \/ (key[l] = "minted" /\ saving[l])
        /\ key[l] = "recorded" => mem[l].hash
        /\ mem[l].status = "ready" => pc[l] = "leave-ok"

\* The session l is listed as ready.
IsReady(l) == Readable(l) /\ meta[l].status = "ready"

Gone(l) == ~cluster[l] /\ compose[l] = "none" /\ key[l] # "recorded"

Serves(l) ==
    /\ compose[l] = "up" /\ meta[l].url
    /\ "kind" \in opt[l] => cluster[l]
    /\ "ai" \in opt[l] => meta[l].hash /\ key[l] = "recorded"

\* A command that makes something in docker has outlived its launch.
Made(l) == orphan[l] \cap Making # {}

\* The copy m of l's metadata names what a destroy of l would have to remove.
Names(m, l) ==
    /\ cluster[l] \/ "create-cluster" \in orphan[l] => m.kind
    /\ key[l] = "recorded" => m.hash
    /\ key[l] = "minted" => ~m.hash

\* What metadata.json says of docker and of the key.
SessionInv(l) ==
    /\ cluster[l] \/ compose[l] # "none" \/ Made(l) => meta[l] # None
    /\ Readable(l) => Names(meta[l], l)
    /\ IsReady(l) => Serves(l) /\ orphan[l] = {}
    /\ archived[l] => meta[l] = None /\ Gone(l)

\* Two gateways are never bound to the one port.
OnePort == \A l, m \in Launchers : compose[l] = "up" /\ compose[m] = "up" => l = m

\* The steps of a destroy after its first save.
Begun == {"delete-cluster", "compose-down", "revoke", "archive", "fail"}

\* What a destroy has removed by the step it is at, and what its copy names.
DestroyInv(d) ==
    LET l == target[d]
    IN  /\ pc[d] \notin Resting => Names(mem[d], l) /\ ~Made(l)
        /\ saving[d] => mem[d].status # "ready"
        /\ pc[d] \in Begun => ~IsReady(l)
        /\ pc[d] \in {"compose-down", "revoke", "archive"} => ~cluster[l]
        /\ pc[d] \in {"revoke", "archive"} => compose[l] = "none"
        /\ pc[d] = "archive" => key[l] # "recorded"
        /\ pc[d] \in {"leave-ok", "ok"} => archived[l]
        /\ pc[d] \in Inside /\ archived[l] => pc[d] = "leave-ok"

----
(* Steps, process by process. *)

\* A step of the process p.
Acts(p) ==
    \/ p \in Launchers /\ Launch(p)
    \/ p \in Destroyers /\ Destroy(p)
    \/ Write(p) \/ Lock(p) \/ LockFails(p) \/ Leave(p) \/ Crash(p)

\* Every step is a step of one process, or of a command without its process.
LEMMA OneActs == Next => (\E p \in Procs : Acts(p)) \/ \E l \in Launchers : Orphan(l)
BY DEF Next, Procs, Acts

\* Metadata with one field changed is metadata.
LEMMA MetadataFields ==
    /\ NewMeta \in Metadata
    /\ \A m \in Metadata :
        /\ \A b \in BOOLEAN : [m EXCEPT !.kind = b] \in Metadata
        /\ [m EXCEPT !.url = TRUE] \in Metadata
        /\ [m EXCEPT !.hash = TRUE] \in Metadata
        /\ \A s \in Statuses : [m EXCEPT !.status = s] \in Metadata
BY DEF NewMeta, Metadata, Statuses

\* Save keeps the types of what it changes.
LEMMA SaveType ==
    ASSUME TypeOK, NEW p \in Procs, NEW m \in Metadata, NEW next \in Steps,
           Save(p, m, next), key' = key, phase' \in [Launchers -> Phases \cup {"session"}]
    PROVE  TypeOK'
BY DEF TypeOK, Save, Goto, docker, aside

\* So does the end of a process.
LEMMA EndType ==
    ASSUME TypeOK, NEW p \in Procs, NEW result \in Resting, End(p, result),
           orphan' \in [Launchers -> SUBSET Commands]
    PROVE  TypeOK'
<1>1. holder' \in [Launchers -> Procs \cup {None}]
  BY DEF TypeOK, End
<1>2. phase' \in [Launchers -> Phases \cup {"session"}]
  BY DEF TypeOK, End
<1>3. target' \in [Destroyers -> Launchers \cup {None}]
  BY DEF TypeOK, End
<1>4. pc' \in [Procs -> Steps] /\ mem' \in [Procs -> Metadata]
  BY MetadataFields DEF TypeOK, End, Goto, Steps
<1> QED
  BY <1>1, <1>2, <1>3, <1>4 DEF TypeOK, End, docker

\* A step that only moves a process.
LEMMA MoveType ==
    ASSUME TypeOK, NEW p \in Procs, NEW next \in Steps, Goto(p, next),
           UNCHANGED <<opt, phase, meta, holder, archived, cluster, compose, key>>,
           UNCHANGED <<target, mem, saving, orphan, early>>
    PROVE  TypeOK'
BY DEF TypeOK, Goto

\* No step of a launch breaks a type.
LEMMA LaunchType == ASSUME TypeOK, NEW l \in Launchers, Launch(l) PROVE TypeOK'
<1>a. /\ l \in Procs /\ mem[l] \in Metadata
      /\ Phases \cup {"new", "record", "lock", "mint-save", "url", "fail", "over",
                      "leave-ok", "leave-failed"} \subseteq Steps
      /\ AfterStage(l) \in Steps /\ AfterCluster(l) \in Steps /\ AfterUp(l) \in Steps
  BY DEF Procs, TypeOK, Steps, Resting, AfterStage, AfterCluster, AfterUp, Phases
<1>1. CASE Check(l)
  BY <1>1, <1>a, MoveType DEF Check, docker, local, aside
<1>2. CASE Refused(l) \/ RecordFails(l)
  BY <1>2, <1>a, MoveType DEF Refused, RecordFails, docker, local, aside
<1>3. CASE New(l)
  BY <1>3, <1>a, SaveType, MetadataFields DEF New, TypeOK
<1>4. CASE Record(l)
  <2>1. [NewMeta EXCEPT !.kind = "kind" \in opt[l]] \in Metadata
    <3>1. ("kind" \in opt[l]) = TRUE \/ ("kind" \in opt[l]) = FALSE
      OBVIOUS
    <3> QED
      BY <3>1, MetadataFields
  <2> QED
    BY <1>4, <1>a, <2>1, SaveType DEF Record, TypeOK
<1>5. CASE SetPhase(l)
  <2>1. phase' \in [Launchers -> Phases \cup {"session"}]
    BY <1>5 DEF SetPhase, TypeOK
  <2> QED
    BY <1>5, <1>a, <2>1, SaveType DEF SetPhase
<1>6. CASE PhaseFails(l)
  BY <1>6, <1>a, MoveType DEF PhaseFails, docker, local, aside
<1>7. CASE Stage(l)
  BY <1>7, <1>a, MoveType DEF Stage, docker, local, aside
<1>8. ASSUME NEW ok \in BOOLEAN, Images(l, ok) PROVE TypeOK'
  BY <1>8, <1>a, MoveType DEF Images, docker, local, aside, Phases
<1>9. ASSUME NEW ok \in BOOLEAN, CreateCluster(l, ok) PROVE TypeOK'
  BY <1>9, <1>a DEF CreateCluster, KindCreate, TypeOK, Goto, local, aside
<1>10. ASSUME NEW ok \in BOOLEAN, ComposeUp(l, ok) PROVE TypeOK'
  BY <1>10, <1>a DEF ComposeUp, Up, TypeOK, Goto, local, aside
<1>11. CASE Mint(l)
  BY <1>11, <1>a DEF Mint, TypeOK, Goto, docker, local, aside
<1>12. CASE MintSave(l)
  BY <1>12, <1>a, SaveType, MetadataFields DEF MintSave, TypeOK, Phases
<1>13. CASE SetURL(l)
  BY <1>13, <1>a, SaveType, MetadataFields DEF SetURL, TypeOK
<1>14. CASE Setup(l)
  BY <1>14, <1>a, MoveType DEF Setup, docker, local, aside, Phases
<1>15. CASE MarkReady(l)
  BY <1>15, <1>a, SaveType, MetadataFields DEF MarkReady, TypeOK, Statuses
<1>16. CASE FailLaunch(l)
  BY <1>16, <1>a, SaveType, MetadataFields DEF FailLaunch, TypeOK, Statuses
<1> QED
  BY <1>1, <1>2, <1>3, <1>4, <1>5, <1>6, <1>7, <1>8, <1>9, <1>10, <1>11, <1>12,
     <1>13, <1>14, <1>15, <1>16 DEF Launch

\* No step of a destroy breaks a type.
LEMMA DestroyType == ASSUME TypeOK, NEW d \in Destroyers, Destroy(d) PROVE TypeOK'
<1>a. /\ d \in Procs /\ mem[d] \in Metadata
      /\ {"lock", "begin", "delete-cluster", "compose-down", "revoke", "archive", "fail",
          "leave-ok", "leave-failed"} \subseteq Steps
  BY DEF Procs, TypeOK, Steps
<1>1. ASSUME NEW l \in Launchers, Resolve(d, l) PROVE TypeOK'
  BY <1>1, <1>a DEF Resolve, Readable, TypeOK, Goto, docker
<1>2. CASE Begin(d)
  BY <1>2, <1>a, SaveType, MetadataFields DEF Begin, TypeOK, Statuses
<1>3. CASE Revoke(d)
  BY <1>3, <1>a DEF Revoke, TypeOK, Goto, docker, local, aside
<1>4. CASE RevokeFails(d)
  BY <1>4, <1>a, MoveType DEF RevokeFails, docker, local, aside
<1>5. CASE Archive(d)
  BY <1>5, <1>a DEF Archive, TypeOK, Goto, docker, local, aside
<1>6. CASE FailDestroy(d)
  BY <1>6, <1>a, SaveType, MetadataFields DEF FailDestroy, TypeOK, Statuses
<1>7. ASSUME NEW ok \in BOOLEAN, Load(d, ok) PROVE TypeOK'
  BY <1>7, <1>a, MoveType DEF Load, docker, local, aside
<1>8. ASSUME NEW ok \in BOOLEAN, DeleteCluster(d, ok) PROVE TypeOK'
  BY <1>8, <1>a DEF DeleteCluster, KindDelete, TypeOK, Goto, local, aside
<1>9. ASSUME NEW ok \in BOOLEAN, ComposeDown(d, ok) PROVE TypeOK'
  BY <1>9, <1>a DEF ComposeDown, Down, TypeOK, Goto, local, aside
<1> QED
  BY <1>1, <1>2, <1>3, <1>4, <1>5, <1>6, <1>7, <1>8, <1>9 DEF Destroy

\* Nor does a step both kinds of process share.
LEMMA ActsType == ASSUME TypeOK, NEW p \in Procs, Acts(p) PROVE TypeOK'
<1>1. CASE Write(p)
  BY <1>1 DEF Write, TypeOK, docker, aside
<1>2. CASE Lock(p)
  BY <1>2 DEF Lock, TypeOK, Goto, docker, local, aside, Steps
<1>3. CASE LockFails(p) \/ Leave(p)
  BY <1>3, EndType DEF LockFails, Leave, Resting, TypeOK
<1>4. CASE Crash(p)
  <2>1. orphan' \in [Launchers -> SUBSET Commands]
    BY <1>4 DEF Crash, Command, TypeOK
  <2> QED
    BY <1>4, <2>1, EndType DEF Crash, Resting
<1> QED
  BY <1>1, <1>2, <1>3, <1>4, LaunchType, DestroyType DEF Acts

\* Nor does a command whose process is gone.
LEMMA OrphanType == ASSUME TypeOK, NEW l \in Launchers, Orphan(l) PROVE TypeOK'
<1>1. /\ UNCHANGED <<opt, phase, meta, holder, archived, key, pc, target, mem, saving, early>>
      /\ orphan' \in [Launchers -> SUBSET Commands]
  BY DEF Orphan, TypeOK, local
<1>2. PICK c \in orphan[l], ok \in BOOLEAN :
        \/ UNCHANGED docker \/ KindCreate(l) \/ Up(l, ok) \/ KindDelete(l, ok) \/ Down(l, ok)
  BY DEF Orphan
<1>3. cluster' \in [Launchers -> BOOLEAN] /\ compose' \in [Launchers -> {"none", "some", "up"}]
  BY <1>2 DEF KindCreate, KindDelete, Up, Down, TypeOK, docker
<1> QED
  BY <1>1, <1>3 DEF TypeOK

\* Every variable of LocalSession keeps its type, whatever launches and
\* destroys do and wherever they die.
THEOREM TypeCorrect == Spec => []TypeOK
<1>1. Init => TypeOK
  BY MetadataFields DEF Init, TypeOK, Steps, Resting
<1>2. TypeOK /\ [Next]_vars => TypeOK'
  <2>1. TypeOK /\ UNCHANGED vars => TypeOK'
    BY DEF TypeOK, vars, docker, local, aside
  <2> QED
    BY <2>1, OneActs, ActsType, OrphanType
<1> QED
  BY <1>1, <1>2, PTL DEF Spec

----
(* What a step leaves alone. *)

\* Nothing about the process q changes.
SameProcess(q) ==
    /\ pc'[q] = pc[q] /\ mem'[q] = mem[q] /\ saving'[q] = saving[q]
    /\ q \in Destroyers => target'[q] = target[q]

\* Nothing of the session l changes but its lock and the commands left there.
SameStore(l) ==
    /\ meta'[l] = meta[l] /\ archived'[l] = archived[l]
    /\ cluster'[l] = cluster[l] /\ compose'[l] = compose[l] /\ key'[l] = key[l]

SameSession(l) == SameStore(l) /\ orphan'[l] = orphan[l]

\* A step of p leaves the other processes alone, the other sessions too.
Frame(p) ==
    /\ opt' = opt
    /\ \A q \in Procs : q # p => SameProcess(q)
    /\ \A l \in Launchers : l # Session(p) => SameSession(l)

\* Save, seen variable by variable.
LEMMA SaveEffect ==
    ASSUME TypeOK, NEW p \in Procs, NEW m, NEW next, Save(p, m, next)
    PROVE  /\ pc'[p] = next /\ mem'[p] = m /\ saving'[p] = TRUE
           /\ Session(p) \in Launchers => meta'[Session(p)] = Torn
           /\ opt' = opt /\ holder' = holder /\ archived' = archived
           /\ cluster' = cluster /\ compose' = compose /\ target' = target
           /\ Session(p)' = Session(p) /\ orphan' = orphan /\ early' = early
           /\ key' = key => Frame(p)
<1>1. /\ target' = target /\ opt' = opt /\ cluster' = cluster /\ compose' = compose
      /\ orphan' = orphan /\ early' = early
  BY DEF Save, docker, aside
<1>2. Session(p)' = Session(p)
  BY <1>1 DEF Session
<1>3. \A q \in Procs : q # p => SameProcess(q)
  BY <1>1 DEF SameProcess, Save, Goto, TypeOK
<1>4. ASSUME key' = key, NEW l \in Launchers, l # Session(p) PROVE SameSession(l)
  BY <1>1, <1>4 DEF SameSession, SameStore, Save, TypeOK
<1>5. pc'[p] = next /\ mem'[p] = m /\ saving'[p] = TRUE
  BY DEF Save, Goto, TypeOK
<1>6. Session(p) \in Launchers => meta'[Session(p)] = Torn
  BY DEF Save, TypeOK
<1> QED
  BY <1>1, <1>2, <1>3, <1>4, <1>5, <1>6 DEF Save, Frame

\* The end of a process, seen variable by variable.
LEMMA EndEffect ==
    ASSUME TypeOK, NEW p \in Procs, NEW result, End(p, result)
    PROVE  /\ pc'[p] = result /\ mem'[p] = NewMeta /\ saving'[p] = FALSE /\ early' = early
           /\ p \in Destroyers /\ result = "ok" => target'[p] = target[p]
           /\ \A l \in Launchers : SameStore(l)
           /\ \A l \in Launchers : holder[l] # p => holder'[l] = holder[l]
           /\ opt' = opt /\ \A q \in Procs : q # p => SameProcess(q)
           /\ orphan' = orphan => Frame(p) /\ \A l \in Launchers : SameSession(l)
<1>1. /\ opt' = opt /\ meta' = meta /\ archived' = archived /\ early' = early
      /\ cluster' = cluster /\ compose' = compose /\ key' = key
  BY DEF End, docker
<1>2. \A d \in Destroyers : d # p \/ result = "ok" => target'[d] = target[d]
  BY DEF End
<1>3. \A q \in Procs : q # p => SameProcess(q)
  BY <1>1, <1>2 DEF SameProcess, End, Goto, TypeOK
<1>4. pc'[p] = result /\ mem'[p] = NewMeta /\ saving'[p] = FALSE
  BY DEF End, Goto, TypeOK
<1>5. \A l \in Launchers : SameStore(l)
  BY <1>1 DEF SameStore
<1>6. \A l \in Launchers : holder[l] # p => holder'[l] = holder[l]
  BY DEF End
<1>7. orphan' = orphan => \A l \in Launchers : SameSession(l)
  BY <1>5 DEF SameSession
<1> QED
  BY <1>1, <1>2, <1>3, <1>4, <1>5, <1>6, <1>7 DEF Frame

\* A process that is refused the lock or leaves it changes nothing else.
LEMMA LeaveEffect ==
    ASSUME TypeOK, NEW p \in Procs, LockFails(p) \/ Leave(p)
    PROVE  /\ Frame(p) /\ early' = early
           /\ \A l \in Launchers : SameSession(l)
BY EndEffect DEF LockFails, Leave

\* A process that is killed may leave the command it was waiting for.
LEMMA CrashEffect ==
    ASSUME TypeOK, NEW p \in Procs, Crash(p)
    PROVE  /\ End(p, "over") /\ Frame(p)
           /\ \A l \in Launchers :
                /\ SameStore(l)
                /\ \A c : c \in orphan'[l] =>
                      c \in orphan[l] \/ (l = Session(p) /\ c \in Command(p))
                /\ l # Session(p) \/ Command(p) = {} => SameSession(l)
<1>1. /\ End(p, "over") /\ opt' = opt /\ \A l \in Launchers : SameStore(l)
      /\ \A q \in Procs : q # p => SameProcess(q)
  BY EndEffect DEF Crash
<1>2. PICK left \in SUBSET Command(p) :
          orphan' = [l \in Launchers |->
              IF l = Session(p) THEN orphan[l] \cup left ELSE orphan[l]]
  BY DEF Crash
<1>3. ASSUME NEW l \in Launchers, NEW c, c \in orphan'[l]
      PROVE  c \in orphan[l] \/ (l = Session(p) /\ c \in Command(p))
  BY <1>2, <1>3
<1>4. ASSUME NEW l \in Launchers, l # Session(p) \/ Command(p) = {} PROVE SameSession(l)
  BY <1>1, <1>2, <1>4 DEF SameSession
<1> QED
  BY <1>1, <1>3, <1>4 DEF Frame

\* A step that only moves p.
LEMMA MoveEffect ==
    ASSUME TypeOK, NEW p \in Procs, NEW next, Goto(p, next),
           UNCHANGED <<opt, meta, archived, docker, key, local, aside>>
    PROVE  /\ pc'[p] = next /\ mem'[p] = mem[p] /\ saving'[p] = saving[p]
           /\ target' = target /\ early' = early
           /\ Frame(p) /\ \A l \in Launchers : SameSession(l)
BY DEF TypeOK, Goto, Frame, SameProcess, SameSession, SameStore, docker, local, aside

\* A launch only touches its own session.
LEMMA LaunchFrame == ASSUME TypeOK, NEW l \in Launchers, Launch(l) PROVE Frame(l)
<1>a. l \in Procs /\ Session(l) = l
  BY DEF Procs, Session
<1>b. (\E m, next : Save(l, m, next)) /\ key' = key => Frame(l)
  BY <1>a, SaveEffect
<1>c. (\E next : Goto(l, next)) /\ (UNCHANGED <<opt, meta, archived, docker, key, local, aside>>)
        => Frame(l)
  BY <1>a, MoveEffect
<1>1. CASE New(l) \/ Record(l) \/ SetPhase(l) \/ MintSave(l) \/ SetURL(l) \/ MarkReady(l)
             \/ FailLaunch(l)
  BY <1>1, <1>b DEF New, Record, SetPhase, MintSave, SetURL, MarkReady, FailLaunch
<1>2. CASE \/ Check(l) \/ Refused(l) \/ RecordFails(l) \/ PhaseFails(l) \/ Stage(l)
            \/ Setup(l)
  BY <1>2, <1>c DEF Check, Refused, RecordFails, PhaseFails, Stage, Setup
<1>3. ASSUME NEW ok \in BOOLEAN, Images(l, ok) PROVE Frame(l)
  BY <1>3, <1>c DEF Images
<1>4. ASSUME NEW ok \in BOOLEAN, CreateCluster(l, ok) PROVE Frame(l)
  BY <1>4, <1>a DEF CreateCluster, KindCreate, Frame, SameProcess,
     SameSession, SameStore, TypeOK, Goto, local, aside
<1>5. ASSUME NEW ok \in BOOLEAN, ComposeUp(l, ok) PROVE Frame(l)
  BY <1>5, <1>a DEF ComposeUp, Up, Frame, SameProcess,
     SameSession, SameStore, TypeOK, Goto, local, aside
<1>6. CASE Mint(l)
  BY <1>6, <1>a DEF Mint, Frame, SameProcess, SameSession,
     SameStore, TypeOK, Goto, docker, local, aside
<1> QED
  BY <1>1, <1>2, <1>3, <1>4, <1>5, <1>6 DEF Launch

\* A destroy only touches the session it works on.
LEMMA DestroyFrame == ASSUME TypeOK, NEW d \in Destroyers, Destroy(d) PROVE Frame(d)
<1>a. d \in Procs /\ Session(d) = target[d]
  BY ProcsAssumption DEF Procs, Session
<1>1. ASSUME NEW l \in Launchers, Resolve(d, l) PROVE Frame(d)
  BY <1>1, <1>a DEF Resolve, Frame, SameProcess, SameSession, SameStore, TypeOK, Goto, docker
<1>2. CASE Begin(d) \/ FailDestroy(d)
  BY <1>2, <1>a, SaveEffect DEF Begin, FailDestroy
<1>3. CASE RevokeFails(d)
  BY <1>3, <1>a, MoveEffect DEF RevokeFails
<1>4. CASE Revoke(d)
  BY <1>4, <1>a DEF Revoke, Frame, SameProcess, SameSession,
     SameStore, TypeOK, Goto, docker, local, aside
<1>5. CASE Archive(d)
  BY <1>5, <1>a DEF Archive, Frame, SameProcess, SameSession,
     SameStore, TypeOK, Goto, docker, local, aside
<1>6. ASSUME NEW ok \in BOOLEAN, Load(d, ok) PROVE Frame(d)
  BY <1>6, <1>a, MoveEffect DEF Load
<1>7. ASSUME NEW ok \in BOOLEAN, DeleteCluster(d, ok) PROVE Frame(d)
  BY <1>7, <1>a DEF DeleteCluster, KindDelete, Frame, SameProcess,
     SameSession, SameStore, TypeOK, Goto, local, aside
<1>8. ASSUME NEW ok \in BOOLEAN, ComposeDown(d, ok) PROVE Frame(d)
  BY <1>8, <1>a DEF ComposeDown, Down, Frame, SameProcess,
     SameSession, SameStore, TypeOK, Goto, local, aside
<1> QED
  BY <1>1, <1>2, <1>3, <1>4, <1>5, <1>6, <1>7, <1>8 DEF Destroy

\* The step of any process leaves the other processes and sessions alone.
LEMMA ActsFrame == ASSUME TypeOK, NEW p \in Procs, Acts(p) PROVE Frame(p)
<1>1. CASE Write(p)
  <2>1. opt' = opt /\ \A q \in Procs : q # p => SameProcess(q)
    BY <1>1 DEF Write, SameProcess, TypeOK
  <2>2. ASSUME NEW l \in Launchers, l # Session(p) PROVE SameSession(l)
    BY <1>1, <2>2 DEF Write, SameSession, SameStore, TypeOK, docker, aside
  <2> QED
    BY <2>1, <2>2 DEF Frame
<1>2. CASE Lock(p)
  BY <1>2, MoveEffect DEF Lock
<1>3. CASE LockFails(p) \/ Leave(p) \/ Crash(p)
  BY <1>3, LeaveEffect, CrashEffect
<1> QED
  BY <1>1, <1>2, <1>3, LaunchFrame, DestroyFrame DEF Acts

\* Only a destroy that reads a session can find it early; nothing undoes that.
LEMMA EarlyOnce ==
    ASSUME TypeOK, NEW p \in Procs, Acts(p)
    PROVE  /\ early' = early \/ \E m \in Launchers : p \in Destroyers /\ Resolve(p, m)
           /\ \A l \in Launchers : early[l] => early'[l]
<1>1. CASE p \in Launchers /\ Launch(p)
  BY <1>1 DEF Launch, Check, Refused, New, Record, RecordFails, SetPhase, PhaseFails, Stage,
     Images, CreateCluster, ComposeUp, Mint, MintSave, SetURL, Setup, MarkReady, FailLaunch,
     Save, aside
<1>2. CASE p \in Destroyers /\ Destroy(p)
  <2>1. ASSUME NEW m \in Launchers, Resolve(p, m)
        PROVE  \A l \in Launchers : early[l] => early'[l]
    BY <2>1 DEF Resolve, TypeOK
  <2>2. CASE ~\E m \in Launchers : Resolve(p, m)
    BY <1>2, <2>2 DEF Destroy, Begin, Revoke, RevokeFails, Archive, FailDestroy, Load,
       DeleteCluster, ComposeDown, Save, aside
  <2> QED
    BY <1>2, <2>1, <2>2
<1>3. CASE Write(p) \/ Lock(p)
  BY <1>3 DEF Write, Lock, aside
<1>4. CASE LockFails(p) \/ Leave(p) \/ Crash(p)
  BY <1>4 DEF LockFails, Leave, Crash, End
<1> QED
  BY <1>1, <1>2, <1>3, <1>4 DEF Acts

\* A command without its process changes docker at one session, and nothing else.
LEMMA OrphanEffect ==
    ASSUME TypeOK, NEW l \in Launchers, Orphan(l)
    PROVE  /\ UNCHANGED <<opt, phase, meta, holder, archived, key, pc, target, mem>>
           /\ saving' = saving /\ early' = early
           /\ \A m \in Launchers : m # l => SameSession(m)
           /\ orphan[l] # {} /\ orphan'[l] \subseteq orphan[l]
           /\ cluster'[l] => cluster[l] \/ "create-cluster" \in orphan[l]
           /\ compose'[l] # "none" => compose[l] # "none" \/ "compose-up" \in orphan[l]
           /\ compose'[l] = "up" => compose[l] = "up" \/ PortFree(l)
BY DEF Orphan, KindCreate, KindDelete, Up, Down, TypeOK, SameSession, SameStore, docker, local

----
(* Which steps the processes are at. *)

\* A launch that has ended does nothing more.
LEMMA EndedRests ==
    ASSUME TypeOK, StepInv, NEW l \in Launchers, Ended(l)
    PROVE  ~Acts(l)
<1>1. l \notin Destroyers /\ ~saving[l] /\ pc[l] \in {"ok", "over"}
  BY ProcsAssumption DEF StepInv, Ended, Resting
<1>2. ~Launch(l)
  BY <1>1 DEF Launch, Check, Refused, New, Record, RecordFails, SetPhase, PhaseFails, Stage, Images,
     CreateCluster, ComposeUp, Mint, MintSave, SetURL, Setup, MarkReady, FailLaunch, At,
     Working, Phases
<1>3. ~Write(l) /\ ~Lock(l) /\ ~LockFails(l) /\ ~Leave(l) /\ ~Crash(l)
  BY <1>1 DEF Write, Lock, LockFails, Leave, Crash, At, Resting
<1> QED
  BY <1>1, <1>2, <1>3 DEF Acts

\* Until its launch has ended nobody else touches a session, unless early.
LEMMA LaunchOwns ==
    ASSUME TypeOK, StepInv, NEW l \in Launchers, ~Ended(l), ~early[l],
           NEW p \in Procs, p # l, Acts(p)
    PROVE  SameSession(l) /\ SameProcess(l)
<1>1. l \in Procs /\ SameProcess(l)
  BY ActsFrame DEF Frame, Procs
<1>2. CASE Session(p) # l
  BY <1>1, <1>2, ActsFrame DEF Frame
<1>3. CASE Session(p) = l
  <2>1. p \in Destroyers /\ p \notin Launchers /\ target[p] = l
    BY <1>3, ProcsAssumption DEF Session, Procs
  <2>2. pc[p] \in {"idle", "over"} /\ ~saving[p]
    BY <2>1 DEF StepInv
  <2>3. Destroy(p)
    BY <2>1, <2>2 DEF Acts, Write, Lock, LockFails, Leave, Crash, At, Resting
  <2>4. PICK m \in Launchers : Resolve(p, m)
    BY <2>2, <2>3 DEF Destroy, Begin, Revoke, RevokeFails, Archive, FailDestroy, Load,
       DeleteCluster, ComposeDown, At
  <2> QED
    BY <1>1, <2>4 DEF Resolve, SameSession, SameStore, docker
<1> QED
  BY <1>2, <1>3

\* What StepInv says of one process.
LaunchAt(l) ==
    /\ pc[l] \in LaunchSteps
    /\ pc[l] \in {"idle", "new"} => early[l] \/ meta[l] = None
    /\ saving[l] => pc[l] \notin Resting \cup {"new"}

DestroyAt(d) ==
    /\ pc[d] \in DestroySteps
    /\ pc[d] \notin {"idle", "over"} =>
          target[d] \in Launchers /\ (early[target[d]] \/ Ended(target[d]))
    /\ saving[d] => pc[d] \in {"delete-cluster", "compose-down", "leave-failed"}

\* A launch goes from step to step.
LEMMA LaunchMoves ==
    ASSUME TypeOK, StepInv, NEW l \in Launchers, Acts(l)
    PROVE  LaunchAt(l)'
<1>a. l \in Procs /\ Session(l) = l /\ l \notin Destroyers
  BY ProcsAssumption DEF Procs, Session
<1>b. ASSUME NEW m, NEW next \in LaunchSteps \ (Resting \cup {"new"}), Save(l, m, next)
      PROVE  LaunchAt(l)'
  <2>1. pc'[l] = next
    BY <1>a, <1>b, SaveEffect
  <2> QED
    BY <2>1, <1>b DEF LaunchAt, Resting
<1>c. ASSUME NEW next \in LaunchSteps \ {"idle", "new"}, ~saving[l], Goto(l, next),
             saving' = saving
      PROVE  LaunchAt(l)'
  BY <1>a, <1>c DEF LaunchAt, Goto, TypeOK
<1>d. /\ Phases \subseteq LaunchSteps \ (Resting \cup {"new"})
      /\ {"record", "lock", "images", "mint-save", "url", "fail", "leave-ok", "leave-failed"}
            \subseteq LaunchSteps \ (Resting \cup {"new"})
      /\ {"ok", "over"} \subseteq LaunchSteps \ {"idle", "new"}
  BY DEF LaunchSteps, Phases, Resting
<1>e. AfterStage(l) \in Phases /\ AfterCluster(l) \in Phases /\ AfterUp(l) \in Phases
  BY DEF AfterStage, AfterCluster, AfterUp, Phases
<1>1. CASE Launch(l)
  <2>1. CASE New(l) \/ Record(l) \/ SetPhase(l) \/ MarkReady(l) \/ FailLaunch(l)
    BY <2>1, <1>b, <1>d DEF New, Record, SetPhase, MarkReady, FailLaunch
  <2>2. CASE MintSave(l) \/ SetURL(l)
    BY <2>2, <1>b, <1>d, <1>e DEF MintSave, SetURL, Phases
  <2>3. CASE Check(l)
    BY <2>3, <1>a DEF Check, LaunchAt, At, Goto, TypeOK, StepInv, local, aside, LaunchSteps
  <2>4. CASE Refused(l) \/ RecordFails(l) \/ PhaseFails(l) \/ Stage(l) \/ Setup(l)
    BY <2>4, <1>c, <1>d, <1>e DEF Refused, RecordFails, PhaseFails, Stage, Setup, Working, At, local, aside,
       Phases, Resting
  <2>5. ASSUME NEW ok \in BOOLEAN, Images(l, ok) PROVE LaunchAt(l)'
    BY <2>5, <1>c, <1>d DEF Images, At, local, aside, Phases, Resting
  <2>6. ASSUME NEW ok \in BOOLEAN, CreateCluster(l, ok) \/ ComposeUp(l, ok)
        PROVE  LaunchAt(l)'
    BY <2>6, <1>c, <1>d, <1>e DEF CreateCluster, ComposeUp, Working, At, local, aside, Phases,
       Resting
  <2>7. CASE Mint(l)
    BY <2>7, <1>c, <1>d DEF Mint, Working, At, local, aside, Resting
  <2> QED
    BY <1>1, <2>1, <2>2, <2>3, <2>4, <2>5, <2>6, <2>7 DEF Launch
<1>2. CASE Write(l)
  BY <1>2, <1>a DEF Write, LaunchAt, StepInv, TypeOK, Resting
<1>3. CASE Lock(l)
  BY <1>3, <1>a, <1>c, <1>d DEF Lock, At, local, aside, Resting
<1>4. CASE LockFails(l) \/ Leave(l) \/ Crash(l)
  <2>1. ASSUME NEW result \in {"ok", "over"}, End(l, result)
        PROVE  LaunchAt(l)'
    <3>1. pc'[l] = result /\ ~saving'[l]
      BY <2>1, <1>a, EndEffect
    <3> QED
      BY <2>1, <3>1, <1>d DEF LaunchAt
  <2> QED
    BY <1>4, <2>1 DEF LockFails, Leave, Crash
<1> QED
  BY <1>1, <1>2, <1>3, <1>4, <1>a DEF Acts

\* So does a destroy; a session whose launch has not ended it reads early.
LEMMA DestroyMoves ==
    ASSUME TypeOK, StepInv, NEW d \in Destroyers, Acts(d)
    PROVE  DestroyAt(d)'
<1>a. d \in Procs /\ Session(d) = target[d] /\ d \notin Launchers
  BY ProcsAssumption DEF Procs, Session
<1>b. \A l \in Launchers : Ended(l) => Ended(l)'
  BY <1>a, ActsFrame DEF Frame, SameProcess, Ended, Procs
<1>g. \A l \in Launchers : early[l] => early'[l]
  BY <1>a, EarlyOnce
<1>c. ASSUME NEW m, NEW next \in {"delete-cluster", "compose-down", "leave-failed"},
             Save(d, m, next), pc[d] \notin {"idle", "over"}
      PROVE  DestroyAt(d)'
  <2>1. target'[d] = target[d] /\ pc'[d] = next
    BY <1>a, <1>c, SaveEffect
  <2> QED
    BY <2>1, <1>b, <1>g, <1>c DEF DestroyAt, StepInv, DestroySteps
<1>d. ASSUME NEW next \in DestroySteps, ~saving[d], Goto(d, next),
             pc[d] \notin {"idle", "over"}, target' = target, saving' = saving
      PROVE  DestroyAt(d)'
  BY <1>a, <1>b, <1>g, <1>d DEF DestroyAt, StepInv, Goto, TypeOK
<1>e. {"lock", "load", "begin", "delete-cluster", "compose-down", "revoke", "archive", "fail",
       "leave-ok", "leave-failed", "ok", "over"} \subseteq DestroySteps
  BY DEF DestroySteps, Resting
<1>1. CASE Destroy(d)
  <2>1. ASSUME NEW l \in Launchers, Resolve(d, l) PROVE DestroyAt(d)'
    <3>1. pc'[d] = "lock" /\ target'[d] = l /\ ~saving'[d]
      BY <2>1, <1>a DEF Resolve, Goto, TypeOK, StepInv, Resting
    <3>2. early'[l] \/ Ended(l)
      <4>1. early'[l] \/ pc[l] \in Resting
        BY <2>1 DEF Resolve, TypeOK
      <4>2. pc[l] = "idle" => early[l]
        BY <2>1 DEF Resolve, Readable, StepInv
      <4> QED
        BY <4>1, <4>2, <1>g DEF Ended, Resting
    <3> QED
      BY <3>1, <3>2, <1>b, <1>g, <1>e DEF DestroyAt
  <2>2. CASE Begin(d)
    <3> DEFINE m == [mem[d] EXCEPT !.status = "destroying"]
               next == IF mem[d].kind THEN "delete-cluster" ELSE "compose-down"
    <3>1. Save(d, m, next) /\ pc[d] = "begin"
      BY <2>2 DEF Begin, At
    <3>2. next \in {"delete-cluster", "compose-down"}
      OBVIOUS
    <3> HIDE DEF m, next
    <3> QED
      BY <3>1, <3>2, <1>c
  <2>3. CASE FailDestroy(d)
    BY <2>3, <1>c DEF FailDestroy, At
  <2>4. CASE Revoke(d) \/ RevokeFails(d) \/ Archive(d)
    BY <2>4, <1>d, <1>e DEF Revoke, RevokeFails, Archive, At, local, aside
  <2>5. ASSUME NEW ok \in BOOLEAN, Load(d, ok) \/ DeleteCluster(d, ok) \/ ComposeDown(d, ok)
        PROVE  DestroyAt(d)'
    BY <2>5, <1>d, <1>e DEF Load, DeleteCluster, ComposeDown, At, local, aside
  <2> QED
    BY <1>1, <2>1, <2>2, <2>3, <2>4, <2>5 DEF Destroy
<1>2. CASE Write(d)
  <2>1. pc' = pc /\ target' = target /\ ~saving'[d]
    BY <1>2, <1>a DEF Write, TypeOK
  <2> QED
    BY <2>1, <1>b, <1>g DEF DestroyAt, StepInv
<1>3. CASE Lock(d)
  BY <1>3, <1>a, <1>d, <1>e DEF Lock, At, local, aside
<1>4. CASE LockFails(d) \/ Leave(d) \/ Crash(d)
  <2>1. ASSUME NEW result \in {"ok", "over"}, End(d, result),
               pc[d] \notin Resting
        PROVE  DestroyAt(d)'
    <3>1. pc'[d] = result /\ ~saving'[d] /\ (result = "ok" => target'[d] = target[d])
      BY <2>1, <1>a, EndEffect
    <3> QED
      BY <3>1, <2>1, <1>b, <1>g, <1>e DEF DestroyAt, StepInv, Resting
  <2> QED
    BY <1>4, <2>1 DEF LockFails, Leave, Crash, At, Resting
<1> QED
  BY <1>1, <1>2, <1>3, <1>4, <1>a DEF Acts

\* The steps of the processes fit together.
LEMMA StepInvariant == TypeOK /\ StepInv /\ [Next]_vars => StepInv'
<1>1. ASSUME TypeOK, StepInv, UNCHANGED vars PROVE StepInv'
  BY <1>1 DEF StepInv, Ended, vars, local, aside
<1>3. ASSUME TypeOK, StepInv, NEW m \in Launchers, Orphan(m) PROVE StepInv'
  BY <1>3, OrphanEffect DEF StepInv, Ended
<1>2. ASSUME TypeOK, StepInv, NEW p \in Procs, Acts(p) PROVE StepInv'
  <2>a. StepInv <=> (\A l \in Launchers : LaunchAt(l)) /\ (\A d \in Destroyers : DestroyAt(d))
    BY DEF StepInv, LaunchAt, DestroyAt
  <2>b. StepInv' <=> (\A l \in Launchers : LaunchAt(l)') /\ (\A d \in Destroyers : DestroyAt(d)')
    BY DEF StepInv, LaunchAt, DestroyAt, Ended
  <2>c. \A l \in Launchers : early[l] => early'[l]
    BY <1>2, EarlyOnce
  <2>1. ASSUME NEW l \in Launchers PROVE LaunchAt(l)'
    <3>1. CASE l = p
      BY <3>1, <1>2, LaunchMoves
    <3>2. CASE l # p
      <4>1. SameProcess(l) /\ LaunchAt(l)
        BY <3>2, <1>2, <2>a, ActsFrame DEF Frame, Procs
      <4>2. CASE Ended(l)
        BY <4>1, <4>2 DEF LaunchAt, SameProcess, Ended, Resting
      <4>3. CASE ~Ended(l)
        <5>1. early[l] \/ meta'[l] = meta[l]
          BY <3>2, <4>3, <1>2, LaunchOwns DEF SameSession, SameStore
        <5> QED
          BY <4>1, <5>1, <2>c DEF LaunchAt, SameProcess
      <4> QED
        BY <4>2, <4>3
    <3> QED
      BY <3>1, <3>2
  <2>2. ASSUME NEW d \in Destroyers PROVE DestroyAt(d)'
    <3>1. CASE d = p
      BY <3>1, <1>2, DestroyMoves
    <3>2. CASE d # p
      <4>1. SameProcess(d) /\ DestroyAt(d)
        BY <3>2, <1>2, <2>a, ActsFrame DEF Frame, Procs
      <4>2. ASSUME NEW l \in Launchers, Ended(l) PROVE Ended(l)'
        <5>1. l # p
          BY <1>2, <4>2, EndedRests
        <5> QED
          BY <5>1, <4>2, <1>2, ActsFrame DEF Frame, SameProcess, Ended, Procs
      <4> QED
        BY <4>1, <4>2, <2>c DEF DestroyAt, SameProcess
    <3> QED
      BY <3>1, <3>2
  <2> QED
    BY <2>1, <2>2, <2>b
<1> QED
  BY <1>1, <1>2, <1>3, OneActs

----
(* The lock, and the rewriting of metadata.json. *)

\* A process inside the lock of a session is the only one that touches it.
LEMMA LockOwns ==
    ASSUME TypeOK, StepInv, LockInv, NEW d \in Destroyers, pc[d] \in Inside,
           ~early[target[d]], NEW p \in Procs, p # d, Acts(p)
    PROVE  SameSession(target[d]) /\ SameProcess(d) /\ target[d] \in Launchers
<1>a. d \in Procs /\ d # None /\ SameProcess(d) /\ d \notin Launchers
  BY ActsFrame, NoneAssumption, ProcsAssumption DEF Frame, Procs
<1>b. target[d] \in Launchers /\ Ended(target[d]) /\ holder[target[d]] = d
  BY <1>a DEF LockInv, StepInv, Inside, Session, Resting
<1>1. CASE Session(p) # target[d]
  BY <1>a, <1>b, <1>1, ActsFrame DEF Frame
<1>2. CASE Session(p) = target[d]
  <2>1. p \in Destroyers /\ p \notin Launchers /\ target[p] = target[d]
    BY <1>2, <1>b, EndedRests, ProcsAssumption DEF Session, Procs
  <2>2. pc[p] \notin Inside
    BY <2>1, <1>a, <1>b, <1>2 DEF LockInv
  <2>3. pc[p] \in Resting \cup {"lock"} /\ ~saving[p]
    <3>1. pc[p] \in DestroySteps \ Inside
      BY <2>1, <2>2 DEF StepInv
    <3>2. pc[p] \in Resting \cup {"lock"}
      BY <3>1 DEF Inside, DestroySteps, Resting
    <3> QED
      BY <2>1, <3>2 DEF StepInv, Resting
  <2>4. ~Write(p) /\ ~Lock(p) /\ ~Leave(p) /\ ~(p \in Launchers /\ Launch(p))
    BY <1>a, <1>b, <1>2, <2>1, <2>3 DEF Write, Lock, Leave, Resting
  <2>5. CASE LockFails(p) \/ Crash(p)
    <3>1. Command(p) = {}
      BY <2>3 DEF Command, Commands, Making, At, Resting
    <3> QED
      BY <2>5, <1>a, <1>b, <3>1, LeaveEffect, CrashEffect
  <2>6. CASE Destroy(p)
    <3>1. PICK m \in Launchers : Resolve(p, m)
      BY <2>3, <2>6 DEF Destroy, Begin, Revoke, RevokeFails, Archive, FailDestroy, Load,
         DeleteCluster, ComposeDown, At, Resting
    <3> QED
      BY <1>a, <1>b, <3>1 DEF Resolve, SameSession, SameStore, docker
  <2> QED
    BY <2>4, <2>5, <2>6 DEF Acts
<1> QED
  BY <1>1, <1>2

\* A step truncates metadata.json, completes it, or at most removes it.
LEMMA StepKinds ==
    ASSUME TypeOK, StepInv, NEW p \in Procs, Acts(p)
    PROVE  \/ \E m, next : Save(p, m, next) /\ key' = key
           \/ Write(p) \/ Crash(p)
           \/ /\ ~saving[p] /\ ~saving'[p]
              /\ \A l \in Launchers : meta'[l] = meta[l] \/ meta'[l] = None
<1> DEFINE Quiet == /\ ~saving[p] /\ ~saving'[p]
                    /\ \A l \in Launchers : meta'[l] = meta[l] \/ meta'[l] = None
<1>1. CASE p \in Launchers /\ Launch(p)
  <2>1. CASE \/ New(p) \/ Record(p) \/ SetPhase(p) \/ MintSave(p) \/ SetURL(p) \/ MarkReady(p)
             \/ FailLaunch(p)
    BY <2>1 DEF New, Record, SetPhase, MintSave, SetURL, MarkReady, FailLaunch
  <2>2. CASE \/ Check(p) \/ Refused(p) \/ RecordFails(p) \/ PhaseFails(p) \/ Stage(p)
             \/ Setup(p) \/ Mint(p)
    BY <2>2 DEF Check, Refused, RecordFails, PhaseFails, Stage, Setup, Mint, Working, At, local
  <2>3. ASSUME NEW ok \in BOOLEAN, Images(p, ok) \/ CreateCluster(p, ok) \/ ComposeUp(p, ok)
        PROVE  Quiet
    BY <2>3 DEF Images, CreateCluster, ComposeUp, Working, At, local, aside
  <2> QED
    BY <1>1, <2>1, <2>2, <2>3 DEF Launch
<1>2. CASE p \in Destroyers /\ Destroy(p)
  <2>1. ASSUME NEW l \in Launchers, Resolve(p, l) PROVE Quiet
    BY <1>2, <2>1 DEF Resolve, StepInv, Resting
  <2>2. CASE Begin(p) \/ FailDestroy(p)
    BY <2>2 DEF Begin, FailDestroy
  <2>3. CASE Revoke(p) \/ RevokeFails(p)
    BY <2>3 DEF Revoke, RevokeFails, At, local, aside
  <2>4. CASE Archive(p)
    BY <2>4 DEF Archive, At, local, aside, TypeOK
  <2>5. ASSUME NEW ok \in BOOLEAN, Load(p, ok) \/ DeleteCluster(p, ok) \/ ComposeDown(p, ok)
        PROVE  Quiet
    BY <2>5 DEF Load, DeleteCluster, ComposeDown, At, local, aside
  <2> QED
    BY <1>2, <2>1, <2>2, <2>3, <2>4, <2>5 DEF Destroy
<1>3. CASE Lock(p) \/ LockFails(p) \/ Leave(p)
  BY <1>3 DEF Lock, LockFails, Leave, End, At, local, TypeOK
<1>4. CASE Crash(p)
  BY <1>4 DEF Crash
<1> QED
  BY <1>1, <1>2, <1>3, <1>4 DEF Acts

\* A process is inside the lock by taking it, or it was inside and keeps it.
LEMMA GetsInside ==
    ASSUME TypeOK, StepInv, NEW p \in Procs, Acts(p), pc'[p] \in Inside
    PROVE  Lock(p) \/ (pc[p] \in Inside /\ holder' = holder /\ Session(p)' = Session(p))
<1> DEFINE Stays == pc[p] \in Inside /\ holder' = holder /\ target' = target
<1>a. Stays => pc[p] \in Inside /\ holder' = holder /\ Session(p)' = Session(p)
  BY DEF Session
<1>b. \A next : Goto(p, next) => pc'[p] = next
  BY DEF Goto, TypeOK
<1>c. /\ Phases \subseteq Inside
      /\ {"images", "mint-save", "url", "fail", "load", "begin", "delete-cluster",
          "compose-down", "revoke", "archive", "leave-ok", "leave-failed"} \subseteq Inside
      /\ Inside \cap (Resting \cup {"new", "record", "lock"}) = {}
  BY DEF Inside, LaunchSteps, DestroySteps, Phases, Resting
<1>d. {"idle", "ok", "over"} = Resting
  BY DEF Resting
<1>1. CASE p \in Launchers /\ Launch(p)
  <2>1. CASE Check(p) \/ Refused(p) \/ New(p) \/ Record(p) \/ RecordFails(p)
    BY <2>1, <1>b, <1>c, <1>d DEF Check, Refused, New, Record, RecordFails, Save
  <2>2. CASE SetPhase(p) \/ MintSave(p) \/ SetURL(p) \/ MarkReady(p) \/ FailLaunch(p)
    BY <2>2, <1>a, <1>c DEF SetPhase, MintSave, SetURL, MarkReady, FailLaunch, Save, Working,
       At, Phases
  <2>3. CASE PhaseFails(p) \/ Stage(p) \/ Setup(p) \/ Mint(p)
    BY <2>3, <1>a, <1>c DEF PhaseFails, Stage, Setup, Mint, Working, At, local, aside, Phases
  <2>4. ASSUME NEW ok \in BOOLEAN, Images(p, ok) \/ CreateCluster(p, ok) \/ ComposeUp(p, ok)
        PROVE  Stays
    BY <2>4, <1>c DEF Images, CreateCluster, ComposeUp, Working, At, local, aside, Phases
  <2> QED
    BY <1>1, <1>a, <2>1, <2>2, <2>3, <2>4 DEF Launch
<1>2. CASE p \in Destroyers /\ Destroy(p)
  <2>1. ASSUME NEW l \in Launchers, Resolve(p, l) PROVE FALSE
    BY <2>1, <1>b, <1>c DEF Resolve
  <2>2. CASE Begin(p) \/ FailDestroy(p)
    BY <2>2, <1>a, <1>c DEF Begin, FailDestroy, Save, At
  <2>3. CASE Revoke(p) \/ RevokeFails(p) \/ Archive(p)
    BY <2>3, <1>a, <1>c DEF Revoke, RevokeFails, Archive, At, local, aside
  <2>4. ASSUME NEW ok \in BOOLEAN, Load(p, ok) \/ DeleteCluster(p, ok) \/ ComposeDown(p, ok)
        PROVE  Stays
    BY <2>4, <1>c DEF Load, DeleteCluster, ComposeDown, At, local, aside
  <2> QED
    BY <1>2, <1>a, <2>1, <2>2, <2>3, <2>4 DEF Destroy
<1>3. CASE Write(p)
  BY <1>3, <1>a DEF Write
<1>4. CASE LockFails(p) \/ Leave(p) \/ Crash(p)
  BY <1>4, <1>b, <1>c, <1>d DEF LockFails, Leave, Crash, End
<1> QED
  BY <1>1, <1>2, <1>3, <1>4 DEF Acts

\* Nobody takes a lock that another process has.
LEMMA LocksAreKept ==
    ASSUME TypeOK, NEW p \in Procs, Acts(p), NEW l \in Launchers, holder[l] # None,
           holder[l] # p
    PROVE  holder'[l] = holder[l]
<1>1. CASE p \in Launchers /\ Launch(p)
  BY <1>1 DEF Launch, Check, Refused, New, Record, RecordFails, SetPhase, PhaseFails, Stage, Images,
     CreateCluster, ComposeUp, Mint, MintSave, SetURL, Setup, MarkReady, FailLaunch, Save
<1>2. CASE p \in Destroyers /\ Destroy(p)
  BY <1>2 DEF Destroy, Resolve, Begin, Revoke, RevokeFails, Archive, FailDestroy, Load,
     DeleteCluster, ComposeDown, Save
<1>3. CASE Write(p)
  BY <1>3 DEF Write
<1>4. CASE Lock(p)
  BY <1>4 DEF Lock, TypeOK
<1>5. CASE LockFails(p) \/ Leave(p) \/ Crash(p)
  BY <1>5, EndEffect DEF LockFails, Leave, Crash
<1> QED
  BY <1>1, <1>2, <1>3, <1>4, <1>5 DEF Acts

\* One process at a time is inside the lock of a session, and metadata.json is
\* torn while it is rewritten.
LEMMA LockInvariant == TypeOK /\ StepInv /\ LockInv /\ [Next]_vars => LockInv'
<1>1. ASSUME LockInv, UNCHANGED vars PROVE LockInv'
  BY <1>1 DEF LockInv, Session, vars, local, aside
<1>3. ASSUME TypeOK, LockInv, NEW m \in Launchers, Orphan(m) PROVE LockInv'
  BY <1>3, OrphanEffect DEF LockInv, Session
<1>2. ASSUME TypeOK, StepInv, LockInv, NEW p \in Procs, Acts(p) PROVE LockInv'
  <2>a. \A q \in Procs : q # p => SameProcess(q) /\ Session(q)' = Session(q)
    <3>1. \A q \in Procs : q # p => SameProcess(q)
      BY <1>2, ActsFrame DEF Frame
    <3> QED
      BY <3>1 DEF SameProcess, Session, Procs
  <2>b. \A q \in Procs :
            q \in Launchers \/ pc[q] \notin {"idle", "over"} => Session(q) \in Launchers
    BY <1>2 DEF StepInv, Session, Procs
  <2>1. ASSUME NEW q \in Procs, pc'[q] \in Inside PROVE holder'[Session(q)'] = q
    <3>1. CASE q = p
      <4>1. CASE Lock(p)
        <5>1. Session(p)' = Session(p) /\ Session(p) \in Launchers
          BY <4>1, <2>b DEF Lock, Session, local, aside, At
        <5> QED
          BY <3>1, <4>1, <5>1, <1>2 DEF Lock, TypeOK
      <4>2. CASE ~Lock(p)
        BY <3>1, <4>2, <2>1, <1>2, GetsInside DEF LockInv
      <4> QED
        BY <4>1, <4>2
    <3>2. CASE q # p
      <4>1. pc[q] \in Inside /\ Session(q)' = Session(q)
        BY <3>2, <2>1, <2>a DEF SameProcess
      <4>2. Session(q) \in Launchers /\ holder[Session(q)] = q /\ q # None
        BY <4>1, <2>b, <1>2, NoneAssumption DEF LockInv, Inside, Resting
      <4> QED
        BY <3>2, <4>1, <4>2, <1>2, LocksAreKept
    <3> QED
      BY <3>1, <3>2
  <2>c. \A l \in Launchers : early[l] => early'[l]
    BY <1>2, EarlyOnce
  <2>2. ASSUME NEW q \in Procs, saving'[q], ~early'[Session(q)']
        PROVE  meta'[Session(q)'] = Torn
    <3>1. CASE q = p
      <4>1. CASE \E m, next : Save(p, m, next)
        <5>1. CASE p \in Destroyers
          <6>1. pc'[p] \in {"delete-cluster", "compose-down", "leave-failed"}
            BY <3>1, <5>1, <2>2, <1>2, DestroyMoves DEF DestroyAt
          <6>2. pc'[p] \in Inside
            BY <6>1 DEF Inside, DestroySteps, Resting
          <6>3. pc[p] \in Inside \cup {"lock"}
            BY <6>2, <1>2, GetsInside DEF Lock, At
          <6>4. Session(p) \in Launchers
            BY <6>3, <2>b DEF Inside, Resting
          <6> QED
            BY <3>1, <4>1, <6>4, <1>2, SaveEffect
        <5>2. CASE p \in Launchers
          BY <3>1, <4>1, <5>2, <2>b, <1>2, SaveEffect
        <5> QED
          BY <5>1, <5>2 DEF Procs
      <4> QED
        <5>1. CASE \E m, next : Save(p, m, next)
          BY <4>1, <5>1
        <5>2. CASE Write(p)
          BY <3>1, <5>2, <2>2, <1>2 DEF Write, TypeOK
        <5>3. CASE Crash(p)
          BY <3>1, <5>3, <2>2, <1>2, EndEffect DEF Crash
        <5>4. CASE ~saving'[p]
          BY <3>1, <5>4, <2>2
        <5> QED
          BY <5>1, <5>2, <5>3, <5>4, <1>2, StepKinds
    <3>2. CASE q # p /\ q \in Launchers
      <4>1. saving[q] /\ ~Ended(q) /\ Session(q)' = q /\ Session(q) = q /\ ~early[q]
        BY <3>2, <2>2, <2>a, <2>c, <1>2 DEF SameProcess, StepInv, Ended, Resting, Session
      <4> QED
        BY <3>2, <4>1, <1>2, LaunchOwns DEF LockInv, SameSession, SameStore
    <3>3. CASE q # p /\ q \in Destroyers
      <4>1. saving[q] /\ Session(q)' = target[q] /\ Session(q) = target[q]
        BY <3>3, <2>2, <2>a, ProcsAssumption DEF SameProcess, Session
      <4>2. pc[q] \in Inside
        BY <3>3, <4>1, <1>2 DEF StepInv, Inside, DestroySteps, Resting
      <4>3. ~early[target[q]]
        BY <3>3, <4>1, <4>2, <2>2, <2>b, <2>c DEF Inside, Resting
      <4> QED
        BY <3>3, <4>1, <4>2, <4>3, <1>2, LockOwns DEF LockInv, SameSession, SameStore
    <3> QED
      BY <3>1, <3>2, <3>3 DEF Procs
  <2> QED
    BY <2>1, <2>2 DEF LockInv
<1> QED
  BY <1>1, <1>2, <1>3, OneActs

----
(* What a launch has done, step by step. *)

\* A change of one field of metadata, field by field.
LEMMA Updates ==
    ASSUME NEW m \in Metadata
    PROVE  /\ \A b \in BOOLEAN :
                /\ [m EXCEPT !.kind = b].kind = b
                /\ [m EXCEPT !.kind = b].url = m.url
                /\ [m EXCEPT !.kind = b].hash = m.hash
                /\ [m EXCEPT !.kind = b].status = m.status
           /\ [m EXCEPT !.url = TRUE].kind = m.kind
           /\ [m EXCEPT !.url = TRUE].url
           /\ [m EXCEPT !.url = TRUE].hash = m.hash
           /\ [m EXCEPT !.url = TRUE].status = m.status
           /\ [m EXCEPT !.hash = TRUE].kind = m.kind
           /\ [m EXCEPT !.hash = TRUE].url = m.url
           /\ [m EXCEPT !.hash = TRUE].hash
           /\ [m EXCEPT !.hash = TRUE].status = m.status
           /\ \A s \in Statuses :
                /\ [m EXCEPT !.status = s].kind = m.kind
                /\ [m EXCEPT !.status = s].url = m.url
                /\ [m EXCEPT !.status = s].hash = m.hash
                /\ [m EXCEPT !.status = s].status = s
BY DEF Metadata

\* A Save of the launch's own, seen at its session.
LEMMA LaunchSaves ==
    ASSUME TypeOK, NEW l \in Launchers, NEW m, NEW next, Save(l, m, next), key' = key
    PROVE  /\ pc'[l] = next /\ mem'[l] = m /\ saving'[l] = TRUE
           /\ archived'[l] = archived[l] /\ cluster'[l] = cluster[l]
           /\ compose'[l] = compose[l] /\ key'[l] = key[l] /\ opt' = opt
           /\ orphan'[l] = orphan[l]
BY SaveEffect DEF Procs

\* What the launch has done so far stays true at its next step.
LEMMA LaunchKeeps ==
    ASSUME TypeOK, StepInv, NEW l \in Launchers, LaunchInv(l), Acts(l)
    PROVE  LaunchInv(l)'
<1>a. /\ l \in Procs /\ Session(l) = l /\ l \notin Destroyers /\ ~Ended(l)
      /\ mem[l] \in Metadata /\ key[l] \in {"none", "minted", "recorded", "revoked"}
      /\ saving[l] \in BOOLEAN /\ cluster[l] \in BOOLEAN
  BY ProcsAssumption, EndedRests DEF Procs, Session, TypeOK
<1>b. opt' = opt
  BY <1>a, ActsFrame DEF Frame
<1>d. ~Ended(l)
  BY <1>a
<1>1. CASE New(l)
  <2>1. ~NewMeta.hash /\ NewMeta.status # "ready"
    BY DEF NewMeta
  <2>2. Save(l, NewMeta, "record") /\ key' = key /\ pc[l] = "new" /\ ~saving[l]
    BY <1>1 DEF New, At
  <2>3. /\ pc'[l] = "record" /\ mem'[l] = NewMeta /\ saving'[l] = TRUE /\ archived'[l] = archived[l]
        /\ cluster'[l] = cluster[l] /\ compose'[l] = compose[l] /\ key'[l] = key[l]
        /\ orphan'[l] = orphan[l]
    BY <2>2, LaunchSaves, ZenonT(60)
  <2> QED
    BY <2>1, <2>2, <2>3, <1>a, <1>b DEF LaunchInv, Ended, Composed, Clustered, BeforeKey
<1>2. CASE Record(l)
  <2> DEFINE m == [NewMeta EXCEPT !.kind = "kind" \in opt[l]]
  <2>1. /\ m.kind <=> "kind" \in opt[l]
        /\ ~m.hash /\ m.status # "ready"
    BY DEF NewMeta
  <2>2. Save(l, m, "lock") /\ key' = key /\ pc[l] = "record" /\ ~saving[l]
    BY <1>2 DEF Record, At
  <2> HIDE DEF m
  <2>3. /\ pc'[l] = "lock" /\ mem'[l] = m /\ saving'[l] = TRUE /\ archived'[l] = archived[l]
        /\ cluster'[l] = cluster[l] /\ compose'[l] = compose[l] /\ key'[l] = key[l]
        /\ orphan'[l] = orphan[l]
    BY <2>2, LaunchSaves, ZenonT(60)
  <2> QED
    BY <2>1, <2>2, <2>3, <1>a, <1>b DEF LaunchInv, Ended, Composed, Clustered, BeforeKey
<1>3. CASE SetPhase(l)
  <2>1. /\ pc'[l] = pc[l] /\ mem'[l] = mem[l] /\ saving'[l] = TRUE /\ ~saving[l]
        /\ archived'[l] = archived[l] /\ cluster'[l] = cluster[l]
        /\ compose'[l] = compose[l] /\ key'[l] = key[l]
        /\ orphan'[l] = orphan[l]
    BY <1>3, LaunchSaves, ZenonT(60) DEF SetPhase
  <2> QED
    BY <2>1, <1>b, <1>d DEF LaunchInv, Ended
<1>4. CASE MintSave(l)
  <2> DEFINE m == [mem[l] EXCEPT !.hash = TRUE]
  <2>1. m.kind = mem[l].kind /\ m.url = mem[l].url /\ m.hash /\ m.status = mem[l].status
    BY <1>a, Updates
  <2>2. Save(l, m, "compose-up") /\ key' = key /\ pc[l] = "mint-save" /\ ~saving[l]
    BY <1>4 DEF MintSave, At
  <2> HIDE DEF m
  <2>3. /\ pc'[l] = "compose-up" /\ mem'[l] = m /\ saving'[l] = TRUE /\ archived'[l] = archived[l]
        /\ cluster'[l] = cluster[l] /\ compose'[l] = compose[l] /\ key'[l] = key[l]
        /\ orphan'[l] = orphan[l]
    BY <2>2, LaunchSaves, ZenonT(60)
  <2> QED
    BY <2>1, <2>2, <2>3, <1>a, <1>b DEF LaunchInv, Ended, Composed, Clustered, BeforeKey
<1>5. CASE SetURL(l)
  <2> DEFINE m == [mem[l] EXCEPT !.url = TRUE]
  <2>1. m.kind = mem[l].kind /\ m.url /\ m.hash = mem[l].hash /\ m.status = mem[l].status
    BY <1>a, Updates
  <2>2. Save(l, m, AfterUp(l)) /\ key' = key /\ pc[l] = "url" /\ ~saving[l]
    BY <1>5 DEF SetURL, At
  <2> HIDE DEF m
  <2>3. /\ pc'[l] \in {"setup", "summary"} /\ mem'[l] = m /\ saving'[l] = TRUE
        /\ archived'[l] = archived[l]
        /\ cluster'[l] = cluster[l] /\ compose'[l] = compose[l] /\ key'[l] = key[l]
        /\ orphan'[l] = orphan[l]
    BY <2>2, LaunchSaves, ZenonT(60) DEF AfterUp
  <2> QED
    BY <2>1, <2>2, <2>3, <1>a, <1>b DEF LaunchInv, Ended, Composed, Clustered, BeforeKey
<1>6. CASE MarkReady(l)
  <2> DEFINE m == [mem[l] EXCEPT !.status = "ready"]
  <2>1. m.kind = mem[l].kind /\ m.url = mem[l].url /\ m.hash = mem[l].hash
    BY <1>a, Updates DEF Statuses
  <2>2. Save(l, m, "leave-ok") /\ key' = key /\ pc[l] = "summary" /\ ~saving[l]
    BY <1>6 DEF MarkReady, Working, At
  <2> HIDE DEF m
  <2>3. /\ pc'[l] = "leave-ok" /\ mem'[l] = m /\ saving'[l] = TRUE /\ archived'[l] = archived[l]
        /\ cluster'[l] = cluster[l] /\ compose'[l] = compose[l] /\ key'[l] = key[l]
        /\ orphan'[l] = orphan[l]
    BY <2>2, LaunchSaves, ZenonT(60)
  <2> QED
    BY <2>1, <2>2, <2>3, <1>a, <1>b DEF LaunchInv, Ended, Composed, Clustered, BeforeKey
<1>7. CASE FailLaunch(l)
  <2> DEFINE m == [mem[l] EXCEPT !.status = "failed"]
  <2>1. m.kind = mem[l].kind /\ m.hash = mem[l].hash /\ m.status # "ready"
    BY <1>a, Updates DEF Statuses
  <2>2. Save(l, m, "leave-failed") /\ key' = key /\ pc[l] = "fail" /\ ~saving[l]
    BY <1>7 DEF FailLaunch, At
  <2> HIDE DEF m
  <2>3. /\ pc'[l] = "leave-failed" /\ mem'[l] = m /\ saving'[l] = TRUE /\ archived'[l] = archived[l]
        /\ cluster'[l] = cluster[l] /\ compose'[l] = compose[l] /\ key'[l] = key[l]
        /\ orphan'[l] = orphan[l]
    BY <2>2, LaunchSaves, ZenonT(60)
  <2> QED
    BY <2>1, <2>2, <2>3, <1>a, <1>b DEF LaunchInv, Ended, Composed, Clustered, BeforeKey
<1>c. ASSUME NEW next, Goto(l, next), ~saving[l],
             UNCHANGED <<opt, meta, archived, docker, key, local, aside>>
      PROVE  /\ pc'[l] = next /\ mem'[l] = mem[l] /\ ~saving'[l] /\ meta'[l] = meta[l]
             /\ archived'[l] = archived[l] /\ cluster'[l] = cluster[l]
             /\ compose'[l] = compose[l] /\ key'[l] = key[l]
             /\ orphan'[l] = orphan[l]
  BY <1>a, <1>c DEF Goto, TypeOK, docker, local, aside
<1>8. CASE Check(l) \/ Refused(l) \/ RecordFails(l)
  <2>1. /\ (pc[l] = "idle" /\ pc'[l] = "new") \/ pc'[l] = "over"
        /\ mem'[l] = mem[l] /\ ~saving'[l] /\ meta'[l] = meta[l]
        /\ archived'[l] = archived[l] /\ cluster'[l] = cluster[l]
        /\ compose'[l] = compose[l] /\ key'[l] = key[l]
        /\ orphan'[l] = orphan[l]
    BY <1>8, <1>c DEF Check, Refused, RecordFails, At
  <2> QED
    BY <2>1, <1>a, <1>b DEF LaunchInv, Ended, Composed, Clustered, BeforeKey
<1>9. CASE PhaseFails(l) \/ \E ok \in BOOLEAN : Images(l, ok)
  <2>1. /\ pc[l] \in Phases \cup {"images"} /\ ~saving[l]
        /\ pc'[l] = "fail" \/ (pc[l] = "images" /\ pc'[l] = "stage")
        /\ mem'[l] = mem[l] /\ ~saving'[l] /\ meta'[l] = meta[l]
        /\ archived'[l] = archived[l] /\ cluster'[l] = cluster[l]
        /\ compose'[l] = compose[l] /\ key'[l] = key[l]
        /\ orphan'[l] = orphan[l]
    BY <1>9, <1>c DEF PhaseFails, Images, Working, At
  <2> QED
    BY <2>1, <1>a, <1>b DEF LaunchInv, Ended, Composed, Clustered, BeforeKey, Phases
<1>10. CASE Stage(l)
  <2>1. /\ pc[l] = "stage" /\ ~saving[l]
        /\ \/ pc'[l] = "create-cluster" /\ "kind" \in opt[l]
           \/ pc'[l] \in {"ai-mint", "compose-up"} /\ "kind" \notin opt[l]
        /\ pc'[l] = "compose-up" => "ai" \notin opt[l]
        /\ mem'[l] = mem[l] /\ ~saving'[l] /\ meta'[l] = meta[l]
        /\ archived'[l] = archived[l] /\ cluster'[l] = cluster[l]
        /\ compose'[l] = compose[l] /\ key'[l] = key[l]
        /\ orphan'[l] = orphan[l]
    BY <1>10, <1>c DEF Stage, Working, At, AfterStage, AfterCluster
  <2> QED
    BY <2>1, <1>a, <1>b DEF LaunchInv, Ended, Composed, Clustered, BeforeKey
<1>11. CASE Setup(l)
  <2>1. /\ pc[l] = "setup" /\ ~saving[l] /\ pc'[l] = "summary"
        /\ mem'[l] = mem[l] /\ ~saving'[l] /\ meta'[l] = meta[l]
        /\ archived'[l] = archived[l] /\ cluster'[l] = cluster[l]
        /\ compose'[l] = compose[l] /\ key'[l] = key[l]
        /\ orphan'[l] = orphan[l]
    BY <1>11, <1>c DEF Setup, Working, At
  <2> QED
    BY <2>1, <1>a, <1>b DEF LaunchInv, Ended, Composed, Clustered, BeforeKey
<1>12. ASSUME NEW ok \in BOOLEAN, CreateCluster(l, ok) PROVE LaunchInv(l)'
  <2>1. /\ pc[l] = "create-cluster" /\ ~saving[l]
        /\ pc'[l] \in {"ai-mint", "compose-up", "fail"}
        /\ pc'[l] = "compose-up" => "ai" \notin opt[l]
        /\ mem'[l] = mem[l] /\ ~saving'[l] /\ meta'[l] = meta[l]
        /\ archived'[l] = archived[l] /\ cluster'[l]
        /\ compose'[l] = compose[l] /\ key'[l] = key[l]
        /\ orphan'[l] = orphan[l]
    BY <1>12, <1>a DEF CreateCluster, KindCreate, Working, At, AfterCluster, Goto, TypeOK, local, aside
  <2> QED
    BY <2>1, <1>a, <1>b DEF LaunchInv, Ended, Composed, Clustered, BeforeKey
<1>13. ASSUME NEW ok \in BOOLEAN, ComposeUp(l, ok) PROVE LaunchInv(l)'
  <2>1. /\ pc[l] = "compose-up" /\ ~saving[l]
        /\ pc'[l] = "fail" \/ (pc'[l] = "url" /\ compose'[l] = "up")
        /\ mem'[l] = mem[l] /\ ~saving'[l] /\ meta'[l] = meta[l]
        /\ archived'[l] = archived[l] /\ cluster'[l] = cluster[l] /\ key'[l] = key[l]
        /\ orphan'[l] = orphan[l]
    BY <1>13, <1>a DEF ComposeUp, Up, Working, At, Goto, TypeOK, local, aside
  <2> QED
    BY <2>1, <1>a, <1>b DEF LaunchInv, Ended, Composed, Clustered, BeforeKey
<1>14. CASE Mint(l)
  <2>1. /\ pc[l] = "ai-mint" /\ ~saving[l] /\ pc'[l] = "mint-save"
        /\ mem'[l] = mem[l] /\ ~saving'[l] /\ meta'[l] = meta[l]
        /\ archived'[l] = archived[l] /\ cluster'[l] = cluster[l]
        /\ compose'[l] = compose[l] /\ key'[l] = "minted"
        /\ orphan'[l] = orphan[l]
    BY <1>14, <1>a DEF Mint, Working, At, Goto, TypeOK, local, aside, docker
  <2> QED
    BY <2>1, <1>a, <1>b DEF LaunchInv, Ended, Composed, Clustered, BeforeKey
<1>15. CASE Write(l)
  <2>1. /\ pc'[l] = pc[l] /\ mem'[l] = mem[l] /\ ~saving'[l]
        /\ meta'[l] = mem[l] /\ archived'[l] = archived[l] /\ cluster'[l] = cluster[l]
        /\ compose'[l] = compose[l] /\ orphan'[l] = orphan[l]
    BY <1>15, <1>a DEF Write, TypeOK, LaunchInv, docker, aside
  <2>2. CASE mem[l].hash
    <3>1. key'[l] = "recorded"
      BY <1>15, <1>a, <2>2 DEF Write, TypeOK, LaunchInv
    <3>2. pc[l] \notin BeforeKey /\ pc[l] # "mint-save"
      BY <1>d, <2>2 DEF LaunchInv
    <3> QED
      BY <2>1, <2>2, <3>1, <3>2, <1>b, <1>d DEF LaunchInv, Ended
  <2>3. CASE ~mem[l].hash
    <3>1. key'[l] = key[l]
      BY <1>15, <1>a, <2>3 DEF Write
    <3> QED
      BY <2>1, <2>3, <3>1, <1>b, <1>d DEF LaunchInv, Ended
  <2> QED
    BY <2>2, <2>3
<1>16. CASE Lock(l)
  <2>1. /\ pc[l] = "lock" /\ ~saving[l] /\ pc'[l] = "images"
        /\ mem'[l] = mem[l] /\ ~saving'[l] /\ meta'[l] = meta[l]
        /\ archived'[l] = archived[l] /\ cluster'[l] = cluster[l]
        /\ compose'[l] = compose[l] /\ key'[l] = key[l]
        /\ orphan'[l] = orphan[l]
    BY <1>16, <1>c DEF Lock, At
  <2> QED
    BY <2>1, <1>a, <1>b DEF LaunchInv, Ended, Composed, Clustered, BeforeKey
<1>17. CASE LockFails(l) \/ Leave(l) \/ Crash(l)
  <2>1. pc'[l] \in {"ok", "over"}
    BY <1>17, <1>a DEF LockFails, Leave, Crash, End, Goto, TypeOK
  <2> QED
    BY <2>1 DEF LaunchInv, Ended
<1> QED
  BY <1>1, <1>2, <1>3, <1>4, <1>5, <1>6, <1>7, <1>8, <1>9, <1>10, <1>11, <1>12, <1>13, <1>14,
     <1>15, <1>16, <1>17, <1>a DEF Acts, Launch

\* Until it ends, a launch is where LaunchInv says, unless early.
LEMMA LaunchInvariant ==
    TypeOK /\ StepInv /\ (\A l \in Launchers : early[l] \/ LaunchInv(l)) /\ [Next]_vars
        => (\A l \in Launchers : early[l] \/ LaunchInv(l))'
<1> SUFFICES ASSUME TypeOK, StepInv, \A l \in Launchers : early[l] \/ LaunchInv(l),
                    [Next]_vars, NEW l \in Launchers
             PROVE  early'[l] \/ LaunchInv(l)'
  OBVIOUS
<1>1. CASE UNCHANGED vars
  BY <1>1 DEF LaunchInv, Ended, vars, docker, local, aside
<1>2. ASSUME NEW p \in Procs, Acts(p) PROVE early'[l] \/ LaunchInv(l)'
  <2>1. CASE early[l]
    BY <1>2, <2>1, EarlyOnce
  <2>2. CASE ~early[l] /\ p = l
    BY <1>2, <2>2, LaunchKeeps
  <2>3. CASE p # l /\ Ended(l)
    BY <1>2, <2>3, ActsFrame DEF Frame, SameProcess, LaunchInv, Ended, Procs
  <2>4. CASE ~early[l] /\ p # l /\ ~Ended(l)
    <3>1. SameSession(l) /\ SameProcess(l) /\ opt' = opt
      BY <1>2, <2>4, LaunchOwns, ActsFrame DEF Frame
    <3> QED
      BY <2>4, <3>1 DEF SameSession, SameStore, SameProcess, LaunchInv, Ended
  <2> QED
    BY <2>1, <2>2, <2>3, <2>4
<1>3. ASSUME NEW m \in Launchers, Orphan(m) PROVE early'[l] \/ LaunchInv(l)'
  <2>1. CASE m = l
    <3>1. early'[l] = early[l] /\ orphan[l] # {} /\ pc'[l] = pc[l]
      BY <1>3, <2>1, OrphanEffect
    <3> QED
      BY <3>1 DEF LaunchInv, Ended
  <2>2. CASE m # l
    <3>1. /\ SameSession(l) /\ early'[l] = early[l] /\ opt' = opt
          /\ pc' = pc /\ mem' = mem /\ saving' = saving
      BY <1>3, <2>2, OrphanEffect
    <3> QED
      BY <3>1 DEF SameSession, SameStore, LaunchInv, Ended
  <2> QED
    BY <2>1, <2>2
<1> QED
  BY <1>1, <1>2, <1>3, OneActs

----
(* Docker, the key, and what metadata.json says of them. *)

\* While its launch runs, a session is as SessionInv says.
LEMMA LaunchingSession ==
    ASSUME TypeOK, StepInv, LockInv, NEW l \in Launchers, ~early[l], LaunchInv(l), ~Ended(l)
    PROVE  SessionInv(l)
<1>a. /\ l \in Procs /\ Session(l) = l /\ mem[l] \in Metadata
      /\ None # Torn /\ None \notin Metadata
  BY MetaAssumption DEF Procs, Session, TypeOK
<1>1. saving[l] => meta[l] = Torn
  BY <1>a DEF LockInv
<1>2. pc[l] \in {"idle", "new"} => meta[l] = None
  BY DEF StepInv
<1>3. Readable(l) => meta[l] = mem[l] /\ ~saving[l] /\ pc[l] \notin {"idle", "new"}
  BY <1>1, <1>2 DEF Readable, LaunchInv
<1>4. ~Made(l) /\ orphan[l] = {} /\ (cluster[l] \/ compose[l] # "none" => meta[l] # None)
  BY <1>a, <1>1 DEF LaunchInv, Made
<1>5. Readable(l) => Names(meta[l], l)
  BY <1>3 DEF LaunchInv, Names
<1>6. IsReady(l) => Serves(l)
  BY <1>3 DEF IsReady, LaunchInv, Serves, Composed, Clustered, Ended
<1> QED
  BY <1>4, <1>5, <1>6 DEF SessionInv, LaunchInv

\* The same for all sessions.
LEMMA LaunchingNow ==
    TypeOK /\ StepInv /\ LockInv /\ (\A l \in Launchers : early[l] \/ LaunchInv(l))
        => \A l \in Launchers : ~early[l] /\ ~Ended(l) => SessionInv(l)
BY LaunchingSession

\* And after a step.
LEMMA LaunchingNext ==
    TypeOK' /\ StepInv' /\ LockInv' /\ (\A l \in Launchers : early[l] \/ LaunchInv(l))'
        => (\A l \in Launchers : ~early[l] /\ ~Ended(l) => SessionInv(l))'
BY LaunchingNow, PTL

\* What SessionInv says of a session depends on that session only.
LEMMA SessionKept ==
    ASSUME NEW l \in Launchers, SessionInv(l), SameSession(l), opt' = opt
    PROVE  SessionInv(l)'
BY DEF SessionInv, SameSession, SameStore, Readable, IsReady, Names, Serves, Gone, Made

\* The step that ends a launch, unless it is killed, leaves its session as it is.
LEMMA EndsQuietly ==
    ASSUME TypeOK, StepInv, NEW l \in Launchers, Acts(l), Ended(l)'
    PROVE  SameSession(l) \/ Crash(l)
<1>a. l \in Procs /\ l \notin Destroyers
  BY ProcsAssumption DEF Procs
<1>b. pc'[l] \in {"ok", "over"}
  BY DEF Ended
<1>c. \A next : Goto(l, next) => pc'[l] = next
  BY <1>a DEF Goto, TypeOK
<1>1. CASE Launch(l)
  <2>1. ~New(l) /\ ~Record(l) /\ ~SetPhase(l) /\ ~MintSave(l) /\ ~MarkReady(l) /\ ~FailLaunch(l)
    BY <1>b, <1>c DEF New, Record, SetPhase, MintSave, MarkReady, FailLaunch, Save, Phases
  <2>2. ~SetURL(l) /\ ~Stage(l)
    BY <1>b, <1>c DEF SetURL, Stage, Save, AfterUp, AfterStage, AfterCluster
  <2>3. ~Check(l) /\ ~PhaseFails(l) /\ ~Setup(l) /\ ~Mint(l)
    BY <1>b, <1>c DEF Check, PhaseFails, Setup, Mint
  <2>4. \A ok \in BOOLEAN : ~Images(l, ok) /\ ~CreateCluster(l, ok) /\ ~ComposeUp(l, ok)
    BY <1>b, <1>c DEF Images, CreateCluster, ComposeUp, AfterCluster
  <2>5. Refused(l) \/ RecordFails(l)
    BY <1>1, <2>1, <2>2, <2>3, <2>4 DEF Launch
  <2> QED
    BY <2>5 DEF Refused, RecordFails, SameSession, SameStore, docker, aside
<1>2. CASE LockFails(l) \/ Leave(l) \/ Crash(l)
  BY <1>2, <1>a, LeaveEffect
<1>3. CASE Write(l) \/ Lock(l)
  <2>1. ~Write(l)
    BY <1>b DEF Write, StepInv, Resting
  <2>2. ~Lock(l)
    BY <1>a, <1>b, <1>c DEF Lock
  <2> QED
    BY <1>3, <2>1, <2>2
<1> QED
  BY <1>1, <1>2, <1>3, <1>a DEF Acts

\* A launch that is killed has named in its last save what its command may make.
LEMMA KilledLaunch ==
    ASSUME TypeOK, StepInv, LockInv, NEW l \in Launchers, ~early[l], LaunchInv(l), ~Ended(l),
           Crash(l)
    PROVE  SessionInv(l)'
<1>a. l \in Procs /\ Session(l) = l /\ SessionInv(l) /\ orphan[l] = {}
  BY LaunchingSession DEF Procs, Session, LaunchInv
<1>1. SameStore(l) /\ opt' = opt /\ (Command(l) = {} => SameSession(l))
  BY <1>a, CrashEffect DEF Frame
<1>2. orphan'[l] \subseteq Command(l)
  BY <1>a, CrashEffect
<1>3. CASE Command(l) = {}
  BY <1>a, <1>1, <1>3, SessionKept
<1>4. CASE Command(l) # {}
  <2>1. /\ pc[l] \in Commands /\ ~saving[l]
        /\ "create-cluster" \in Command(l) => pc[l] = "create-cluster"
    BY <1>4 DEF Command, At
  <2>2. /\ meta[l] = mem[l] /\ mem[l].status # "ready"
        /\ "create-cluster" \in Command(l) => mem[l].kind
    BY <2>1 DEF LaunchInv, Commands, Making
  <2>3. meta[l] # None
    BY <1>a, <2>2, MetaAssumption DEF TypeOK
  <2> QED
    BY <1>a, <1>1, <1>2, <2>2, <2>3
       DEF SessionInv, SameStore, Readable, IsReady, Names, Serves, Gone, LaunchInv
<1> QED
  BY <1>3, <1>4

\* Containers come up only while nobody else's are.
LEMMA PortIsChecked ==
    ASSUME TypeOK, NEW p \in Procs, Acts(p), NEW l \in Launchers, compose'[l] = "up"
    PROVE  compose[l] = "up" \/ (l = p /\ PortFree(l))
<1>1. CASE p \in Launchers /\ Launch(p)
  <2>1. ASSUME NEW ok \in BOOLEAN, ComposeUp(p, ok)
        PROVE  compose[l] = "up" \/ (l = p /\ PortFree(l))
    BY <2>1 DEF ComposeUp, Up, TypeOK
  <2>2. CASE ~\E ok \in BOOLEAN : ComposeUp(p, ok)
    BY <1>1, <2>2 DEF Launch, Check, Refused, New, Record, RecordFails, SetPhase, PhaseFails,
       Stage, Images, CreateCluster, KindCreate, Mint, MintSave, SetURL, Setup, MarkReady, FailLaunch, Save, docker
  <2> QED
    BY <2>1, <2>2
<1>2. CASE p \in Destroyers /\ Destroy(p)
  <2>1. ASSUME NEW ok \in BOOLEAN, ComposeDown(p, ok) PROVE compose[l] = "up"
    BY <2>1 DEF ComposeDown, Down, TypeOK
  <2>2. CASE ~\E ok \in BOOLEAN : ComposeDown(p, ok)
    BY <1>2, <2>2 DEF Destroy, Resolve, Begin, Revoke, RevokeFails, Archive, FailDestroy, Load,
       DeleteCluster, KindDelete, Save, docker
  <2> QED
    BY <2>1, <2>2
<1>3. CASE Write(p) \/ Lock(p) \/ LockFails(p) \/ Leave(p) \/ Crash(p)
  BY <1>3 DEF Write, Lock, LockFails, Leave, Crash, End, docker
<1> QED
  BY <1>1, <1>2, <1>3 DEF Acts

\* The port belongs to one session.
LEMMA PortInvariant ==
    ASSUME TypeOK, OnePort,
           (\E p \in Procs : Acts(p)) \/ \E o \in Launchers : Orphan(o)
    PROVE  OnePort'
<1> SUFFICES ASSUME NEW l \in Launchers, NEW m \in Launchers, compose'[l] = "up",
                    compose'[m] = "up"
             PROVE  l = m
  BY DEF OnePort
<1>1. CASE \E p \in Procs : Acts(p)
  BY <1>1, PortIsChecked DEF OnePort, PortFree
<1>2. ASSUME NEW o \in Launchers, Orphan(o) PROVE l = m
  <2>1. \A n \in Launchers : compose'[n] = "up" =>
            compose[n] = "up" \/ (n = o /\ PortFree(o))
    BY <1>2, OrphanEffect DEF SameSession, SameStore
  <2> QED
    BY <2>1 DEF OnePort, PortFree
<1> QED
  BY <1>1, <1>2

----
(* What a destroy has removed, step by step. *)

\* What a destroy may rely on and must keep of the session it works on.
DestroyFacts(d) ==
    /\ TypeOK /\ StepInv /\ LockInv
    /\ pc[d] \in {"idle", "over"} \/ early[target[d]] \/ DestroyInv(d)
    /\ \A l \in Launchers : early[l] \/ SessionInv(l)

\* A destroy that reads a session names what the session has.
LEMMA ResolveKeeps ==
    ASSUME NEW d \in Destroyers, DestroyFacts(d), NEW m \in Launchers, Resolve(d, m)
    PROVE  /\ early'[target'[d]] \/ DestroyInv(d)'
           /\ \A l \in Launchers : early'[l] \/ SessionInv(l)'
<1> USE DEF DestroyFacts
<1>1. /\ pc'[d] = "lock" /\ mem'[d] = meta[m] /\ ~saving'[d] /\ target'[d] = m
      /\ key' = key /\ cluster' = cluster /\ orphan' = orphan /\ opt' = opt
      /\ \A l \in Launchers : SameSession(l)
  BY ProcsAssumption DEF Resolve, Goto, TypeOK, docker, SameSession, SameStore, StepInv,
     Resting, Procs
<1>2. /\ early'[m] \/ (~early[m] /\ ~Made(m))
      /\ \A l \in Launchers : early[l] => early'[l]
  BY DEF Resolve, Made, TypeOK
<1>3. ASSUME NEW l \in Launchers PROVE early'[l] \/ SessionInv(l)'
  BY <1>1, <1>2, SessionKept
<1>4. ASSUME ~early'[m] PROVE DestroyInv(d)'
  <2>1. Names(meta[m], m) /\ ~Made(m)
    BY <1>2, <1>4 DEF Resolve, SessionInv
  <2> QED
    BY <1>1, <2>1 DEF DestroyInv, Names, Made, Begun, Inside, Resting
<1> QED
  BY <1>1, <1>3, <1>4

\* Any other step of a destroy keeps what is said of it and of its session.
LEMMA DestroyKeeps ==
    ASSUME NEW d \in Destroyers, DestroyFacts(d), Acts(d),
           NEW l \in Launchers, target[d] = l, ~early[l],
           pc[d] \notin {"idle", "over"}, \A m \in Launchers : ~Resolve(d, m)
    PROVE  DestroyInv(d)' /\ SessionInv(l)'
<1> USE DEF DestroyFacts
<1>a. /\ d \in Procs /\ Session(d) = target[d] /\ d \notin Launchers
      /\ mem[d] \in Metadata /\ Frame(d) /\ opt' = opt
      /\ None # Torn /\ None \notin Metadata /\ Torn \notin Metadata
  BY ProcsAssumption, ActsFrame, MetaAssumption DEF Procs, Session, TypeOK, Frame
<1>b. target[d] \in Launchers /\ target[d] = l /\ DestroyInv(d) /\ SessionInv(l)
  BY DEF StepInv
<1>c. SameSession(target[d]) => SessionInv(l)'
  BY <1>a, <1>b, SessionKept
<1>e. ASSUME NEW m, NEW next \in {"delete-cluster", "compose-down", "leave-failed"},
             pc[d] \in {"begin", "fail"}, Save(d, m, next), key' = key,
             m.kind = mem[d].kind, m.hash = mem[d].hash, m.status # "ready",
             next = "compose-down" => ~m.kind
      PROVE  /\ DestroyInv(d)'
             /\ SessionInv(l)'
  <2>1. /\ pc'[d] = next /\ mem'[d] = m /\ saving'[d] /\ target' = target
        /\ meta'[target[d]] = Torn /\ archived' = archived /\ cluster' = cluster
        /\ compose' = compose /\ key' = key /\ orphan' = orphan /\ target[d] \in Launchers
    <3>1. target[d] \in Launchers
      BY <1>b, <1>e
    <3>2. TypeOK /\ Save(d, m, next)
      BY <1>e
    <3>3. /\ pc'[d] = next /\ mem'[d] = m /\ saving'[d] = TRUE
          /\ Session(d) \in Launchers => meta'[Session(d)] = Torn
          /\ archived' = archived /\ cluster' = cluster
          /\ compose' = compose /\ target' = target /\ orphan' = orphan
      <4>1. pc'[d] = next /\ mem'[d] = m /\ saving'[d] = TRUE
        BY <1>a, <3>2 DEF Save, Goto, TypeOK
      <4>2. Session(d) \in Launchers => meta'[Session(d)] = Torn
        BY <3>2 DEF Save, TypeOK
      <4>3. /\ archived' = archived /\ cluster' = cluster
            /\ compose' = compose /\ target' = target /\ orphan' = orphan
        BY <3>2 DEF Save, docker, aside
      <4> QED
        BY <4>1, <4>2, <4>3
    <3> QED
      BY <1>a, <1>e, <3>1, <3>3
  <2>2. pc[d] \in Inside /\ ~archived[target[d]]
    BY <1>e DEF DestroyInv, Inside, DestroySteps, Resting
  <2>3. Names(mem[d], target[d])
    BY <1>e DEF DestroyInv, Resting
  <2>4. Names(m, target[d])
    BY <1>e, <2>3 DEF Names
  <2>5. next = "compose-down" => ~cluster[target[d]]
    BY <1>e, <2>4 DEF Names
  <2>6. DestroyInv(d)'
    BY <1>a, <1>b, <1>e, <2>1, <2>2, <2>4, <2>5
       DEF DestroyInv, Names, Made, IsReady, Readable, Begun, Resting
  <2>7. SessionInv(l)'
    BY <1>a, <1>b, <2>1, <2>2 DEF SessionInv, Names, Made, Readable, IsReady
  <2> QED
    BY <2>1, <2>6, <2>7
<1>2. CASE Begin(d)
  <2> DEFINE m == [mem[d] EXCEPT !.status = "destroying"]
             next == IF mem[d].kind THEN "delete-cluster" ELSE "compose-down"
  <2>1. m.kind = mem[d].kind /\ m.hash = mem[d].hash /\ m.status # "ready"
    BY <1>a, Updates DEF Statuses
  <2>2. Save(d, m, next) /\ key' = key /\ pc[d] = "begin"
    BY <1>2 DEF Begin, At
  <2>3. /\ next \in {"delete-cluster", "compose-down"}
        /\ next = "compose-down" => ~mem[d].kind
    OBVIOUS
  <2> HIDE DEF m, next
  <2> QED
    BY <1>e, <2>1, <2>2, <2>3
<1>3. CASE FailDestroy(d)
  <2> DEFINE m == [mem[d] EXCEPT !.status = "failed-destroy"]
  <2>1. m.kind = mem[d].kind /\ m.hash = mem[d].hash /\ m.status # "ready"
    BY <1>a, Updates DEF Statuses
  <2>2. Save(d, m, "leave-failed") /\ key' = key /\ pc[d] = "fail"
    BY <1>3 DEF FailDestroy, At
  <2> HIDE DEF m
  <2> QED
    BY <1>e, <2>1, <2>2
<1>f. ASSUME NEW next, Goto(d, next), ~saving[d],
             UNCHANGED <<opt, meta, archived, docker, key, local, aside>>
      PROVE  /\ pc'[d] = next /\ mem'[d] = mem[d] /\ ~saving'[d] /\ target' = target
             /\ meta' = meta /\ archived' = archived /\ cluster' = cluster
             /\ compose' = compose /\ key' = key /\ orphan' = orphan
             /\ SameSession(target[d])
  BY <1>a, <1>f, MoveEffect DEF docker, local, aside
<1>4. CASE Lock(d) \/ RevokeFails(d) \/ \E ok \in BOOLEAN : Load(d, ok)
  <2>1. /\ mem'[d] = mem[d] /\ ~saving'[d] /\ target' = target
        /\ meta' = meta /\ archived' = archived /\ cluster' = cluster
        /\ compose' = compose /\ key' = key /\ orphan' = orphan
        /\ SameSession(target[d])
        /\ \/ pc[d] = "lock" /\ pc'[d] = "load" /\ ~archived[target[d]]
           \/ pc[d] = "load" /\ pc'[d] \in {"begin", "leave-failed"}
           \/ pc[d] = "revoke" /\ pc'[d] = "fail"
    BY <1>4, <1>a, <1>f DEF Lock, RevokeFails, Load, At
  <2>2. /\ {"load", "begin", "revoke", "fail", "leave-failed"} \subseteq Inside
        /\ pc[d] \notin Resting
    BY <2>1 DEF Inside, LaunchSteps, DestroySteps, Resting
  <2>3. ~archived[target[d]]
    BY <2>1, <2>2 DEF DestroyInv
  <2>4. DestroyInv(d)'
    BY <1>b, <2>1, <2>2, <2>3 DEF DestroyInv, Names, Made, IsReady, Readable, Begun, Resting
  <2> QED
    BY <1>b, <1>c, <2>1, <2>4
<1>g. ASSUME pc[d] \in Begun PROVE pc[d] \in Inside /\ ~archived[target[d]]
  BY <1>g DEF Begun, Inside, DestroySteps, Resting, DestroyInv
<1>5. ASSUME NEW ok \in BOOLEAN, DeleteCluster(d, ok)
      PROVE  DestroyInv(d)' /\ SessionInv(l)'
  <2>1. /\ pc[d] = "delete-cluster" /\ mem'[d] = mem[d] /\ ~saving'[d] /\ target' = target
        /\ pc'[d] = "fail" \/ (pc'[d] = "compose-down" /\ ~cluster'[target[d]])
        /\ meta' = meta /\ archived' = archived /\ compose' = compose /\ key' = key
        /\ orphan' = orphan
        /\ cluster'[target[d]] => cluster[target[d]]
    BY <1>5, <1>a, <1>b DEF DeleteCluster, KindDelete, At, Goto, TypeOK, local, aside
  <2>2. ~archived[target[d]] /\ ~IsReady(target[d]) /\ target[d] \in Launchers
    BY <1>b, <1>g, <2>1 DEF Begun, DestroyInv
  <2>3. DestroyInv(d)'
    BY <1>b, <2>1, <2>2 DEF DestroyInv, Names, Made, IsReady, Readable, Begun, Resting
  <2>4. SessionInv(l)'
    BY <1>b, <2>1, <2>2 DEF SessionInv, Names, Made, IsReady, Readable
  <2> QED
    BY <2>1, <2>2, <2>3, <2>4
<1>6. ASSUME NEW ok \in BOOLEAN, ComposeDown(d, ok)
      PROVE  DestroyInv(d)' /\ SessionInv(l)'
  <2>1. /\ pc[d] = "compose-down" /\ mem'[d] = mem[d] /\ ~saving'[d] /\ target' = target
        /\ pc'[d] = "fail" \/ (pc'[d] = "revoke" /\ compose'[target[d]] = "none")
        /\ meta' = meta /\ archived' = archived /\ cluster' = cluster /\ key' = key
        /\ orphan' = orphan
        /\ compose'[target[d]] # "none" => compose[target[d]] # "none"
    BY <1>6, <1>a, <1>b DEF ComposeDown, Down, At, Goto, TypeOK, local, aside
  <2>2. ~archived[target[d]] /\ ~IsReady(target[d]) /\ target[d] \in Launchers
    BY <1>b, <1>g, <2>1 DEF Begun, DestroyInv
  <2>3. DestroyInv(d)'
    BY <1>b, <2>1, <2>2 DEF DestroyInv, Names, Made, IsReady, Readable, Begun, Resting
  <2>4. SessionInv(l)'
    BY <1>b, <2>1, <2>2 DEF SessionInv, Names, Made, IsReady, Readable
  <2> QED
    BY <2>1, <2>2, <2>3, <2>4
<1>7. CASE Revoke(d)
  <2>1. /\ pc[d] = "revoke" /\ mem'[d] = mem[d] /\ ~saving'[d] /\ target' = target
        /\ pc'[d] = "archive" /\ target[d] \in Launchers
        /\ meta' = meta /\ archived' = archived /\ cluster' = cluster /\ compose' = compose
        /\ orphan' = orphan
    BY <1>7, <1>a, <1>b DEF Revoke, At, Goto, TypeOK, local, aside, docker
  <2>2. ~archived[target[d]] /\ ~IsReady(target[d]) /\ Names(mem[d], target[d])
    BY <1>g, <2>1 DEF Begun, DestroyInv, Resting
  <2>3. key'[target[d]] # "recorded" /\ key'[target[d]] \in {key[target[d]], "revoked"}
    <3>1. CASE mem[d].hash
      BY <1>7, <2>1, <3>1 DEF Revoke, TypeOK
    <3>2. CASE ~mem[d].hash
      BY <1>7, <2>2, <3>2 DEF Revoke, Names
    <3> QED
      BY <3>1, <3>2
  <2>4. DestroyInv(d)'
    BY <1>b, <2>1, <2>2, <2>3 DEF DestroyInv, Names, Made, IsReady, Readable, Begun, Resting
  <2>5. SessionInv(l)'
    BY <1>b, <2>1, <2>2, <2>3 DEF SessionInv, Names, Made, IsReady, Readable
  <2> QED
    BY <2>1, <2>4, <2>5
<1>8. CASE Archive(d)
  <2>1. /\ pc[d] = "archive" /\ mem'[d] = mem[d] /\ ~saving'[d] /\ target' = target
        /\ pc'[d] = "leave-ok" /\ target[d] \in Launchers
        /\ meta'[target[d]] = None /\ archived'[target[d]]
        /\ cluster' = cluster /\ compose' = compose /\ key' = key /\ orphan' = orphan
    BY <1>8, <1>a, <1>b DEF Archive, At, Goto, TypeOK, local, aside, docker
  <2>2. Gone(target[d]) /\ Names(mem[d], target[d]) /\ ~Made(target[d])
    BY <1>b, <2>1 DEF DestroyInv, Gone, Resting
  <2>3. DestroyInv(d)'
    BY <1>b, <2>1, <2>2 DEF DestroyInv, Names, Made, IsReady, Readable, Begun, Resting
  <2>4. SessionInv(l)'
    BY <1>b, <2>1, <2>2 DEF SessionInv, Made, IsReady, Readable, Gone
  <2> QED
    BY <2>1, <2>3, <2>4
<1>9. CASE Write(d)
  <2>1. /\ saving[d] /\ pc' = pc /\ mem' = mem /\ ~saving'[d] /\ target' = target
        /\ pc[d] \in {"delete-cluster", "compose-down", "leave-failed"}
        /\ archived' = archived /\ cluster' = cluster /\ compose' = compose
        /\ orphan' = orphan
    BY <1>9, <1>a DEF Write, TypeOK, docker, aside, StepInv
  <2>2. target[d] \in Launchers /\ pc[d] \in Inside /\ ~archived[target[d]]
    BY <1>b, <2>1 DEF Inside, DestroySteps, Resting, DestroyInv
  <2>3. Names(mem[d], target[d]) /\ mem[d].status # "ready"
    BY <2>1 DEF DestroyInv, Resting
  <2>4. meta'[target[d]] = mem[d] /\ key' = key
    BY <1>9, <1>a, <2>2, <2>3 DEF Write, Names, TypeOK
  <2>5. DestroyInv(d)'
    BY <1>b, <2>1, <2>2, <2>3, <2>4 DEF DestroyInv, Names, Made, IsReady, Readable, Begun, Resting
  <2>6. SessionInv(l)'
    BY <1>a, <1>b, <2>1, <2>2, <2>3, <2>4 DEF SessionInv, Names, Made, IsReady, Readable
  <2> QED
    BY <2>1, <2>2, <2>5, <2>6
<1>10. ASSUME NEW result \in {"ok", "over"}, End(d, result), result = "ok" => pc[d] = "leave-ok"
       PROVE  DestroyInv(d)'
  <2>1. /\ pc'[d] = result /\ ~saving'[d] /\ \A m \in Launchers : SameStore(m)
        /\ result = "ok" => target'[d] = target[d]
    BY <1>10, <1>a, EndEffect
  <2>2. result = "ok" => archived'[target'[d]]
    BY <1>10, <2>1, <1>b DEF DestroyInv, SameStore
  <2> QED
    BY <1>10, <2>1, <2>2 DEF DestroyInv, Begun, Inside, Resting
<1>11. CASE LockFails(d) \/ Leave(d)
  <2>1. SameSession(l)
    BY <1>11, <1>a, LeaveEffect
  <2>2. DestroyInv(d)'
    BY <1>10, <1>11 DEF LockFails, Leave
  <2> QED
    BY <1>b, <1>c, <2>1, <2>2
<1>12. CASE Crash(d)
  <2>1. DestroyInv(d)'
    BY <1>10, <1>12 DEF Crash
  <2>2. /\ SameStore(l) /\ (Command(d) = {} => SameSession(l))
        /\ orphan'[l] \subseteq orphan[l] \cup Command(d)
    BY <1>12, <1>a, CrashEffect
  <2>3. Command(d) \cap Making = {} /\ (Command(d) # {} => pc[d] \in Begun)
    BY DEF Command, Commands, Making, At, StepInv, DestroySteps, Begun, Resting
  <2>4. CASE Command(d) = {}
    BY <1>b, <1>c, <2>1, <2>2, <2>4
  <2>5. CASE Command(d) # {}
    <3>1. ~IsReady(l)
      BY <1>b, <2>3, <2>5 DEF DestroyInv
    <3>2. Made(l)' => Made(l)
      BY <2>2, <2>3 DEF Made
    <3>3. "create-cluster" \in orphan'[l] => "create-cluster" \in orphan[l]
      BY <2>2, <2>3 DEF Making
    <3>4. SessionInv(l)'
      BY <1>b, <2>2, <3>1, <3>2, <3>3
         DEF SessionInv, SameStore, Names, IsReady, Readable, Gone
    <3> QED
      BY <2>1, <3>4
  <2> QED
    BY <2>4, <2>5
<1> QED
  BY <1>2, <1>3, <1>4, <1>5, <1>6, <1>7, <1>8, <1>9, <1>11, <1>12, <1>a DEF Acts, Destroy

\* A destroy only removes: what another one has removed stays removed, and a
\* session stays archived.
LEMMA DestroyOnlyRemoves ==
    ASSUME TypeOK, StepInv, NEW d \in Destroyers, Acts(d), NEW l \in Launchers,
           target[d] = l /\ pc[d] \notin {"idle", "over"} => DestroyInv(d)
    PROVE  /\ cluster'[l] => cluster[l]
           /\ key'[l] \in {key[l], "revoked"}
           /\ archived[l] => archived'[l]
           /\ orphan'[l] \cap Making \subseteq orphan[l]
<1> DEFINE Removes == /\ cluster'[l] => cluster[l]
                      /\ key'[l] \in {key[l], "revoked"}
                      /\ archived[l] => archived'[l]
                      /\ orphan' = orphan
<1>a. d \in Procs /\ d \notin Launchers /\ Session(d) = target[d]
  BY ProcsAssumption DEF Procs, Session
<1>1. CASE Write(d)
  <2>1. CASE l # target[d]
    BY <1>a, <2>1, ActsFrame DEF Frame, SameSession, SameStore
  <2>2. CASE l = target[d]
    <3>1. ~(mem[d].hash /\ key[l] = "minted")
      BY <1>1, <2>2 DEF Write, DestroyInv, Names, StepInv, Resting
    <3> QED
      BY <1>1, <1>a, <2>2, <3>1 DEF Write, docker, aside
  <2> QED
    BY <2>1, <2>2
<1>2. CASE Destroy(d)
  <2>1. ASSUME NEW m \in Launchers, Resolve(d, m) PROVE Removes
    BY <2>1 DEF Resolve, docker
  <2>2. CASE Begin(d) \/ FailDestroy(d)
    BY <2>2 DEF Begin, FailDestroy, Save, docker, aside
  <2>3. CASE Revoke(d) \/ RevokeFails(d)
    BY <2>3 DEF Revoke, RevokeFails, docker, aside, TypeOK
  <2>4. CASE Archive(d)
    BY <2>4 DEF Archive, docker, aside, TypeOK
  <2>5. ASSUME NEW ok \in BOOLEAN, Load(d, ok) \/ DeleteCluster(d, ok) \/ ComposeDown(d, ok)
        PROVE  Removes
    BY <2>5 DEF Load, DeleteCluster, KindDelete, ComposeDown, Down, docker, aside, TypeOK
  <2> QED
    BY <1>2, <2>1, <2>2, <2>3, <2>4, <2>5 DEF Destroy
<1>3. CASE Lock(d) \/ LockFails(d) \/ Leave(d)
  BY <1>3 DEF Lock, LockFails, Leave, End, docker, aside
<1>4. CASE Crash(d)
  <2>1. SameStore(l) /\ orphan'[l] \subseteq orphan[l] \cup Command(d)
    BY <1>4, <1>a, CrashEffect
  <2>2. Command(d) \cap Making = {}
    BY DEF Command, Making, At, StepInv, DestroySteps, Resting
  <2> QED
    BY <2>1, <2>2 DEF SameStore
<1> QED
  BY <1>1, <1>2, <1>3, <1>4, <1>a DEF Acts

\* What a destroy knows stays true while others take steps.
LEMMA DestroyUndisturbed ==
    ASSUME TypeOK, StepInv, LockInv,
           \A e \in Destroyers :
               pc[e] \in {"idle", "over"} \/ early[target[e]] \/ DestroyInv(e),
           NEW d \in Destroyers, pc[d] \notin {"idle", "over"}, ~early[target[d]],
           NEW p \in Procs, p # d, Acts(p)
    PROVE  DestroyInv(d)'
<1>a. /\ d \in Procs /\ SameProcess(d) /\ pc'[d] = pc[d] /\ mem'[d] = mem[d]
      /\ saving'[d] = saving[d] /\ target'[d] = target[d] /\ DestroyInv(d)
      /\ target[d] \in Launchers /\ Ended(target[d])
  BY ActsFrame DEF Frame, SameProcess, Procs, StepInv
<1>1. CASE pc[d] \in Inside
  <2>1. SameSession(target[d])
    BY <1>1, LockOwns
  <2> QED
    BY <1>a, <2>1
       DEF SameSession, SameStore, DestroyInv, Names, Made, IsReady, Readable, Inside
<1>2. CASE pc[d] \in {"lock", "ok"}
  <2>1. ~saving[d]
    BY <1>2 DEF StepInv
  <2>2. /\ cluster'[target[d]] => cluster[target[d]]
        /\ key'[target[d]] \in {key[target[d]], "revoked"}
        /\ archived[target[d]] => archived'[target[d]]
        /\ orphan'[target[d]] \cap Making \subseteq orphan[target[d]]
    <3>1. CASE p \in Destroyers
      <4>1. target[p] = target[d] /\ pc[p] \notin {"idle", "over"} => DestroyInv(p)
        BY <3>1
      <4> QED
        BY <1>a, <3>1, <4>1, DestroyOnlyRemoves
    <3>2. CASE p \in Launchers
      <4>1. p # target[d]
        BY <1>a, <3>2, EndedRests
      <4> QED
        BY <1>a, <3>2, <4>1, ActsFrame DEF Frame, SameSession, SameStore, Session
    <3> QED
      BY <3>1, <3>2 DEF Procs
  <2> QED
    BY <1>2, <1>a, <2>1, <2>2 DEF DestroyInv, Names, Made, Begun, Inside, Resting, Making
<1> QED
  BY <1>1, <1>2 DEF StepInv, Inside, DestroySteps, Resting

----
(* Commands that outlive their process. *)

\* Such a command keeps what metadata.json says of the session.
LEMMA OrphanSession ==
    ASSUME TypeOK, NEW l \in Launchers, Orphan(l), NEW m \in Launchers, SessionInv(m)
    PROVE  SessionInv(m)'
<1>a. opt' = opt
  BY OrphanEffect
<1>1. CASE m # l
  BY <1>a, <1>1, OrphanEffect, SessionKept
<1>2. CASE m = l
  <2>1. /\ meta' = meta /\ archived' = archived /\ key' = key
        /\ orphan[l] # {} /\ orphan'[l] \subseteq orphan[l]
        /\ cluster'[l] => cluster[l] \/ "create-cluster" \in orphan[l]
        /\ compose'[l] # "none" => compose[l] # "none" \/ "compose-up" \in orphan[l]
    BY OrphanEffect
  <2>2. ~IsReady(l)
    BY <1>2, <2>1 DEF SessionInv
  <2>3. "create-cluster" \in orphan[l] \/ "compose-up" \in orphan[l] => Made(l)
    BY DEF Made, Making
  <2>4. Made(l)' => Made(l)
    BY <2>1 DEF Made
  <2> QED
    BY <1>2, <2>1, <2>2, <2>3, <2>4 DEF SessionInv, Names, IsReady, Readable, Gone
<1> QED
  BY <1>1, <1>2

\* And what a destroy has found and removed, since nothing is made meanwhile.
LEMMA OrphanDestroy ==
    ASSUME TypeOK, NEW l \in Launchers, Orphan(l), NEW d \in Destroyers,
           target[d] \in Launchers, DestroyInv(d), SessionInv(target[d])
    PROVE  DestroyInv(d)'
<1>1. /\ pc' = pc /\ mem' = mem /\ saving' = saving /\ target' = target
      /\ meta' = meta /\ archived' = archived /\ key' = key
  BY OrphanEffect
<1>2. CASE target[d] # l
  <2>1. SameSession(target[d])
    BY <1>2, OrphanEffect
  <2> QED
    BY <1>1, <2>1 DEF SameSession, SameStore, DestroyInv, Names, Made, IsReady, Readable
<1>3. CASE target[d] = l
  <2>1. /\ orphan'[l] \subseteq orphan[l]
        /\ cluster'[l] => cluster[l] \/ "create-cluster" \in orphan[l]
        /\ compose'[l] # "none" => compose[l] # "none" \/ "compose-up" \in orphan[l]
    BY OrphanEffect
  <2>2. /\ "create-cluster" \in orphan[l] \/ "compose-up" \in orphan[l] => Made(l)
        /\ Made(l)' => Made(l)
    BY <2>1 DEF Made, Making
  <2>3. pc[d] \notin Resting => ~Made(l)
    BY <1>3 DEF DestroyInv
  <2> QED
    BY <1>1, <1>3, <2>1, <2>2, <2>3 DEF DestroyInv, Names, IsReady, Readable, Begun, Inside,
       Resting
<1> QED
  BY <1>2, <1>3

----
(* The invariant, and what it says. *)

\* The inductive invariant.
LocalInv ==
    /\ TypeOK /\ StepInv /\ LockInv
    /\ \A l \in Launchers : early[l] \/ LaunchInv(l)
    /\ \A l \in Launchers : early[l] \/ SessionInv(l)
    /\ \A d \in Destroyers :
        pc[d] \in {"idle", "over"} \/ early[target[d]] \/ DestroyInv(d)
    /\ OnePort

\* It holds at the start.
LEMMA LocalInit == Init => LocalInv
<1> SUFFICES ASSUME Init PROVE LocalInv
  OBVIOUS
<1>1. TypeOK
  BY MetadataFields DEF Init, TypeOK, Steps, Resting
<1>2. StepInv
  BY ProcsAssumption DEF Init, StepInv, Procs, LaunchSteps, DestroySteps, Resting
<1>3. LockInv
  BY MetaAssumption DEF Init, LockInv, Inside, Resting
<1>4. ASSUME NEW l \in Launchers PROVE LaunchInv(l) /\ SessionInv(l)
  <2>1. /\ pc[l] = "idle" /\ meta[l] = None /\ ~archived[l] /\ ~cluster[l]
        /\ compose[l] = "none" /\ key[l] = "none" /\ mem[l] = NewMeta /\ orphan[l] = {}
    BY DEF Init, Procs
  <2>2. ~NewMeta.hash /\ NewMeta.status # "ready"
    BY DEF NewMeta
  <2> QED
    BY <2>1, <2>2 DEF LaunchInv, SessionInv, Composed, Clustered, BeforeKey, Readable,
       IsReady, Made
<1>5. ASSUME NEW d \in Destroyers PROVE pc[d] = "idle"
  BY DEF Init, Procs
<1>6. OnePort
  BY DEF Init, OnePort
<1> QED
  BY <1>1, <1>2, <1>3, <1>4, <1>5, <1>6 DEF LocalInv

\* Every step of a process keeps what is said of the sessions.
LEMMA SessionStep ==
    ASSUME LocalInv, TypeOK', StepInv', LockInv',
           (\A l \in Launchers : early[l] \/ LaunchInv(l))',
           NEW p \in Procs, Acts(p), NEW l \in Launchers, ~early'[l]
    PROVE  SessionInv(l)'
<1>a. /\ ~early[l] /\ l \in Procs /\ LaunchInv(l) /\ SessionInv(l)
      /\ opt' = opt
  BY EarlyOnce, ActsFrame DEF LocalInv, Procs, Frame
<1>1. CASE ~Ended(l)'
  BY <1>1, LaunchingNext
<1>2. CASE Ended(l)' /\ p = l
  <2>1. ~Ended(l)
    BY <1>2, EndedRests DEF LocalInv
  <2>2. SameSession(l) \/ Crash(l)
    BY <1>2, EndsQuietly DEF LocalInv
  <2> QED
    BY <1>a, <2>1, <2>2, SessionKept, KilledLaunch DEF LocalInv
<1>3. CASE p # l /\ Session(p) # l
  BY <1>a, <1>3, ActsFrame, SessionKept DEF LocalInv, Frame
<1>4. CASE Ended(l)' /\ p # l /\ Session(p) = l
  <2>1. p \in Destroyers /\ target[p] = l
    BY <1>4 DEF Session, Procs
  <2>2. DestroyFacts(p)
    BY <2>1 DEF LocalInv, DestroyFacts
  <2>3. ASSUME NEW m \in Launchers, Resolve(p, m) PROVE SessionInv(l)'
    BY <2>1, <2>2, <2>3, ResolveKeeps
  <2>4. CASE pc[p] \in {"idle", "over"} /\ \A m \in Launchers : ~Resolve(p, m)
    <3>1. ~saving[p]
      BY <2>1, <2>4 DEF LocalInv, StepInv
    <3>2. FALSE
      BY <2>1, <2>4, <3>1, ProcsAssumption
         DEF Acts, Destroy, Begin, Revoke, RevokeFails, Archive, FailDestroy, Load,
             DeleteCluster, ComposeDown, Write, Lock, LockFails, Leave, Crash, At, Resting
    <3> QED
      BY <3>2
  <2>5. CASE pc[p] \notin {"idle", "over"} /\ \A m \in Launchers : ~Resolve(p, m)
    BY <1>a, <2>1, <2>2, <2>5, DestroyKeeps
  <2> QED
    BY <2>3, <2>4, <2>5
<1> QED
  BY <1>1, <1>2, <1>3, <1>4

\* And what is said of the destroys.
LEMMA DestroyStep ==
    ASSUME LocalInv, NEW p \in Procs, Acts(p), NEW d \in Destroyers,
           pc'[d] \notin {"idle", "over"}, ~early'[target'[d]], StepInv'
    PROVE  DestroyInv(d)'
<1>a. d \in Procs /\ \A l \in Launchers : early[l] => early'[l]
  BY EarlyOnce DEF LocalInv, Procs
<1>1. CASE d # p
  <2>1. SameProcess(d)
    BY <1>a, <1>1, ActsFrame DEF LocalInv, Frame
  <2>2. pc[d] \notin {"idle", "over"} /\ target[d] \in Launchers /\ ~early[target[d]]
    BY <1>a, <2>1 DEF SameProcess, LocalInv, StepInv
  <2> QED
    BY <1>1, <2>2, DestroyUndisturbed DEF LocalInv
<1>2. CASE d = p
  <2>1. DestroyFacts(d)
    BY DEF LocalInv, DestroyFacts
  <2>2. ASSUME NEW m \in Launchers, Resolve(d, m) PROVE DestroyInv(d)'
    BY <2>1, <2>2, ResolveKeeps
  <2>3. CASE \A m \in Launchers : ~Resolve(d, m)
    <3>1. pc[d] \notin {"idle", "over"}
      <4>1. CASE pc[d] \in {"idle", "over"}
        <5>1. ~saving[d]
          BY <4>1 DEF LocalInv, StepInv
        <5> QED
          BY <1>2, <2>3, <4>1, <5>1, ProcsAssumption
             DEF Acts, Destroy, Begin, Revoke, RevokeFails, Archive, FailDestroy, Load,
                 DeleteCluster, ComposeDown, Write, Lock, LockFails, Leave, Crash, At,
                 Resting
      <4> QED
        BY <4>1
    <3>2. target[d] \in Launchers /\ early' = early
      BY <1>2, <2>3, <3>1, EarlyOnce DEF LocalInv, StepInv
    <3>3. CASE early[target[d]]
      <4>1. ASSUME NEW result, End(d, result) PROVE target'[d] = target[d] \/ pc'[d] = result
        BY <1>a, <4>1, EndEffect DEF LocalInv
      <4>2. CASE LockFails(d)
        <5>1. End(d, "over")
          BY <4>2 DEF LockFails
        <5> QED
          BY <1>a, <3>2, <3>3, <4>1, <5>1, EndEffect DEF LocalInv
      <4>3. CASE Crash(d)
        <5>1. End(d, "over")
          BY <4>3 DEF Crash
        <5> QED
          BY <1>a, <3>2, <3>3, <4>1, <5>1, EndEffect DEF LocalInv
      <4>4. CASE Leave(d)
        <5>1. End(d, "ok") \/ End(d, "over")
          BY <4>4 DEF Leave
        <5> QED
          BY <1>a, <3>2, <3>3, <5>1, EndEffect DEF LocalInv
      <4>5. CASE ~LockFails(d) /\ ~Crash(d) /\ ~Leave(d)
        <5>1. Destroy(d) \/ Write(d) \/ Lock(d)
          BY <1>2, <1>a, <4>5, ProcsAssumption DEF Acts
        <5>2. target' = target
          BY <2>3, <5>1
             DEF Destroy, Begin, Revoke, RevokeFails, Archive, FailDestroy, Load,
                 DeleteCluster, ComposeDown, Write, Lock, Save, local
        <5> QED
          BY <3>2, <3>3, <5>2
      <4> QED
        BY <4>2, <4>3, <4>4, <4>5
    <3>4. CASE ~early[target[d]]
      BY <1>2, <2>1, <2>3, <3>1, <3>2, <3>4, DestroyKeeps
    <3> QED
      BY <3>3, <3>4
  <2> QED
    BY <2>2, <2>3
<1> QED
  BY <1>1, <1>2

\* Every step keeps it.
LEMMA LocalStep == LocalInv /\ [Next]_vars => LocalInv'
<1> SUFFICES ASSUME LocalInv, [Next]_vars PROVE LocalInv'
  OBVIOUS
<1>1. TypeOK' /\ StepInv' /\ LockInv'
  <2>1. UNCHANGED vars => TypeOK'
    BY DEF LocalInv, TypeOK, vars, docker, local, aside
  <2> QED
    BY <2>1, OneActs, ActsType, OrphanType, StepInvariant, LockInvariant DEF LocalInv
<1>2. (\A l \in Launchers : early[l] \/ LaunchInv(l))'
  BY LaunchInvariant DEF LocalInv
<1>3. CASE UNCHANGED vars
  <2>1. (\A l \in Launchers : early[l] \/ SessionInv(l))' /\ OnePort'
    BY <1>3 DEF LocalInv, SessionInv, OnePort, Names, Made, IsReady, Readable, Serves, Gone,
       vars, docker, local, aside
  <2>2. ASSUME NEW d \in Destroyers
        PROVE  (pc[d] \in {"idle", "over"} \/ early[target[d]] \/ DestroyInv(d))'
    <3>1. pc[d] \in {"idle", "over"} \/ early[target[d]] \/ DestroyInv(d)
      BY DEF LocalInv
    <3> QED
      BY <1>3, <3>1 DEF DestroyInv, Names, Made, IsReady, Readable, vars, docker, local, aside
  <2> QED
    BY <1>1, <1>2, <2>1, <2>2 DEF LocalInv
<1>4. ASSUME NEW p \in Procs, Acts(p) PROVE LocalInv'
  <2>1. OnePort'
    BY <1>4, PortInvariant DEF LocalInv
  <2>2. ASSUME NEW d \in Destroyers
        PROVE  (pc[d] \in {"idle", "over"} \/ early[target[d]] \/ DestroyInv(d))'
    BY <1>1, <1>4, DestroyStep
  <2>3. ASSUME NEW l \in Launchers PROVE (early[l] \/ SessionInv(l))'
    BY <1>1, <1>2, <1>4, SessionStep
  <2> QED
    BY <1>1, <1>2, <2>1, <2>2, <2>3 DEF LocalInv
<1>5. ASSUME NEW o \in Launchers, Orphan(o) PROVE LocalInv'
  <2>a. TypeOK /\ early' = early /\ pc' = pc /\ target' = target
    BY <1>5, OrphanEffect DEF LocalInv
  <2>1. OnePort'
    BY <1>5, PortInvariant DEF LocalInv
  <2>2. ASSUME NEW d \in Destroyers
        PROVE  (pc[d] \in {"idle", "over"} \/ early[target[d]] \/ DestroyInv(d))'
    <3>1. CASE pc[d] \in {"idle", "over"} \/ early[target[d]]
      BY <2>a, <3>1
    <3>2. CASE pc[d] \notin {"idle", "over"} /\ ~early[target[d]]
      <4>1. target[d] \in Launchers /\ DestroyInv(d) /\ SessionInv(target[d])
        BY <3>2 DEF LocalInv, StepInv
      <4> QED
        BY <1>5, <2>a, <4>1, OrphanDestroy
    <3> QED
      BY <3>1, <3>2
  <2>3. ASSUME NEW l \in Launchers PROVE (early[l] \/ SessionInv(l))'
    <3>1. early[l] \/ SessionInv(l)
      BY DEF LocalInv
    <3> QED
      BY <1>5, <2>a, <3>1, OrphanSession
  <2> QED
    BY <1>1, <1>2, <2>1, <2>2, <2>3 DEF LocalInv
<1> QED
  BY <1>3, <1>4, <1>5, OneActs

\* So it always holds.
THEOREM LocalInvariant == Spec => []LocalInv
BY LocalInit, LocalStep, PTL DEF Spec

\* Whatever launches race and whoever is killed, a session that is listed as
\* ready, and that no destroy read early, has its containers, its cluster and its
\* key, and the port to itself.
THEOREM ReadyHasItsStack == Spec => []ReadyServes
<1>1. LocalInv => ReadyServes
  BY DEF LocalInv, SessionInv, IsReady, Serves, OnePort, PortFree, ReadyServes
<1> QED
  BY <1>1, LocalInvariant, PTL

\* What launches and their commands leave in docker belongs to a session that is
\* listed, or whose metadata.json somebody is just rewriting or was killed
\* rewriting, or that a destroy read early.
THEOREM NothingIsLostInDocker == Spec => []DockerIsListed
<1>1. LocalInv => DockerIsListed
  BY DEF LocalInv, SessionInv, Readable, Listed, CutOff, DockerIsListed
<1> QED
  BY <1>1, LocalInvariant, PTL

\* A destroy that exits with success has left no cluster, container or key of
\* its session, though it worked on a copy of the metadata read before the lock,
\* unless a destroy read the session before its launch, and the commands that
\* left, were done.
THEOREM DestroyIsComplete == Spec => []DestroyLeavesNothing
<1>1. LocalInv => DestroyLeavesNothing
  <2> SUFFICES ASSUME LocalInv, NEW d \in Destroyers, pc[d] = "ok", ~early[target[d]]
               PROVE  LET l == target[d]
                      IN  archived[l] /\ ~cluster[l] /\ compose[l] = "none"
                            /\ key[l] # "recorded"
    BY DEF DestroyLeavesNothing
  <2>1. target[d] \in Launchers
    BY DEF LocalInv, StepInv
  <2> QED
    BY <2>1 DEF LocalInv, DestroyInv, SessionInv, Gone
<1> QED
  BY <1>1, LocalInvariant, PTL

====
