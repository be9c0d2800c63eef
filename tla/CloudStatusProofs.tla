---- MODULE CloudStatusProofs ----
(***************************************************************************)
(* What the metadata of a cloud session tells: a session listed as ready   *)
(* is whole, a failed launch is recorded, the API key can be found until   *)
(* it is revoked, and the status moves along the life cycle of             *)
(* SessionLifecycle.  The first two hold for destroys that overlap the     *)
(* launch; the others once a destroy waits for the launch to end.          *)
(***************************************************************************)
EXTENDS CloudSessionProofs

Doomed == {"destroying", "failed-destroy"}

\* A destroy records nothing but its own progress.
DoomedInv == \A d \in Destroyers : saving[d] => mem[d].status \in Doomed

\* How far the launch has come: terraform has applied, the address is saved,
\* the key is saved, the containers are up, the URL is saved.
Applied == (Phases \ {"stage", "terraform-init", "terraform-apply"})
               \cup {"redial", "mint-save", "url", "leave-ok"}
Addressed == Applied \ {"outputs"}
Keyed == {"compose-up", "url", "setup", "summary", "leave-ok"}
Up == Keyed \ {"compose-up"}
Linked == Up \ {"url"}

\* mintAIKey is saving the hash of the key.
Minting == key = "minted" /\ pc[Launcher] = "compose-up" /\ saving[Launcher]

\* What stands behind a launch at each of its steps.
LaunchInv ==
    /\ pc[Launcher] \in Applied => logs /\ vm = "tracked" /\ child = "none"
    /\ pc[Launcher] \in Addressed => mem[Launcher].ip
    /\ pc[Launcher] = "mint-save" => key \in {"minted", "recorded"}
    /\ pc[Launcher] \in Keyed /\ "ai" \in opt =>
        /\ mem[Launcher].hash
        /\ key = "recorded" \/ Minting
    /\ pc[Launcher] \in Up => stack
    /\ pc[Launcher] \in Linked => mem[Launcher].url
    /\ mem[Launcher].status = "ready" => pc[Launcher] \in {"leave-ok", "fail"}
    /\ saving[Launcher] => pc[Launcher] \notin {"applying", "fail"}

\* The steps of a destroy from the write of its first status to its last.
Begun == {"init", "destroy", "destroying", "fail"} \cup Settled

Ready == Readable(meta) /\ meta.status = "ready"

HandedOver ==
    /\ vm = "tracked" /\ child = "none" /\ stack
    /\ meta.ip /\ meta.url
    /\ "ai" \in opt => meta.hash /\ key = "recorded"

\* A session listed as ready is what the launch handed over, and nobody has
\* begun to destroy it.
ReadyInv ==
    Ready =>
        /\ HandedOver
        /\ pc[Launcher] \in {"leave-ok", "ok", "over"} /\ ~saving[Launcher]
        /\ \A d \in Destroyers : pc[d] \notin Begun

\* A launch that has called failLaunch leaves no session in "launching".
FailureInv ==
    pc[Launcher] \in {"leave-failed", "failed"} =>
        /\ Readable(meta) => meta.status # "launching"
        /\ saving[Launcher] => mem[Launcher].status = "failed"


\* Destroys wait for the launch to end, and no write of metadata.json is torn.
Sequential == Overlap = FALSE /\ "torn" \notin Faults /\ "full" \notin Faults

Ended == pc[Launcher] \in Terminals

\* The status the launch has in memory, by its step.
LaunchStatus(s) ==
    IF s = "leave-ok" THEN "ready" ELSE IF s = "leave-failed" THEN "failed" ELSE "launching"

\* Until the launch has ended nobody but it touches the session.
AloneInv ==
    ~Ended =>
        /\ \A d \in Destroyers : pc[d] = "idle"
        /\ ~archived
        /\ mem[Launcher].status = LaunchStatus(pc[Launcher])
        /\ key \in {"none", "minted", "recorded"}
        /\ key = "recorded" => mem[Launcher].hash
        /\ mem[Launcher].hash =>
            /\ pc[Launcher] \in Keyed \cup {"fail", "leave-failed"}
            /\ key = "recorded" \/ Minting
        /\ child # "none" => child = "apply" /\ pc[Launcher] = "applying"
        /\ pc[Launcher] # "idle" => dir /\ logs
        /\ pc[Launcher] \in {"idle", "new"} => meta = None /\ ~saving[Launcher]
        /\ pc[Launcher] \notin {"idle", "new"} =>
            meta = IF saving[Launcher] THEN Torn ELSE mem[Launcher]

\* What a destroy has in its copy and what it has done, by its step.
DestroyInv(d) ==
    /\ pc[d] \notin Resting =>
        /\ key = "recorded" => mem[d].hash
        /\ mem[d].hash => key \in {"recorded", "revoked"}
    /\ saving[d] => pc[d] \in {"init", "leave-failed"}
    /\ saving[d] /\ ~archived => meta = Torn
    /\ pc[d] \in Begun =>
        /\ mem[d].status = "destroying"
        /\ ~archived /\ ~saving[d] => meta = mem[d]
    /\ pc[d] \in {"archive", "archive-logs", "remove", "rmdir", "leave-ok", "ok"} =>
        key # "recorded"

\* The session once its launch has ended.
EndedInv ==
    Ended =>
        /\ ~saving[Launcher]
        /\ ~archived => dir /\ logs
        /\ ~archived /\ meta = None =>
            /\ key # "recorded" /\ child = "none"
            /\ \A d \in Destroyers : pc[d] \in Resting
        /\ archived => key # "recorded" /\ vm # "tracked" /\ child # "apply"
        /\ Readable(meta) =>
            /\ key = "recorded" => meta.hash
            /\ meta.hash => key \in {"recorded", "revoked"}
            /\ child = "apply" => meta.status \in {"launching"} \cup Doomed
            /\ child = "destroy" /\ ~archived => meta.status \in Doomed

StatusInv == AloneInv /\ (\A d \in Destroyers : DestroyInv(d)) /\ EndedInv

\* What Status shows, without the choice of the process that is saving.
ShownInv ==
    /\ archived => Status = "archived"
    /\ ~archived /\ meta = None => Status = "absent"
    /\ ~archived /\ Readable(meta) => Status = meta.status
    /\ ~archived => \A p \in Procs : saving[p] => meta = Torn /\ Status = mem[p].status
    /\ ~Ended =>
        Status = IF pc[Launcher] \in {"idle", "new"} THEN "absent"
                 ELSE LaunchStatus(pc[Launcher])
    /\ \A d \in Destroyers : pc[d] \in Begun /\ ~archived => Status = "destroying"

\* All that is known of the session when commands do not overlap.
SessionInv ==
    /\ TypeOK /\ SavingInv /\ LockInv /\ BilledInv /\ SuccessInv /\ DoomedInv
    /\ LaunchInv /\ StatusInv /\ ShownInv

----
(* What a step leaves alone. *)

SameProcess(q) == pc'[q] = pc[q] /\ mem'[q] = mem[q] /\ saving'[q] = saving[q]

Shared(p) == Runs(p) \/ WriteFails(p) \/ Crash(p)

\* The launch and the destroys are different processes.
LEMMA Actors ==
    /\ Launcher \in Procs
    /\ \A d \in Destroyers : d \in Procs /\ d # Launcher
    /\ \A p \in Procs : p = Launcher \/ p \in Destroyers
BY LauncherAssumption DEF Procs

\* A launch moves no destroy.
LEMMA LaunchFrame ==
    ASSUME TypeOK, Launch
    PROVE  /\ \A q \in Procs : q = Launcher \/ SameProcess(q)
           /\ UNCHANGED <<opt, vm, archived>>
<1>a. Launcher \in Procs
  BY Actors
<1>1. CASE NewSave \/ RecordBundle \/ SetPhase \/ FetchIP \/ MintSave \/ SetURL
           \/ MarkReady \/ FailLaunch
  BY <1>1, <1>a DEF NewSave, RecordBundle, SetPhase, FetchIP, MintSave, SetURL, MarkReady,
     FailLaunch, Save, Goto, SameProcess, TypeOK, cloud
<1>2. CASE RedialPanics
  BY <1>2, <1>a DEF RedialPanics, Drop, Goto, SameProcess, TypeOK, disk, cloud
<1>3. CASE NewDirs \/ PhaseFails \/ Apply \/ RedialDone \/ Mint \/ MintLost \/ ComposeUp
           \/ \E ph \in PlainPhases : PhaseDone(ph)
  BY <1>3, <1>a DEF NewDirs, PhaseFails, Apply, RedialDone, Mint, MintLost, ComposeUp,
     PhaseDone, Goto, SameProcess, TypeOK, disk, cloud, local
<1> QED
  BY <1>1, <1>2, <1>3 DEF Launch

\* Terraform's child touches the VM; its end moves only who waits for it.
LEMMA TerraformFrame ==
    ASSUME TypeOK, Terraform
    PROVE  /\ child # "none"
           /\ UNCHANGED <<opt, dir, logs, meta, archived, key, mem, saving>>
           /\ \A q \in Procs : pc[q] \notin {"applying", "destroying"} => pc'[q] = pc[q]
           /\ \A q \in Procs : pc'[q] # pc[q] => pc'[q] \in {"outputs", "revoke", "fail"}
<1>1. CASE ApplyCreates \/ ApplyRecords \/ DestroyDeletes
  BY <1>1 DEF ApplyCreates, ApplyRecords, DestroyDeletes, disk, local
<1>2. ASSUME NEW done, NEW next \in {"outputs", "revoke", "fail"}, ChildEnds(done, next)
      PROVE  /\ UNCHANGED <<opt, dir, logs, meta, archived, key, mem, saving>>
             /\ \A q \in Procs : pc[q] \notin {"applying", "destroying"} => pc'[q] = pc[q]
             /\ \A q \in Procs : pc'[q] # pc[q] => pc'[q] \in {"outputs", "revoke", "fail"}
  BY <1>2 DEF ChildEnds, disk, local
<1> QED
  BY <1>1, <1>2 DEF Terraform, ApplyEnds, DestroyEnds, ChildKilled

\* A destroy moves nobody else, and nothing shared before it has the lock.
LEMMA DestroyFrame ==
    ASSUME TypeOK, NEW d \in Destroyers, Destroy(d)
    PROVE  /\ \A q \in Procs : q = d \/ SameProcess(q)
           /\ UNCHANGED <<opt, phase, vm, stack>>
           /\ meta' \in {meta, None, Torn}
           /\ pc[d] \notin Inside => UNCHANGED <<logs, child, key, meta>>
<1>a. d \in Procs
  BY Actors
<1>1. CASE Begin(d) \/ FailDestroy(d)
  BY <1>1, <1>a DEF Begin, FailDestroy, At, Save, Goto, SameProcess, TypeOK, cloud, Inside,
     DestroySteps
<1>2. CASE Resolve(d) \/ Confirm(d) \/ Decline(d)
  BY <1>2, <1>a DEF Resolve, Confirm, Decline, Goto, SameProcess, TypeOK, disk, cloud, local
<1>3. ASSUME NEW ok \in BOOLEAN, LoadRunner(d, ok) \/ TerraformInit(d, ok)
      PROVE  /\ \A q \in Procs : q = d \/ SameProcess(q)
             /\ UNCHANGED <<opt, phase, vm, stack, logs, child, key, meta>>
  BY <1>3, <1>a DEF LoadRunner, TerraformInit, Goto, SameProcess, TypeOK, disk, cloud, local
<1>4. CASE TerraformDestroy(d) \/ Revoke(d) \/ RevokeFails(d)
  BY <1>4, <1>a DEF TerraformDestroy, Revoke, RevokeFails, At, Goto, SameProcess, TypeOK,
     disk, cloud, local, Inside, DestroySteps
<1>5. CASE ArchiveMeta(d) \/ ArchiveLogs(d) \/ RemoveFiles(d)
  BY <1>5, <1>a DEF ArchiveMeta, ArchiveLogs, RemoveFiles, At, Goto,
     SameProcess, TypeOK, cloud, local, Inside, DestroySteps
<1>6. CASE RemoveDir(d) \/ ArchiveFails(d)
  BY <1>6, <1>a DEF RemoveDir, ArchiveFails, Goto, SameProcess, TypeOK, disk, cloud, local
<1> QED
  BY <1>1, <1>2, <1>3, <1>4, <1>5, <1>6 DEF Destroy

\* Writing, locking and the end of a process move nobody else.
LEMMA SharedFrame ==
    ASSUME TypeOK, NEW p \in Procs, Shared(p)
    PROVE  /\ \A q \in Procs : q = p \/ SameProcess(q)
           /\ UNCHANGED <<opt, phase, dir, logs, archived, vm, stack, child>>
           /\ ~Write(p) => UNCHANGED <<meta, key>>
<1>1. CASE Write(p) \/ WriteFails(p)
  BY <1>1 DEF Write, WriteFails, Goto, SameProcess, TypeOK, disk, cloud
<1>2. CASE OpenLock(p) \/ Flock(p)
  BY <1>2 DEF OpenLock, Flock, Goto, SameProcess, TypeOK, disk, cloud
<1>3. CASE Leave(p) \/ Crash(p)
  BY <1>3 DEF Leave, Crash, Drop, Goto, SameProcess, TypeOK, disk, cloud
<1> QED
  BY <1>1, <1>2, <1>3 DEF Shared, Runs

\* Every step is one of these.
LEMMA Cases ==
    ASSUME [Next]_vars
    PROVE  \/ Launch \/ Terraform
           \/ \E d \in Destroyers : Destroy(d)
           \/ \E p \in Procs : Shared(p)
           \/ UNCHANGED vars
BY DEF Next, Shared

----
(* What stands behind the launch. *)

\* A destroy saves nothing but "destroying" and "failed-destroy".
LEMMA DoomedInvariant == Spec => []DoomedInv
<1>1. Init => DoomedInv
  BY Actors DEF Init, DoomedInv
<1>2. TypeOK /\ SavingSteps /\ DoomedInv /\ [Next]_vars => DoomedInv'
  <2> SUFFICES ASSUME TypeOK, SavingSteps, DoomedInv, [Next]_vars PROVE DoomedInv'
    OBVIOUS
  <2>1. CASE Launch
    BY <2>1, Actors, LaunchFrame DEF SameProcess, DoomedInv
  <2>2. CASE Terraform
    BY <2>2, TerraformFrame DEF DoomedInv
  <2>3. ASSUME NEW d \in Destroyers, Destroy(d) PROVE DoomedInv'
    <3>1. saving'[d] => mem'[d].status \in Doomed
      <4>1. CASE Begin(d) \/ FailDestroy(d)
        BY <4>1, Actors DEF Begin, FailDestroy, Save, Doomed, TypeOK, Metadata
      <4>2. CASE Resolve(d)
        BY <4>2, Actors DEF Resolve, SavingSteps, Resting, Inside, LaunchSteps, Phases,
           DestroySteps, Leaving
      <4>3. CASE ~Begin(d) /\ ~FailDestroy(d) /\ ~Resolve(d)
        <5>1. UNCHANGED <<mem, saving>>
          BY <2>3, <4>3 DEF Destroy, Confirm, Decline, TerraformDestroy, LoadRunner,
             TerraformInit, Revoke, RevokeFails, ArchiveMeta, ArchiveLogs, RemoveFiles,
             RemoveDir, ArchiveFails, local
        <5> QED
          BY <5>1 DEF DoomedInv
      <4> QED
        BY <4>1, <4>2, <4>3
    <3> QED
      BY <2>3, <3>1, Actors, DestroyFrame DEF SameProcess, DoomedInv
  <2>4. ASSUME NEW p \in Procs, Shared(p) PROVE DoomedInv'
    <3>1. saving'[p] => saving[p] /\ mem'[p] = mem[p]
      BY <2>4 DEF Shared, Runs, Write, WriteFails, OpenLock, Flock, Leave, Crash, Drop, TypeOK
    <3> QED
      BY <2>4, <3>1, Actors, SharedFrame DEF SameProcess, DoomedInv
  <2>5. CASE UNCHANGED vars
    BY <2>5 DEF vars, local, DoomedInv
  <2> QED
    BY <2>1, <2>2, <2>3, <2>4, <2>5, Cases
<1> QED
  BY <1>1, <1>2, TypeCorrect, SavingInvariant, PTL DEF Spec

\* The pipeline runs through its phases in order.
LEMMA AfterApply ==
    ASSUME NEW ph \in PlainPhases
    PROVE  /\ After(ph) \in Phases \cup {"redial"}
           /\ After(ph) \in Applied => ph \in Addressed
           /\ After(ph) \in Keyed /\ "ai" \in opt => ph \in Linked
           /\ After(ph) \in Up => ph \in Linked
BY DEF PlainPhases, After, AfterBundle, Phases, Applied, Addressed, Keyed, Up, Linked

\* A step at which the launch, its session and the VM stay as they are.
LEMMA LaunchKept ==
    ASSUME LaunchInv, SameProcess(Launcher), UNCHANGED opt,
           pc[Launcher] \in Applied => UNCHANGED <<logs, vm, child, stack>>,
           pc[Launcher] \in Applied => key' \in {key, "recorded"}
    PROVE  LaunchInv'
BY DEF LaunchInv, SameProcess, Applied, Addressed, Keyed, Up, Linked, Minting, Phases

\* A launch that is not behind terraform apply has nothing to show yet.
LEMMA NotYetApplied ==
    ASSUME pc'[Launcher] \notin Applied,
           mem'[Launcher].status = "ready" => pc'[Launcher] = "fail",
           saving'[Launcher] => pc'[Launcher] \notin {"applying", "fail"}
    PROVE  LaunchInv'
BY DEF LaunchInv, Applied, Addressed, Keyed, Up, Linked, Phases

\* Each step of the pipeline leaves what the next ones rely on.
LEMMA LaunchLaunchInv == TypeOK /\ LaunchInv /\ Launch => LaunchInv'
<1> SUFFICES ASSUME TypeOK, LaunchInv, Launch PROVE LaunchInv'
  OBVIOUS
<1> DEFINE L == Launcher
<1>a. /\ L \in Procs /\ pc \in [Procs -> Steps] /\ mem \in [Procs -> Metadata]
      /\ saving \in [Procs -> BOOLEAN] /\ dir \in BOOLEAN
  BY Actors DEF TypeOK
<1>b. {"idle", "new", "record", "open", "over", "applying", "fail", "failed", "leave-failed",
       "stage", "terraform-init", "terraform-apply"} \cap Applied = {}
  BY DEF Applied, Phases
<1>c. ASSUME NEW s, Goto(L, s), s \notin Applied, s # "applying" \/ ~saving[L],
             pc[L] # "leave-ok", pc[L] # "fail", ~saving[L],
             UNCHANGED <<mem, saving>>
      PROVE  LaunchInv'
  BY <1>a, <1>c, NotYetApplied DEF Goto, LaunchInv
<1>1. CASE NewDirs \/ PhaseFails \/ Apply \/ MintLost
  BY <1>1, <1>b, <1>c DEF NewDirs, PhaseFails, Apply, Working, At, MintLost, local, Phases
<1>2. CASE NewSave \/ RecordBundle
  <2>1. /\ pc'[L] \in {"record", "open", "over"}
        /\ mem'[L].status # "ready"
    BY <1>2, <1>a DEF NewSave, RecordBundle, At, Save, Goto, NewMeta, LaunchInv
  <2> QED
    BY <2>1, <1>b, NotYetApplied
<1>3. CASE SetPhase
  <2>1. /\ pc[L] \in Phases /\ ~saving[L] /\ mem' = mem
        /\ pc' = [pc EXCEPT ![L] = IF dir THEN pc[L] ELSE "fail"]
        /\ saving' = [saving EXCEPT ![L] = dir]
        /\ UNCHANGED <<opt, logs, vm, child, stack, key>>
    BY <1>3, <1>a DEF SetPhase, Save, Goto, cloud
  <2>2. mem[L].status # "ready" /\ pc[L] # "applying" /\ pc[L] # "fail"
    BY <2>1 DEF LaunchInv, Phases
  <2>3. CASE dir
    BY <2>1, <2>2, <2>3, <1>a DEF LaunchInv, Minting
  <2>4. CASE ~dir
    BY <2>1, <2>2, <2>4, <1>a, <1>b, NotYetApplied
  <2> QED
    BY <2>3, <2>4
<1>4. ASSUME NEW ph \in PlainPhases, PhaseDone(ph) PROVE LaunchInv'
  <2>1. /\ pc[L] = ph /\ ~saving[L] /\ pc'[L] = After(ph)
        /\ UNCHANGED <<opt, logs, vm, child, stack, key, mem, saving>>
    BY <1>4, <1>a DEF PhaseDone, Working, At, Goto, disk, cloud, local
  <2>2. mem[L].status # "ready"
    BY <2>1 DEF LaunchInv, PlainPhases
  <2>3. Linked \subseteq Up /\ Up \subseteq Keyed /\ Keyed \subseteq Addressed
        /\ Addressed \subseteq Applied
    BY DEF Linked, Up, Keyed, Addressed, Applied, Phases
  <2>4. After(ph) \notin {"mint-save", "applying", "fail"}
    BY AfterApply DEF Phases
  <2>5. CASE After(ph) \in Keyed /\ "ai" \in opt
    <3>1. ph \in Keyed /\ mem[L].hash /\ key = "recorded"
      BY <2>1, <2>3, <2>5, AfterApply DEF LaunchInv, Minting
    <3> QED
      BY <2>1, <2>2, <2>3, <2>4, <3>1, AfterApply DEF LaunchInv
  <2>6. CASE ~(After(ph) \in Keyed /\ "ai" \in opt)
    BY <2>1, <2>2, <2>3, <2>4, <2>6, AfterApply DEF LaunchInv
  <2> QED
    BY <2>5, <2>6
<1>5. CASE FetchIP
  <2>1. /\ pc[L] = "outputs" /\ ~saving[L]
        /\ mem' = [mem EXCEPT ![L] = [mem[L] EXCEPT !.ip = TRUE]]
        /\ pc'[L] = IF dir THEN "wait-ssh" ELSE "fail"
        /\ saving'[L] = dir
        /\ UNCHANGED <<logs, vm, child>>
    BY <1>5, <1>a DEF FetchIP, Working, At, Save, Goto, cloud
  <2>2. mem'[L].ip /\ mem'[L].status = mem[L].status /\ mem[L].status # "ready"
    BY <2>1, <1>a DEF Metadata, LaunchInv
  <2> QED
    BY <2>1, <2>2, <1>b, NotYetApplied DEF LaunchInv, Applied, Addressed, Keyed, Up, Linked,
       Phases
<1>6. CASE RedialDone
  BY <1>6, <1>a DEF RedialDone, At, Goto, disk, cloud, local, LaunchInv, Applied, Addressed,
     Keyed, Up, Linked, Phases
<1>7. CASE RedialPanics
  BY <1>7, <1>a, NotYetApplied DEF RedialPanics, Drop, Goto, NewMeta, Applied, Phases
<1>8. CASE Mint
  BY <1>8, <1>a DEF Mint, Working, At, Goto, disk, local, LaunchInv, Applied, Addressed,
     Keyed, Up, Linked, Phases
<1>9. CASE MintSave
  <2>1. /\ pc[L] = "mint-save" /\ ~saving[L]
        /\ mem' = [mem EXCEPT ![L] = [mem[L] EXCEPT !.hash = TRUE]]
        /\ pc'[L] = IF dir THEN "compose-up" ELSE "fail"
        /\ saving'[L] = dir
        /\ UNCHANGED <<opt, logs, vm, child, key>>
    BY <1>9, <1>a DEF MintSave, At, Save, Goto, cloud
  <2>2. /\ mem'[L].hash /\ mem'[L].status = mem[L].status /\ mem[L].status # "ready"
        /\ mem'[L].ip = mem[L].ip
    BY <2>1, <1>a DEF Metadata, LaunchInv
  <2>3. /\ logs /\ vm = "tracked" /\ child = "none" /\ mem[L].ip
        /\ key \in {"minted", "recorded"}
    BY <2>1 DEF LaunchInv, Applied, Addressed
  <2>4. CASE dir
    BY <2>1, <2>2, <2>3, <2>4 DEF LaunchInv, Minting, Up, Linked, Keyed
  <2>5. CASE ~dir
    BY <2>1, <2>2, <2>5, <1>b, NotYetApplied
  <2> QED
    BY <1>a, <2>4, <2>5
<1>10. CASE ComposeUp
  <2>1. /\ pc[L] = "compose-up" /\ ~saving[L] /\ stack'
        /\ pc'[L] \in {"url", "fail"}
        /\ UNCHANGED <<opt, logs, vm, child, key, mem, saving>>
    BY <1>10, <1>a DEF ComposeUp, Working, At, Goto, disk, local
  <2> QED
    BY <2>1 DEF LaunchInv, Minting, Applied, Addressed, Keyed, Up, Linked, Phases
<1>11. CASE SetURL
  <2>1. /\ pc[L] = "url" /\ ~saving[L]
        /\ mem' = [mem EXCEPT ![L] = [mem[L] EXCEPT !.url = TRUE]]
        /\ pc'[L] \in IF dir THEN {"setup", "summary"} ELSE {"fail"}
        /\ saving'[L] = dir
        /\ UNCHANGED <<opt, logs, vm, child, stack, key>>
    BY <1>11, <1>a DEF SetURL, At, Save, Goto, cloud
  <2>2. /\ mem'[L].url /\ mem'[L].status = mem[L].status /\ mem[L].status # "ready"
        /\ mem'[L].ip = mem[L].ip /\ mem'[L].hash = mem[L].hash
    BY <2>1, <1>a DEF Metadata, LaunchInv
  <2> QED
    BY <2>1, <2>2, <1>b, NotYetApplied DEF LaunchInv, Minting, Applied, Addressed, Keyed, Up,
       Linked, Phases
<1>12. CASE MarkReady
  <2>1. /\ pc[L] = "summary" /\ ~saving[L]
        /\ mem' = [mem EXCEPT ![L] = [mem[L] EXCEPT !.status = "ready"]]
        /\ pc'[L] = IF dir THEN "leave-ok" ELSE "fail"
        /\ saving'[L] = dir
        /\ UNCHANGED <<opt, logs, vm, child, stack, key>>
    BY <1>12, <1>a DEF MarkReady, Working, At, Save, Goto, cloud
  <2>2. mem'[L].url = mem[L].url /\ mem'[L].ip = mem[L].ip /\ mem'[L].hash = mem[L].hash
    BY <2>1, <1>a DEF Metadata
  <2> QED
    BY <2>1, <2>2, <1>b, NotYetApplied DEF LaunchInv, Minting, Applied, Addressed, Keyed, Up,
       Linked, Phases
<1>13. CASE FailLaunch
  <2>1. pc'[L] = "leave-failed" /\ mem'[L].status = "failed"
    BY <1>13, <1>a DEF FailLaunch, Save, Goto, Metadata
  <2> QED
    BY <2>1, <1>b, NotYetApplied
<1> QED
  BY <1>1, <1>2, <1>3, <1>4, <1>5, <1>6, <1>7, <1>8, <1>9, <1>10, <1>11, <1>12, <1>13
     DEF Launch

\* What stands behind the launch, throughout.
LEMMA LaunchInvariant == Spec => []LaunchInv
<1>1. Init => LaunchInv
  BY Actors DEF Init, LaunchInv, NewMeta, Applied, Addressed, Keyed, Up, Linked, Phases
<1>2. TypeOK /\ ChildInv /\ LockInv /\ BilledInv /\ LaunchInv /\ [Next]_vars => LaunchInv'
  <2> SUFFICES ASSUME TypeOK, ChildInv, LockInv, BilledInv, LaunchInv, [Next]_vars
               PROVE  LaunchInv'
    OBVIOUS
  <2> DEFINE L == Launcher
  <2>a. Applied \subseteq Inside
    BY DEF Applied, Inside, LaunchSteps, Phases, Leaving
  <2>1. CASE Launch
    BY <2>1, LaunchLaunchInv
  <2>2. CASE Terraform
    <3>1. CASE pc'[L] = pc[L]
      <4>1. SameProcess(L) /\ opt' = opt /\ pc[L] \notin Applied
        BY <2>2, <3>1, TerraformFrame DEF SameProcess, LaunchInv
      <4> QED
        BY <4>1, LaunchKept
    <3>2. CASE pc'[L] # pc[L]
      <4>1. pc[L] = "applying" /\ pc'[L] \in {"outputs", "fail"} /\ child = "apply"
        <5>1. pc[L] # "destroying"
          BY DEF LockInv, Common, Resting, Leaving, LaunchSteps, Phases
        <5>2. pc[L] = "applying" /\ child = "apply"
          BY <2>2, <3>2, <5>1, Actors, TerraformFrame DEF ChildInv
        <5> QED
          BY <2>2, <3>2, <5>2, Actors DEF Terraform, ApplyCreates, ApplyRecords,
             DestroyDeletes, ChildKilled, ApplyEnds, DestroyEnds, ChildEnds
      <4>2. ~saving[L] /\ mem[L].status # "ready" /\ UNCHANGED <<mem, saving, logs>>
        BY <2>2, <4>1, TerraformFrame DEF LaunchInv
      <4>3. CASE pc'[L] = "fail"
        BY <4>2, <4>3, NotYetApplied DEF Applied, Phases
      <4>4. CASE pc'[L] = "outputs"
        <5>1. vm' = "tracked" /\ child' = "none" /\ logs
          BY <2>2, <3>2, <4>1, <4>4, Actors DEF Terraform, ApplyCreates, ApplyRecords,
             DestroyDeletes, ChildKilled, ApplyEnds, DestroyEnds, ChildEnds, BilledInv
        <5> QED
          BY <4>2, <4>4, <5>1 DEF LaunchInv, Addressed, Keyed, Up, Linked
      <4> QED
        BY <4>1, <4>3, <4>4
    <3> QED
      BY <3>1, <3>2
  <2>3. ASSUME NEW d \in Destroyers, Destroy(d) PROVE LaunchInv'
    <3>1. SameProcess(L) /\ UNCHANGED <<opt, vm, stack>>
      BY <2>3, Actors, DestroyFrame
    <3>2. pc[L] \in Applied => pc[d] \notin Inside
      BY <2>a, Actors, Alone DEF LaunchInv
    <3>3. pc[L] \in Applied => UNCHANGED <<logs, child, key>>
      BY <2>3, <3>2, DestroyFrame
    <3> QED
      BY <3>1, <3>3, LaunchKept
  <2>4. ASSUME NEW p \in Procs, Shared(p) PROVE LaunchInv'
    <3>1. key' \in {key, "recorded"}
      BY <2>4, SharedFrame DEF Write
    <3>2. UNCHANGED <<opt, logs, vm, stack, child>>
      BY <2>4, SharedFrame
    <3>3. CASE p # L
      BY <2>4, <3>1, <3>2, <3>3, Actors, SharedFrame, LaunchKept
    <3>4. CASE p = L
      <4>1. CASE Write(L)
        <5>1. UNCHANGED <<pc, mem>> /\ saving'[L] = FALSE /\ saving[L]
              /\ key' = IF key = "minted" /\ mem[L].hash THEN "recorded" ELSE key
          BY <4>1, Actors DEF Write, TypeOK
        <5> QED
          BY <3>2, <5>1 DEF LaunchInv, Minting
      <4>2. CASE WriteFails(L)
        <5>1. /\ saving[L] /\ ~saving'[L] /\ UNCHANGED mem
              /\ pc'[L] \in {"leave-failed", "over", "fail"}
          BY <4>2, Actors DEF WriteFails, Goto, TypeOK
        <5>2. mem[L].status = "ready" => pc'[L] = "fail"
          BY <4>2, Actors DEF WriteFails, Goto, TypeOK, LaunchInv
        <5> QED
          BY <5>1, <5>2, NotYetApplied DEF Applied, Phases
      <4>3. CASE OpenLock(L) \/ Flock(L)
        <5>1. /\ pc[L] \in {"open", "flock"} /\ ~saving[L] /\ UNCHANGED <<mem, saving>>
              /\ pc'[L] \in {"flock", "over", "stage"}
          BY <4>3, Actors DEF OpenLock, Flock, At, Goto, TypeOK
        <5> QED
          BY <5>1, NotYetApplied DEF LaunchInv, Applied, Phases
      <4>4. CASE Leave(L) \/ Crash(L)
        BY <4>4, Actors, NotYetApplied DEF Leave, Crash, Drop, Goto, NewMeta, TypeOK, Applied,
           Phases
      <4> QED
        BY <2>4, <3>4, <4>1, <4>2, <4>3, <4>4 DEF Shared, Runs
    <3> QED
      BY <3>3, <3>4
  <2>5. CASE UNCHANGED vars
    BY <2>5, LaunchKept DEF vars, disk, cloud, local, SameProcess
  <2> QED
    BY <2>1, <2>2, <2>3, <2>4, <2>5, Cases
<1> QED
  BY <1>1, <1>2, TypeCorrect, ChildInvariant, LockInvariant, BilledInvariant, PTL DEF Spec

----
(* What is listed as ready. *)

\* The launch leaves no session ready before its last step.
LEMMA LaunchNotReady ==
    ASSUME TypeOK, ReadyInv, Launch
    PROVE  ~Ready /\ meta' \in {meta, Torn}
<1>1. pc[Launcher] \notin {"leave-ok", "ok", "over"}
  BY DEF Launch, NewDirs, NewSave, RecordBundle, SetPhase, PhaseFails, PhaseDone, Apply,
     FetchIP, RedialDone, RedialPanics, Mint, MintLost, MintSave, ComposeUp, SetURL,
     MarkReady, FailLaunch, Working, At, Phases, PlainPhases
<1>2. meta' \in {meta, Torn}
  BY DEF Launch, NewDirs, NewSave, RecordBundle, SetPhase, PhaseFails, PhaseDone, Apply,
     FetchIP, RedialDone, RedialPanics, Mint, MintLost, MintSave, ComposeUp, SetURL,
     MarkReady, FailLaunch, Save, disk
<1> QED
  BY <1>1, <1>2 DEF ReadyInv

\* Begin puts an end to what is ready before terraform is called.
LEMMA DestroyReady ==
    ASSUME TypeOK, SuccessInv, ReadyInv, NEW d \in Destroyers, Destroy(d)
    PROVE  ReadyInv'
<1>1. meta' \in {meta, None, Torn}
  BY DestroyFrame
<1>2. CASE ~Ready
  BY <1>1, <1>2, MetaAssumption DEF Ready, Readable, ReadyInv
<1>3. CASE Ready
  <2>1. HandedOver /\ pc[d] \notin Begun /\ meta # None /\ dir
    BY <1>3 DEF ReadyInv, Ready, Readable, SuccessInv
  <2>2. CASE Begin(d)
    BY <2>1, <2>2, MetaAssumption DEF Begin, Save, ReadyInv, Ready, Readable
  <2>3. CASE ~Begin(d)
    <3>1. /\ UNCHANGED <<opt, meta, vm, child, stack, key>>
          /\ pc' = [pc EXCEPT ![d] = pc'[d]] /\ pc'[d] \notin Begun
      BY <2>1, <2>3, Actors DEF Destroy, Resolve, Confirm, Decline, TerraformDestroy,
         LoadRunner, TerraformInit, Revoke, RevokeFails, ArchiveMeta, ArchiveLogs,
         RemoveFiles, RemoveDir, ArchiveFails, FailDestroy, At, Goto, Begun, Settled, disk,
         cloud, TypeOK
    <3>2. SameProcess(Launcher)
      BY Actors, DestroyFrame
    <3>3. \A e \in Destroyers : pc'[e] \notin Begun
      BY <1>3, <3>1, Actors DEF ReadyInv, TypeOK
    <3> QED
      BY <1>3, <3>1, <3>2, <3>3 DEF ReadyInv, Ready, HandedOver, SameProcess
  <2> QED
    BY <2>2, <2>3
<1> QED
  BY <1>2, <1>3

\* Only the launch's own last write makes a session ready.
LEMMA SharedReady ==
    ASSUME TypeOK, LockInv, DoomedInv, LaunchInv, ReadyInv, NEW p \in Procs, Shared(p)
    PROVE  ReadyInv'
<1> DEFINE L == Launcher
<1>a. UNCHANGED <<opt, vm, stack, child>>
  BY SharedFrame
<1>1. CASE Write(p)
  <2>0. /\ meta' = IF meta = None THEN None ELSE mem[p]
        /\ pc' = pc /\ saving[p] /\ ~saving'[p]
        /\ key' = IF key = "minted" /\ mem[p].hash THEN "recorded" ELSE key
    BY <1>1 DEF Write, TypeOK
  <2> SUFFICES ASSUME Ready' PROVE ReadyInv'
    BY DEF ReadyInv
  <2>1. meta' = mem[p] /\ mem[p].status = "ready"
    BY <2>0, MetaAssumption DEF Ready, Readable
  <2>2. p = L /\ pc[L] = "leave-ok"
    BY <2>0, <2>1, Actors DEF DoomedInv, Doomed, LaunchInv
  <2>3. HandedOver' /\ logs
    BY <1>a, <2>0, <2>1, <2>2 DEF LaunchInv, Minting, HandedOver, Applied, Addressed, Keyed,
       Up, Linked
  <2>4. \A d \in Destroyers : pc[d] \notin Begun
    <3>1. Begun \subseteq Inside /\ pc[L] \in Inside
      BY <2>2 DEF Begun, Inside, Settled, DestroySteps, Leaving
    <3> QED
      BY <2>3, <3>1, Actors, Alone
  <2> QED
    BY <2>0, <2>2, <2>3, <2>4 DEF ReadyInv
<1>2. CASE ~Write(p)
  <2> SUFFICES ASSUME Ready PROVE ReadyInv'
    BY <1>2, SharedFrame DEF ReadyInv, Ready
  <2>1. UNCHANGED <<meta, key>>
    BY <1>2, SharedFrame
  <2>2. CASE p = L
    <3>1. pc[L] \in {"leave-ok", "ok", "over"} /\ ~saving[L]
      BY DEF ReadyInv
    <3>2. pc'[L] \in {"ok", "over"} /\ ~saving'[L]
      BY <1>2, <2>2, <3>1, Actors DEF Shared, Runs, WriteFails, OpenLock, Flock, Leave, Crash,
         Drop, Goto, At, TypeOK, Leaving, Resting
    <3>3. \A d \in Destroyers : pc'[d] = pc[d]
      BY <2>2, Actors, SharedFrame DEF SameProcess
    <3> QED
      BY <1>a, <2>1, <3>2, <3>3 DEF ReadyInv, Ready, HandedOver
  <2>3. CASE p # L
    <3>1. pc'[p] = pc[p] \/ pc'[p] \notin Begun
      BY <1>2, <2>3 DEF Shared, Runs, WriteFails, OpenLock, Flock, Leave, Crash, Drop, Goto,
         TypeOK, Begun, Settled
    <3>2. \A d \in Destroyers : pc'[d] \notin Begun
      BY <2>3, <3>1, Actors, SharedFrame DEF ReadyInv, SameProcess
    <3> QED
      BY <1>a, <2>1, <2>3, <3>2, Actors, SharedFrame
         DEF ReadyInv, Ready, HandedOver, SameProcess
  <2> QED
    BY <2>2, <2>3
<1> QED
  BY <1>1, <1>2

\* What is listed as ready has been handed over, throughout.
LEMMA ReadyInvariant == Spec => []ReadyInv
<1>1. Init => ReadyInv
  BY DEF Init, ReadyInv, Ready, Readable
<1>2. /\ TypeOK /\ LockInv /\ SuccessInv /\ DoomedInv /\ LaunchInv /\ ReadyInv
      /\ [Next]_vars
      => ReadyInv'
  <2> SUFFICES ASSUME TypeOK, LockInv, SuccessInv, DoomedInv, LaunchInv, ReadyInv,
                      [Next]_vars
               PROVE  ReadyInv'
    OBVIOUS
  <2>1. CASE Launch
    BY <2>1, LaunchNotReady, MetaAssumption DEF Ready, Readable, ReadyInv
  <2>2. CASE Terraform
    <3>1. ~Ready /\ meta' = meta
      BY <2>2, TerraformFrame DEF ReadyInv, HandedOver
    <3> QED
      BY <3>1 DEF ReadyInv, Ready
  <2>3. CASE UNCHANGED vars
    BY <2>3 DEF vars, disk, cloud, local, ReadyInv, Ready, HandedOver
  <2> QED
    BY <2>1, <2>2, <2>3, Cases, DestroyReady, SharedReady
<1> QED
  BY <1>1, <1>2, TypeCorrect, LockInvariant, SuccessInvariant, DoomedInvariant,
     LaunchInvariant, PTL DEF Spec

\* A cloud session listed as ready has its VM, its containers, its address and
\* URL and, when the launch uses AI, a live key whose handle is saved: whatever
\* crashes, fails or tears a write, and whoever destroys it meanwhile.
THEOREM ReadyIsWhole == Spec => []ReadyComplete
<1>1. ReadyInv => ReadyComplete
  BY DEF ReadyInv, Ready, HandedOver, ReadyComplete
<1> QED
  BY <1>1, ReadyInvariant, PTL

----
(* How a failed launch is recorded. *)

\* Once failLaunch has run the session is never again "launching".
LEMMA FailureInvariant ==
    ASSUME "redial" \notin Faults
    PROVE  Spec => []FailureInv
<1>1. Init => FailureInv
  BY Actors DEF Init, FailureInv
<1>2. TypeOK /\ LockInv /\ SuccessInv /\ DoomedInv /\ FailureInv /\ [Next]_vars => FailureInv'
  <2> SUFFICES ASSUME TypeOK, LockInv, SuccessInv, DoomedInv, FailureInv, [Next]_vars
               PROVE  FailureInv'
    OBVIOUS
  <2> DEFINE L == Launcher
             Failed == {"leave-failed", "failed"}
  <2>a. L \in Procs /\ pc \in [Procs -> Steps] /\ mem \in [Procs -> Metadata]
        /\ saving \in [Procs -> BOOLEAN]
    BY Actors DEF TypeOK
  <2>1. CASE Launch
    <3>1. CASE FailLaunch
      <4>1. /\ meta' = IF dir THEN Torn ELSE meta
            /\ mem'[L].status = "failed"
        BY <2>a, <3>1 DEF FailLaunch, Save, Metadata
      <4>2. ~Readable(meta')
        BY <4>1, MetaAssumption DEF SuccessInv, Readable
      <4> QED
        BY <4>1, <4>2 DEF FailureInv, Readable
    <3>2. ASSUME ~FailLaunch PROVE pc'[L] \notin Failed
      BY <2>1, <2>a, <3>2 DEF Launch, NewDirs, NewSave, RecordBundle, SetPhase, PhaseFails,
         PhaseDone, Apply, FetchIP, RedialDone, RedialPanics, Mint, MintLost, MintSave,
         ComposeUp, SetURL, MarkReady, Save, Goto, After, AfterBundle, PlainPhases, Phases
    <3> QED
      BY <3>1, <3>2 DEF FailureInv
  <2>2. CASE Terraform
    <3>1. pc'[L] \in Failed => pc[L] \in Failed
      BY <2>2, <2>a, TerraformFrame
    <3> QED
      BY <2>2, <3>1, TerraformFrame DEF FailureInv
  <2>3. ASSUME NEW d \in Destroyers, Destroy(d) PROVE FailureInv'
    <3>1. SameProcess(L) /\ meta' \in {meta, None, Torn}
      BY <2>3, Actors, DestroyFrame
    <3> QED
      BY <3>1 DEF FailureInv, SameProcess, Readable
  <2>4. ASSUME NEW p \in Procs, Shared(p) PROVE FailureInv'
    <3>1. pc'[L] \in Failed => pc[L] \in Failed
      <4>1. CASE p = L
        BY <2>4, <2>a, <4>1 DEF Shared, Runs, Write, WriteFails, OpenLock, Flock, Leave, Crash,
           Drop, Goto, Leaving
      <4>2. CASE p # L
        BY <2>4, <2>a, <4>2, SharedFrame DEF SameProcess
      <4> QED
        BY <4>1, <4>2
    <3>2. saving'[L] => saving[L] /\ mem'[L] = mem[L]
      <4>1. CASE p = L
        BY <2>4, <2>a, <4>1 DEF Shared, Runs, Write, WriteFails, OpenLock, Flock, Leave, Crash,
           Drop
      <4>2. CASE p # L
        BY <2>4, <2>a, <4>2, SharedFrame DEF SameProcess
      <4> QED
        BY <4>1, <4>2
    <3>3. CASE Write(p)
      BY <3>1, <3>2, <3>3, Actors DEF Write, FailureInv, DoomedInv, Doomed, Readable
    <3>4. CASE ~Write(p)
      BY <2>4, <3>1, <3>2, <3>4, SharedFrame DEF FailureInv
    <3> QED
      BY <3>3, <3>4
  <2>5. CASE UNCHANGED vars
    BY <2>5 DEF vars, disk, local, FailureInv
  <2> QED
    BY <2>1, <2>2, <2>3, <2>4, <2>5, Cases
<1> QED
  BY <1>1, <1>2, TypeCorrect, LockInvariant, SuccessInvariant, DoomedInvariant, PTL DEF Spec

\* A launch that returns an error from inside the lock never leaves a session
\* listed as "launching", unless the second ssh dial failed: destroys that
\* overlap it, failed writes and crashes of others included.
THEOREM FailureIsRecorded ==
    ASSUME "redial" \notin Faults
    PROVE  Spec => []LaunchFailureRecorded
<1>1. FailureInv => LaunchFailureRecorded
  BY DEF FailureInv, LaunchFailureRecorded
<1> QED
  BY <1>1, FailureInvariant, PTL

----
(* The key, with every fault, once a destroy waits for the launch to end.  *)

\* A launch that has ended takes no step.
LEMMA LaunchRuns == Launch => ~Ended
BY DEF Launch, NewDirs, NewSave, RecordBundle, SetPhase, PhaseFails, PhaseDone, Apply,
   FetchIP, RedialDone, RedialPanics, Mint, MintLost, MintSave, ComposeUp, SetURL,
   MarkReady, FailLaunch, Working, At, Phases, PlainPhases, Ended, Terminals, Resting

\* The steps of a destroy that has revoked the key.
Revoked == {"archive", "archive-logs", "remove", "rmdir", "leave-ok", "ok"}

\* A copy of the metadata holds the hash exactly while the key it names is
\* recorded, or has been revoked.
Holds(m) ==
    /\ m.hash => key \in {"recorded", "revoked"}
    /\ key = "recorded" => m.hash

\* The launch has the hash in memory from the save that records it until it ends.
LaunchKeyInv ==
    ~Ended =>
        /\ \A d \in Destroyers : pc[d] = "idle"
        /\ key \in {"none", "minted", "recorded"}
        /\ key = "recorded" => mem[Launcher].hash
        /\ mem[Launcher].hash =>
            /\ pc[Launcher] \in Keyed \cup {"fail", "leave-failed"}
            /\ key # "none"
        /\ Readable(meta) /\ meta.hash => mem[Launcher].hash

\* Every copy a destroy can read or works on tells whether there is a key.
KeyInv ==
    /\ LaunchKeyInv
    /\ Readable(meta) => Holds(meta)
    /\ \A d \in Destroyers :
        /\ pc[d] \notin Resting => Holds(mem[d])
        /\ pc[d] \in Revoked => key # "recorded"

\* A save of the launch keeps the hash.
LEMMA KeySave ==
    ASSUME TypeOK, KeyInv, ~Ended, key' = key,
           NEW m \in Metadata, NEW next, NEW err, Save(Launcher, m, next, err),
           mem[Launcher].hash => m.hash,
           m.hash => /\ key # "none"
                     /\ {next, err} \subseteq Keyed \cup {"fail", "leave-failed"}
    PROVE  KeyInv'
<1>1. /\ mem'[Launcher] = m /\ pc'[Launcher] \in {next, err} /\ meta' \in {meta, Torn}
      /\ \A d \in Destroyers : pc'[d] = pc[d]
  BY Actors DEF Save, Goto, TypeOK
<1>2. /\ \A d \in Destroyers : pc[d] = "idle"
      /\ key \in {"none", "minted", "recorded"}
      /\ key = "recorded" => m.hash
      /\ Readable(meta) /\ meta.hash => m.hash
      /\ Readable(meta) => Holds(meta)
  BY DEF KeyInv, LaunchKeyInv
<1>3. Readable(meta') => meta' = meta
  BY <1>1 DEF Readable
<1>4. LaunchKeyInv'
  BY <1>1, <1>2, <1>3 DEF LaunchKeyInv
<1>5. Readable(meta)' => Holds(meta)'
  BY <1>2, <1>3 DEF Holds, Readable
<1> QED
  BY <1>1, <1>2, <1>4, <1>5 DEF KeyInv, Resting, Revoked

\* So does a step that only moves the launch on, or mints a key.
LEMMA KeyGoto ==
    ASSUME TypeOK, KeyInv, ~Ended, NEW s, Goto(Launcher, s), UNCHANGED <<mem, meta>>,
           mem[Launcher].hash => s \in Keyed \cup {"fail"} /\ key' = key,
           key' \in {key, "minted"}
    PROVE  KeyInv'
<1>1. pc'[Launcher] = s /\ \A d \in Destroyers : pc'[d] = pc[d]
  BY Actors DEF Goto, TypeOK
<1>2. /\ \A d \in Destroyers : pc[d] = "idle"
      /\ key \in {"none", "minted", "recorded"}
      /\ key = "recorded" => mem[Launcher].hash
      /\ mem[Launcher].hash => key # "none"
      /\ Readable(meta) /\ meta.hash => mem[Launcher].hash
      /\ Readable(meta) => Holds(meta)
  BY DEF KeyInv, LaunchKeyInv
<1>3. LaunchKeyInv'
  BY <1>1, <1>2 DEF LaunchKeyInv, Readable
<1>4. Readable(meta)' => Holds(meta)'
  BY <1>2 DEF Holds, Readable
<1> QED
  BY <1>1, <1>2, <1>3, <1>4 DEF KeyInv, Resting, Revoked

\* Every step of the pipeline keeps what is known of the key.
LEMMA LaunchKey == TypeOK /\ LaunchInv /\ KeyInv /\ Launch => KeyInv'
<1> SUFFICES ASSUME TypeOK, LaunchInv, KeyInv, Launch PROVE KeyInv'
  OBVIOUS
<1> DEFINE L == Launcher
           Failing == {"fail", "leave-failed"}
<1>a. mem[L] \in Metadata /\ pc \in [Procs -> Steps] /\ L \in Procs
  BY Actors DEF TypeOK
<1>b. ~Ended
  BY LaunchRuns
<1>c. mem[L].hash => pc[L] \in Keyed \cup Failing /\ key # "none"
  BY <1>b DEF KeyInv, LaunchKeyInv
<1>1. CASE NewDirs \/ PhaseFails \/ Apply \/ RedialDone \/ Mint \/ MintLost \/ ComposeUp
  <2>1. /\ Goto(L, pc'[L]) /\ UNCHANGED <<mem, meta>>
        /\ mem[L].hash => pc'[L] \in Keyed \cup {"fail"} /\ key' = key
        /\ key' \in {key, "minted"}
    BY <1>1, <1>a, <1>c DEF NewDirs, PhaseFails, Apply, RedialDone, Mint, MintLost, ComposeUp,
       Working, At, Goto, disk, cloud, local, Keyed
  <2> QED
    BY <2>1, <1>b, KeyGoto
<1>2. ASSUME NEW ph \in PlainPhases, PhaseDone(ph) PROVE KeyInv'
  <2>1. pc[L] = ph /\ Goto(L, After(ph)) /\ UNCHANGED <<mem, meta, key>>
    BY <1>2 DEF PhaseDone, Working, At, disk, cloud, local
  <2>2. mem[L].hash => After(ph) \in Keyed
    BY <2>1, <1>c DEF PlainPhases, Keyed, After
  <2> QED
    BY <2>1, <2>2, <1>b, KeyGoto
<1>3. CASE NewSave
  <2>1. Save(L, NewMeta, "record", "over") /\ ~mem[L].hash /\ key' = key
    BY <1>3, <1>c DEF NewSave, At, cloud, Keyed
  <2> QED
    BY <2>1, <1>b, KeySave, MetadataFields DEF NewMeta
<1>4. CASE RecordBundle
  <2>1. Save(L, mem[L], "open", "over") /\ ~mem[L].hash /\ key' = key
    BY <1>4, <1>c DEF RecordBundle, At, cloud, Keyed
  <2> QED
    BY <2>1, <1>a, <1>b, KeySave
<1>5. CASE SetPhase
  <2>1. pc[L] \in Phases /\ Save(L, mem[L], pc[L], "fail") /\ key' = key
    BY <1>5 DEF SetPhase, cloud
  <2>2. mem[L].hash => key # "none" /\ {pc[L], "fail"} \subseteq Keyed \cup Failing
    BY <1>c
  <2> QED
    BY <2>1, <2>2, <1>a, <1>b, KeySave
<1>6. CASE FetchIP
  <2>1. Save(L, [mem[L] EXCEPT !.ip = TRUE], "wait-ssh", "fail") /\ ~mem[L].hash /\ key' = key
    BY <1>6, <1>c DEF FetchIP, Working, At, cloud, Keyed
  <2> QED
    BY <2>1, <1>a, <1>b, KeySave DEF Metadata
<1>7. CASE MintSave
  <2>1. /\ Save(L, [mem[L] EXCEPT !.hash = TRUE], "compose-up", "fail")
        /\ key \in {"minted", "recorded"} /\ key' = key
    BY <1>7 DEF MintSave, At, cloud, LaunchInv
  <2>2. [mem[L] EXCEPT !.hash = TRUE] \in Metadata /\ [mem[L] EXCEPT !.hash = TRUE].hash
    BY <1>a DEF Metadata
  <2>3. {"compose-up", "fail"} \subseteq Keyed \cup Failing
    BY DEF Keyed
  <2> QED
    BY <2>1, <2>2, <2>3, <1>b, KeySave
<1>8. CASE SetURL
  <2>1. PICK next \in {"setup", "summary"} :
          Save(L, [mem[L] EXCEPT !.url = TRUE], next, "fail") /\ key' = key
    BY <1>8 DEF SetURL, cloud
  <2>2. [mem[L] EXCEPT !.url = TRUE] \in Metadata
        /\ [mem[L] EXCEPT !.url = TRUE].hash = mem[L].hash
    BY <1>a DEF Metadata
  <2>3. {next, "fail"} \subseteq Keyed \cup Failing
    BY <2>1 DEF Keyed
  <2> QED
    BY <2>1, <2>2, <2>3, <1>b, <1>c, KeySave
<1>9. CASE MarkReady
  <2>1. Save(L, [mem[L] EXCEPT !.status = "ready"], "leave-ok", "fail") /\ key' = key
    BY <1>9 DEF MarkReady, cloud
  <2>2. [mem[L] EXCEPT !.status = "ready"] \in Metadata
        /\ [mem[L] EXCEPT !.status = "ready"].hash = mem[L].hash
    BY <1>a DEF Metadata, Statuses
  <2>3. {"leave-ok", "fail"} \subseteq Keyed \cup Failing
    BY DEF Keyed
  <2> QED
    BY <2>1, <2>2, <2>3, <1>b, <1>c, KeySave
<1>10. CASE FailLaunch
  <2>1. Save(L, [mem[L] EXCEPT !.status = "failed"], "leave-failed", "leave-failed")
        /\ key' = key
    BY <1>10 DEF FailLaunch, cloud
  <2>2. [mem[L] EXCEPT !.status = "failed"] \in Metadata
        /\ [mem[L] EXCEPT !.status = "failed"].hash = mem[L].hash
    BY <1>a DEF Metadata, Statuses
  <2> QED
    BY <2>1, <2>2, <1>b, <1>c, KeySave
<1>11. CASE RedialPanics
  <2>1. UNCHANGED <<meta, key>> /\ pc'[L] = "failed" /\ \A d \in Destroyers : pc'[d] = pc[d]
    BY <1>11, <1>a, Actors DEF RedialPanics, Drop, Goto, disk, cloud
  <2> QED
    BY <2>1, <1>b DEF KeyInv, LaunchKeyInv, Ended, Terminals, Resting, Revoked, Holds, Readable
<1> QED
  BY <1>1, <1>2, <1>3, <1>4, <1>5, <1>6, <1>7, <1>8, <1>9, <1>10, <1>11 DEF Launch

\* Terraform moves who waits for it, and touches no copy of the metadata.
LEMMA TerraformKey == TypeOK /\ ChildInv /\ LockInv /\ KeyInv /\ Terraform => KeyInv'
<1> SUFFICES ASSUME TypeOK, ChildInv, LockInv, KeyInv, Terraform PROVE KeyInv'
  OBVIOUS
<1> DEFINE L == Launcher
           Waits == {"applying", "destroying"}
<1>a. /\ UNCHANGED <<meta, key, mem>>
      /\ \A q \in Procs : pc[q] \notin Waits => pc'[q] = pc[q]
      /\ \A q \in Procs : pc'[q] # pc[q] => pc'[q] \in {"outputs", "revoke", "fail"}
  BY TerraformFrame
<1>1. ASSUME NEW q \in Procs PROVE pc'[q] \in Resting \cup Revoked => pc[q] = pc'[q]
  BY <1>a, <1>1 DEF Resting, Revoked
<1>2. ASSUME NEW q \in Procs PROVE pc[q] \in Resting \cup Revoked => pc[q] = pc'[q]
  BY <1>a, <1>2 DEF Resting, Revoked
<1>3. Ended' <=> Ended
  BY <1>1, <1>2, Actors DEF Ended, Terminals
<1>4. mem[L].hash /\ ~Ended => pc'[L] = pc[L]
  BY <1>a, Actors DEF KeyInv, LaunchKeyInv, Keyed
<1>5. LaunchKeyInv'
  BY <1>a, <1>2, <1>3, <1>4, Actors DEF KeyInv, LaunchKeyInv, Readable, Resting
<1>6. Readable(meta)' => Holds(meta)'
  BY <1>a DEF KeyInv, Holds, Readable
<1>7. ASSUME NEW d \in Destroyers
      PROVE  /\ pc'[d] \notin Resting => Holds(mem[d])'
             /\ pc'[d] \in Revoked => key' # "recorded"
  BY <1>a, <1>1, <1>2, <1>7, Actors DEF KeyInv, Holds
<1> QED
  BY <1>5, <1>6, <1>7 DEF KeyInv

\* A destroy revokes by a copy that tells whether there is a key.
LEMMA DestroyKey ==
    ASSUME Overlap = FALSE, TypeOK, KeyInv, NEW d \in Destroyers, Destroy(d)
    PROVE  KeyInv'
<1>a. /\ d \in Procs /\ d # Launcher /\ pc \in [Procs -> Steps] /\ mem \in [Procs -> Metadata]
      /\ \A q \in Procs : q = d \/ SameProcess(q)
      /\ meta' \in {meta, None, Torn}
  BY Actors, DestroyFrame DEF TypeOK
<1>1. Ended
  <2>1. CASE pc[d] = "idle"
    BY <2>1 DEF Destroy, Resolve, Confirm, Decline, Begin, TerraformDestroy, LoadRunner,
       TerraformInit, Revoke, RevokeFails, ArchiveMeta, ArchiveLogs, RemoveFiles, RemoveDir,
       ArchiveFails, FailDestroy, At, Ended
  <2> QED
    BY <2>1 DEF KeyInv, LaunchKeyInv
<1>2. Ended' /\ LaunchKeyInv'
  BY <1>1, <1>a, Actors DEF Ended, SameProcess, LaunchKeyInv
<1>3. key' = key \/ (key' = "revoked" /\ mem[d].hash)
  BY DEF Destroy, Resolve, Confirm, Decline, Begin, TerraformDestroy, LoadRunner,
     TerraformInit, Revoke, RevokeFails, ArchiveMeta, ArchiveLogs, RemoveFiles, RemoveDir,
     ArchiveFails, FailDestroy, cloud
<1>4. ASSUME NEW m, Holds(m), pc[d] \notin Resting \/ key' = key
      PROVE  /\ m.hash => key' \in {"recorded", "revoked"}
             /\ key' = "recorded" => m.hash
  BY <1>3, <1>4 DEF Holds
<1>5. pc[d] \in Resting => key' = key
  BY DEF Destroy, Resolve, Confirm, Decline, Begin, TerraformDestroy, LoadRunner,
     TerraformInit, Revoke, RevokeFails, ArchiveMeta, ArchiveLogs, RemoveFiles, RemoveDir,
     ArchiveFails, FailDestroy, cloud, At, Resting
<1>6. Readable(meta)' => Holds(meta)'
  BY <1>a, <1>4, <1>5 DEF KeyInv, Holds, Readable
<1>7. ASSUME NEW e \in Destroyers, e # d
      PROVE  /\ pc'[e] \notin Resting => Holds(mem[e])'
             /\ pc'[e] \in Revoked => key' # "recorded"
  BY <1>a, <1>3, <1>4, <1>5, <1>7, Actors DEF KeyInv, Holds, SameProcess
<1>8. pc'[d] \notin Resting => Holds(mem[d])'
  <2>1. CASE Resolve(d)
    BY <2>1, <1>a, <1>4, <1>5 DEF Resolve, Goto, KeyInv, Holds, Resting, cloud
  <2>2. CASE ~Resolve(d)
    <3>1. pc[d] \notin Resting /\ mem'[d].hash = mem[d].hash
      BY <2>2, <1>a DEF Destroy, Confirm, Decline, Begin, TerraformDestroy, LoadRunner,
         TerraformInit, Revoke, RevokeFails, ArchiveMeta, ArchiveLogs, RemoveFiles, RemoveDir,
         ArchiveFails, FailDestroy, Save, At, Resting, local, Metadata
    <3> QED
      BY <3>1, <1>4 DEF KeyInv, Holds
  <2> QED
    BY <2>1, <2>2
<1>9. pc'[d] \in Revoked => key' # "recorded"
  <2>1. CASE Revoke(d)
    BY <2>1 DEF Revoke, At, KeyInv, Holds, Resting
  <2>2. CASE ~Revoke(d)
    <3>1. pc'[d] \in Revoked => pc[d] \in Revoked /\ pc[d] # "ok"
      BY <2>2, <1>a DEF Destroy, Resolve, Confirm, Decline, Begin, TerraformDestroy,
         LoadRunner, TerraformInit, RevokeFails, ArchiveMeta, ArchiveLogs, RemoveFiles,
         RemoveDir, ArchiveFails, FailDestroy, Save, Goto, At, Revoked
    <3> QED
      BY <3>1, <1>3 DEF KeyInv
  <2> QED
    BY <2>1, <2>2
<1> QED
  BY <1>2, <1>6, <1>7, <1>8, <1>9 DEF KeyInv

\* What is written to metadata.json tells it as well.
LEMMA SharedKey ==
    ASSUME TypeOK, SavingSteps, KeyInv, NEW p \in Procs, Shared(p)
    PROVE  KeyInv'
<1> DEFINE L == Launcher
<1>a. /\ pc \in [Procs -> Steps] /\ mem \in [Procs -> Metadata]
      /\ \A q \in Procs : q = p \/ SameProcess(q)
      /\ ~Write(p) => UNCHANGED <<meta, key>>
      /\ L \in Procs /\ \A d \in Destroyers : d \in Procs /\ d # L
      /\ p = L \/ p \in Destroyers
  BY Actors, SharedFrame DEF TypeOK
<1>1. CASE Write(p)
  <2>1. /\ saving[p] /\ UNCHANGED <<pc, mem>>
        /\ meta' = IF meta = None THEN None ELSE mem[p]
        /\ key' = IF key = "minted" /\ mem[p].hash THEN "recorded" ELSE key
    BY <1>1 DEF Write
  <2>2. pc[p] \notin Resting
    BY <2>1 DEF SavingSteps, Inside, LaunchSteps, DestroySteps, Phases, Resting, Leaving
  <2>3. Ended' <=> Ended
    BY <2>1 DEF Ended
  <2>4. CASE p = L
    <3>1. ~Ended
      BY <2>2, <2>4 DEF Ended, Terminals
    <3>2. LaunchKeyInv'
      BY <2>1, <2>4, <3>1 DEF KeyInv, LaunchKeyInv, Readable
    <3>3. Readable(meta)' => Holds(meta)'
      BY <2>1, <2>4, <3>1 DEF KeyInv, LaunchKeyInv, Readable, Holds
    <3>4. \A d \in Destroyers : pc'[d] = "idle"
      BY <2>1, <3>1 DEF KeyInv, LaunchKeyInv
    <3> QED
      BY <3>2, <3>3, <3>4 DEF KeyInv, Resting, Revoked
  <2>5. CASE p \in Destroyers
    <3>1. Holds(mem[p]) /\ key' = key
      BY <2>1, <2>2, <2>5 DEF KeyInv, Holds
    <3>2. Ended
      BY <2>2, <2>5 DEF KeyInv, LaunchKeyInv, Resting
    <3>3. LaunchKeyInv'
      BY <2>3, <3>2 DEF LaunchKeyInv
    <3>4. Readable(meta)' => Holds(meta)'
      BY <2>1, <3>1 DEF Readable, Holds
    <3> QED
      BY <2>1, <3>1, <3>3, <3>4 DEF KeyInv, Holds
  <2> QED
    BY <1>a, <2>4, <2>5
<1>2. CASE ~Write(p)
  <2>1. UNCHANGED <<meta, key>>
    BY <1>a, <1>2
  <2>2. Readable(meta)' => Holds(meta)'
    BY <2>1 DEF KeyInv, Readable, Holds
  <2>3. pc[p] \notin Resting
    <3>1. saving[p] => pc[p] \notin Resting
      BY DEF SavingSteps, Inside, LaunchSteps, DestroySteps, Phases, Resting, Leaving
    <3> QED
      BY <1>2, <3>1 DEF Shared, Runs, WriteFails, OpenLock, Flock, Leave, Crash, At, Resting,
         Leaving
  <2>4. \/ pc'[p] \in Terminals
        \/ /\ mem'[p] = mem[p]
           /\ pc'[p] \in {pc[p], "flock", "stage", "load", "fail"}
    BY <1>a, <1>2 DEF Shared, Runs, WriteFails, OpenLock, Flock, Leave, Crash, Drop, Goto,
       Terminals, Resting, Leaving, local
  <2>5. CASE p = L
    <3>1. ~Ended
      BY <2>3, <2>5 DEF Ended, Terminals
    <3>2. \A d \in Destroyers : pc'[d] = "idle"
      BY <1>a, <2>5, <3>1 DEF KeyInv, LaunchKeyInv, SameProcess
    <3>3. ~Ended' => /\ mem'[L] = mem[L]
                     /\ mem[L].hash => pc'[L] \in Keyed \cup {"fail", "leave-failed"}
      BY <1>2, <1>a, <2>4, <2>5, <3>1
         DEF KeyInv, LaunchKeyInv, Ended, Shared, Runs, WriteFails, OpenLock, Flock, Leave, Crash,
             Drop, At, Goto, Keyed
    <3>4. LaunchKeyInv'
      BY <2>1, <3>1, <3>2, <3>3 DEF KeyInv, LaunchKeyInv, Readable
    <3> QED
      BY <2>2, <3>2, <3>4 DEF KeyInv, Resting, Revoked
  <2>6. CASE p \in Destroyers
    <3>1. Ended
      BY <2>3, <2>6 DEF KeyInv, LaunchKeyInv, Resting
    <3>2. LaunchKeyInv'
      BY <1>a, <2>6, <3>1 DEF LaunchKeyInv, Ended, SameProcess
    <3>3. pc'[p] \notin Resting => Holds(mem[p])'
      BY <2>1, <2>3, <2>4, <2>6 DEF KeyInv, Holds, Terminals
    <3>4. pc'[p] \in Revoked => pc[p] \in Revoked
      BY <1>a, <1>2 DEF Shared, Runs, WriteFails, OpenLock, Flock, Leave, Crash, Drop, Goto,
         Revoked, Leaving
    <3>5. ASSUME NEW e \in Destroyers, e # p
          PROVE  /\ pc'[e] \notin Resting => Holds(mem[e])'
                 /\ pc'[e] \in Revoked => key' # "recorded"
      BY <1>a, <2>1, <3>5 DEF KeyInv, Holds, SameProcess
    <3> QED
      BY <2>1, <2>2, <2>6, <3>2, <3>3, <3>4, <3>5 DEF KeyInv
  <2> QED
    BY <1>a, <2>5, <2>6
<1> QED
  BY <1>1, <1>2

LEMMA KeyInvariant == ASSUME Overlap = FALSE PROVE Spec => []KeyInv
<1>1. Init => KeyInv
  BY Actors, MetadataFields DEF Init, KeyInv, LaunchKeyInv, Holds, Readable, Resting, Revoked,
     NewMeta
<1>2. TypeOK /\ SavingSteps /\ ChildInv /\ LockInv /\ LaunchInv /\ KeyInv /\ [Next]_vars
      => KeyInv'
  <2>1. ASSUME KeyInv, UNCHANGED vars PROVE KeyInv'
    BY <2>1 DEF vars, disk, cloud, local, KeyInv, LaunchKeyInv, Holds, Readable, Ended
  <2> QED
    BY <2>1, Cases, LaunchKey, TerraformKey, DestroyKey, SharedKey
<1> QED
  BY <1>1, <1>2, TypeCorrect, SavingInvariant, ChildInvariant, LockInvariant, LaunchInvariant,
     PTL DEF Spec

\* When destroys wait for the launch, a destroy that exits with success has
\* revoked the key, although it goes by the hash in a copy it read before it had
\* the lock: whatever fails or crashes, torn and unfinished writes of
\* metadata.json and a panic of the launch included.
THEOREM SuccessRevokes == ASSUME Overlap = FALSE PROVE Spec => []KeyRevoked
<1>1. KeyInv => KeyRevoked
  BY DEF KeyInv, KeyRevoked, Revoked
<1> QED
  BY <1>1, KeyInvariant, PTL

----
(* The session under one command at a time. *)

\* A save of the launch keeps the session its own.
LEMMA AloneSave ==
    ASSUME TypeOK, AloneInv, ~Ended, UNCHANGED <<child, key>>,
           NEW m \in Metadata, NEW next, NEW err, Save(Launcher, m, next, err),
           pc[Launcher] \notin {"idle", "applying"}, ~saving[Launcher],
           next \notin {"idle", "new"}, m.status = LaunchStatus(next),
           mem[Launcher].hash => m.hash,
           m.hash => next \in Keyed \cup {"leave-failed"},
           m.hash => key = "recorded" \/ (key = "minted" /\ next = "compose-up")
    PROVE  AloneInv'
<1>a. Launcher \in Procs /\ \A d \in Destroyers : d \in Procs /\ d # Launcher
  BY Actors
<1>1. /\ dir /\ logs /\ child = "none" /\ ~archived
      /\ key \in {"none", "minted", "recorded"}
      /\ key = "recorded" => mem[Launcher].hash
      /\ \A d \in Destroyers : pc[d] = "idle"
  BY DEF AloneInv
<1>2. /\ pc'[Launcher] = next /\ mem'[Launcher] = m /\ saving'[Launcher] /\ meta' = Torn
      /\ UNCHANGED <<dir, logs, archived>>
      /\ \A d \in Destroyers : pc'[d] = pc[d]
  BY <1>a, <1>1 DEF Save, Goto, TypeOK
<1> QED
  BY <1>1, <1>2 DEF AloneInv, Minting

\* So does a step that only moves the launch on.
LEMMA AloneGoto ==
    ASSUME TypeOK, AloneInv, ~Ended, ~saving[Launcher],
           NEW s, Goto(Launcher, s), pc[Launcher] \notin {"idle", "new", "applying"},
           UNCHANGED <<mem, saving, meta, dir, logs, archived>>,
           s \notin {"idle", "new", "leave-ok", "leave-failed"},
           LaunchStatus(pc[Launcher]) = "launching",
           child' = "none" \/ (child' = "apply" /\ s = "applying"),
           mem[Launcher].hash => s \in Keyed \cup {"fail"} /\ key' = key,
           key' \in {key, "minted"}
    PROVE  AloneInv'
<1>a. Launcher \in Procs /\ \A d \in Destroyers : d \in Procs /\ d # Launcher
  BY Actors
<1>1. pc'[Launcher] = s /\ \A d \in Destroyers : pc'[d] = pc[d]
  BY <1>a DEF Goto, TypeOK
<1>2. mem[Launcher].hash => key = "recorded"
  BY DEF AloneInv, Minting
<1>3. mem[Launcher].status = LaunchStatus(s)
  BY DEF AloneInv, LaunchStatus
<1> QED
  BY <1>1, <1>2, <1>3 DEF AloneInv

\* Every step of the pipeline keeps the session the launch's own.
LEMMA LaunchAlone == TypeOK /\ SavingSteps /\ LaunchInv /\ AloneInv /\ Launch => AloneInv'
<1> SUFFICES ASSUME TypeOK, SavingSteps, LaunchInv, AloneInv, Launch PROVE AloneInv'
  OBVIOUS
<1> DEFINE L == Launcher
<1>a. /\ L \in Procs /\ pc \in [Procs -> Steps] /\ mem \in [Procs -> Metadata]
      /\ saving \in [Procs -> BOOLEAN] /\ mem[L] \in Metadata
  BY Actors DEF TypeOK
<1>b. ~Ended
  BY LaunchRuns
<1>c. /\ ~saving[L] /\ mem[L].hash => key = "recorded"
      /\ mem[L].hash => pc[L] \in Keyed \cup {"fail", "leave-failed"}
      /\ pc[L] # "applying" => child = "none"
      /\ mem[L].status = LaunchStatus(pc[L])
  BY <1>b DEF AloneInv, Minting
<1>d. Keyed \subseteq Phases \cup {"url", "leave-ok"}
  BY DEF Keyed, Phases
<1>1. CASE NewDirs
  <2>1. /\ pc[L] = "idle" /\ ~saving[L] /\ pc'[L] = "new" /\ dir' /\ logs'
        /\ UNCHANGED <<meta, archived, child, key, mem, saving>>
        /\ \A d \in Destroyers : pc'[d] = pc[d]
    BY <1>1, <1>a, Actors DEF NewDirs, At, Goto, cloud, local
  <2> QED
    BY <1>b, <1>c, <2>1 DEF AloneInv, LaunchStatus, Minting, Keyed
<1>2. CASE NewSave
  BY <1>2, <1>b, <1>c, AloneSave, MetadataFields
     DEF NewSave, At, NewMeta, LaunchStatus, cloud, Keyed
<1>3. CASE RecordBundle
  BY <1>3, <1>a, <1>b, <1>c, AloneSave DEF RecordBundle, At, LaunchStatus, cloud, Keyed
<1>4. CASE SetPhase
  <2>1. pc[L] \in Phases /\ ~saving[L] /\ Save(L, mem[L], pc[L], "fail")
        /\ UNCHANGED <<child, key>>
    BY <1>4 DEF SetPhase, cloud
  <2>2. pc[L] \notin {"idle", "new", "applying", "fail", "leave-failed"}
    BY <2>1 DEF Phases
  <2> QED
    BY <2>1, <2>2, <1>a, <1>b, <1>c, AloneSave
<1>5. CASE PhaseFails
  <2>1. pc[L] \in Phases /\ ~saving[L] /\ Goto(L, "fail")
        /\ UNCHANGED <<mem, saving, meta, dir, logs, archived, child, key>>
    BY <1>5 DEF PhaseFails, disk, cloud, local
  <2> QED
    BY <2>1, <1>b, <1>c, AloneGoto DEF Phases, LaunchStatus
<1>6. ASSUME NEW ph \in PlainPhases, PhaseDone(ph) PROVE AloneInv'
  <2>1. /\ pc[L] = ph /\ ~saving[L] /\ Goto(L, After(ph))
        /\ UNCHANGED <<mem, saving, meta, dir, logs, archived, child, key>>
    BY <1>6 DEF PhaseDone, Working, At, disk, cloud, local
  <2>2. mem[L].hash => ph = "setup" /\ After(ph) = "summary"
    BY <2>1, <1>c DEF PlainPhases, Keyed, After
  <2>3. After(ph) \in Phases \cup {"redial"} /\ ph \in Phases
    BY AfterApply DEF PlainPhases, Phases
  <2> QED
    BY <2>1, <2>2, <2>3, <1>b, <1>c, AloneGoto DEF Phases, LaunchStatus, Keyed
<1>7. CASE Apply
  <2>1. /\ pc[L] = "terraform-apply" /\ ~saving[L] /\ Goto(L, "applying") /\ child' = "apply"
        /\ UNCHANGED <<mem, saving, meta, dir, logs, archived, key>>
    BY <1>7 DEF Apply, Working, At, disk, local
  <2> QED
    BY <2>1, <1>b, <1>c, AloneGoto DEF LaunchStatus, Keyed
<1>8. CASE FetchIP
  <2>1. pc[L] = "outputs" /\ ~saving[L] /\ UNCHANGED <<child, key>>
    BY <1>8 DEF FetchIP, Working, At, cloud
  <2>2. PICK m \in Metadata : m.status = mem[L].status /\ m.hash = mem[L].hash
                              /\ Save(L, m, "wait-ssh", "fail")
    BY <1>8, <1>a DEF FetchIP, Metadata, Statuses
  <2> QED
    BY <2>1, <2>2, <1>b, <1>c, AloneSave DEF LaunchStatus, Keyed
<1>9. CASE RedialDone
  <2>1. pc[L] = "redial" /\ ~saving[L] /\ Goto(L, "push-stack")
        /\ UNCHANGED <<mem, saving, meta, dir, logs, archived, child, key>>
    BY <1>9 DEF RedialDone, At, disk, cloud, local
  <2> QED
    BY <2>1, <1>b, <1>c, AloneGoto DEF LaunchStatus, Keyed
<1>10. CASE RedialPanics
  BY <1>10, <1>a DEF RedialPanics, Drop, Goto, AloneInv, Ended, Terminals, Resting
<1>11. CASE Mint \/ MintLost
  <2>1. /\ pc[L] = "ai-mint" /\ ~saving[L] /\ key' = "minted"
        /\ Goto(L, "mint-save") \/ Goto(L, "fail")
        /\ UNCHANGED <<mem, saving, meta, dir, logs, archived, child>>
    BY <1>11 DEF Mint, MintLost, Working, At, disk, local
  <2> QED
    BY <2>1, <1>b, <1>c, AloneGoto DEF LaunchStatus, Keyed
<1>12. CASE MintSave
  <2>1. pc[L] = "mint-save" /\ ~saving[L] /\ UNCHANGED <<child, key>>
    BY <1>12 DEF MintSave, Working, At, cloud
  <2>2. PICK m \in Metadata : m.status = mem[L].status /\ m.hash
                              /\ Save(L, m, "compose-up", "fail")
    BY <1>12, <1>a DEF MintSave, Metadata, Statuses
  <2>3. key \in {"minted", "recorded"}
    BY <2>1 DEF LaunchInv
  <2> QED
    BY <2>1, <2>2, <2>3, <1>b, <1>c, AloneSave DEF LaunchStatus, Keyed
<1>13. CASE ComposeUp
  <2>1. /\ pc[L] = "compose-up" /\ ~saving[L]
        /\ Goto(L, "url") \/ Goto(L, "fail")
        /\ UNCHANGED <<mem, saving, meta, dir, logs, archived, child, key>>
    BY <1>13 DEF ComposeUp, Working, At, disk, local
  <2> QED
    BY <2>1, <1>b, <1>c, AloneGoto DEF LaunchStatus, Keyed
<1>14. CASE SetURL
  <2>1. pc[L] = "url" /\ ~saving[L] /\ UNCHANGED <<child, key>>
    BY <1>14 DEF SetURL, At, cloud
  <2>2. PICK m \in Metadata, next \in {"setup", "summary"} :
          m.status = mem[L].status /\ m.hash = mem[L].hash /\ Save(L, m, next, "fail")
    BY <1>14, <1>a DEF SetURL, Metadata
  <2> QED
    BY <2>1, <2>2, <1>b, <1>c, AloneSave DEF LaunchStatus, Keyed
<1>15. CASE MarkReady
  <2>1. pc[L] = "summary" /\ ~saving[L] /\ UNCHANGED <<child, key>>
        /\ Save(L, [mem[L] EXCEPT !.status = "ready"], "leave-ok", "fail")
    BY <1>15 DEF MarkReady, Working, At, cloud
  <2>2. /\ [mem[L] EXCEPT !.status = "ready"] \in Metadata
        /\ [mem[L] EXCEPT !.status = "ready"].status = "ready"
        /\ [mem[L] EXCEPT !.status = "ready"].hash = mem[L].hash
    BY <1>a DEF Metadata, Statuses
  <2> QED
    BY <2>1, <2>2, <1>b, <1>c, AloneSave DEF LaunchStatus, Keyed
<1>16. CASE FailLaunch
  <2>1. pc[L] = "fail" /\ ~saving[L] /\ UNCHANGED <<child, key>>
        /\ Save(L, [mem[L] EXCEPT !.status = "failed"], "leave-failed", "leave-failed")
    BY <1>16 DEF FailLaunch, At, cloud
  <2>2. /\ [mem[L] EXCEPT !.status = "failed"] \in Metadata
        /\ [mem[L] EXCEPT !.status = "failed"].status = "failed"
        /\ [mem[L] EXCEPT !.status = "failed"].hash = mem[L].hash
    BY <1>a DEF Metadata, Statuses
  <2> QED
    BY <2>1, <2>2, <1>b, <1>c, AloneSave DEF LaunchStatus, Keyed
<1> QED
  BY <1>1, <1>2, <1>3, <1>4, <1>5, <1>6, <1>7, <1>8, <1>9, <1>10, <1>11, <1>12, <1>13, <1>14,
     <1>15, <1>16 DEF Launch

\* What the launch leaves behind, however it ends.
LEMMA LaunchEnds ==
    ASSUME TypeOK, AloneInv, ~Ended, Ended', ~saving[Launcher], ~saving'[Launcher],
           pc[Launcher] # "idle", \A d \in Destroyers : pc'[d] = pc[d],
           UNCHANGED <<dir, logs, meta, archived, key, child>>
    PROVE  EndedInv'
<1>a. mem[Launcher] \in Metadata
  BY Actors DEF TypeOK
<1>1. dir /\ logs /\ ~archived /\ \A d \in Destroyers : pc[d] = "idle"
  BY DEF AloneInv
<1>2. CASE pc[Launcher] = "new"
  <2>1. meta = None /\ key # "recorded" /\ child = "none"
    BY <1>2 DEF AloneInv, Keyed
  <2> QED
    BY <1>1, <2>1 DEF EndedInv, Readable, Resting
<1>3. CASE pc[Launcher] # "new"
  <2>1. meta = mem[Launcher] /\ meta # None
    BY <1>3, <1>a, MetaAssumption DEF AloneInv
  <2>2. key = "recorded" <=> meta.hash
    BY <2>1 DEF AloneInv, Minting
  <2>3. child = "none" \/ (child = "apply" /\ meta.status = "launching")
    BY <2>1 DEF AloneInv, LaunchStatus
  <2> QED
    BY <1>1, <2>1, <2>2, <2>3 DEF EndedInv
<1> QED
  BY <1>2, <1>3

\* Before the launch has ended no destroy does anything.
LEMMA DestroyRests ==
    ASSUME Sequential, AloneInv, ~Ended, NEW d \in Destroyers, DestroyInv(d)
    PROVE  ~Destroy(d) /\ ~Shared(d)
<1>1. pc[d] = "idle" /\ ~saving[d] /\ d # Launcher
  BY Actors DEF AloneInv, DestroyInv
<1>2. ~Destroy(d)
  BY <1>1 DEF Destroy, Resolve, Confirm, Decline, Begin, TerraformDestroy, LoadRunner,
     TerraformInit, Revoke, RevokeFails, ArchiveMeta, ArchiveLogs, RemoveFiles, RemoveDir,
     ArchiveFails, FailDestroy, At, Sequential, Ended
<1>3. ~Shared(d)
  BY <1>1 DEF Shared, Runs, Write, WriteFails, OpenLock, Flock, Leave, Crash, At, Leaving,
     Resting
<1> QED
  BY <1>2, <1>3

\* A destroy that has not been started yet has nothing to rely on.
LEMMA DestroyIdle ==
    ASSUME NEW d \in Destroyers, AloneInv, ~Ended, DestroyInv(d), SameProcess(d)
    PROVE  DestroyInv(d)'
BY DEF AloneInv, DestroyInv, SameProcess, Resting, Begun, Settled

\* The launch leaves the session to the destroys in a state they can handle.
LEMMA LaunchStatusInv ==
    ASSUME TypeOK, SavingSteps, LaunchInv, StatusInv, Launch
    PROVE  StatusInv'
<1>1. ~Ended
  BY LaunchRuns
<1>2. AloneInv'
  BY LaunchAlone DEF StatusInv
<1>3. \A d \in Destroyers : DestroyInv(d)'
  BY <1>1, Actors, LaunchFrame, DestroyIdle DEF StatusInv
<1>4. EndedInv'
  <2>1. CASE RedialPanics
    <3>1. /\ pc[Launcher] = "redial" /\ ~saving[Launcher] /\ ~saving'[Launcher]
          /\ UNCHANGED <<dir, logs, meta, archived, key, child>>
          /\ pc'[Launcher] = "failed"
      BY <2>1, Actors DEF RedialPanics, At, Drop, Goto, TypeOK, disk, cloud
    <3>2. \A d \in Destroyers : pc'[d] = pc[d]
      BY Actors, LaunchFrame DEF SameProcess
    <3> QED
      BY <1>1, <3>1, <3>2, LaunchEnds DEF StatusInv, Ended, Terminals, Resting
  <2>2. CASE ~RedialPanics
    <3>1. CASE NewSave \/ RecordBundle
      BY <1>1, <3>1, Actors DEF NewSave, RecordBundle, At, Save, Goto, StatusInv, AloneInv,
         EndedInv, Ended, Terminals, Resting, TypeOK
    <3>2. CASE ~NewSave /\ ~RecordBundle
      <4>1. pc'[Launcher] \notin Terminals
        <5>1. ASSUME NEW ph \in PlainPhases, PhaseDone(ph) PROVE pc'[Launcher] \notin Terminals
          BY <5>1, Actors, AfterApply DEF PhaseDone, Goto, Phases, Terminals, Resting, TypeOK
        <5> QED
          BY <2>2, <3>2, <5>1, Actors DEF Launch, NewDirs, SetPhase, PhaseFails, Apply, FetchIP,
             RedialDone, Mint, MintLost, MintSave, ComposeUp, SetURL, MarkReady, FailLaunch,
             Save, Goto, Terminals, Resting, Phases, TypeOK
      <4> QED
        BY <4>1 DEF EndedInv, Ended
    <3> QED
      BY <3>1, <3>2
  <2> QED
    BY <2>1, <2>2
<1> QED
  BY <1>2, <1>3, <1>4 DEF StatusInv

\* So does its terraform, and the one a destroy waits for.
LEMMA TerraformStatusInv ==
    ASSUME TypeOK, ChildInv, LockInv, BilledInv, LaunchInv, StatusInv, Terraform
    PROVE  StatusInv'
<1> DEFINE L == Launcher
<1>a. /\ child # "none" /\ child' \in {child, "none"}
      /\ UNCHANGED <<opt, dir, logs, meta, archived, key, mem, saving>>
      /\ \A q \in Procs : pc[q] \notin {"applying", "destroying"} => pc'[q] = pc[q]
      /\ \A q \in Procs : pc'[q] # pc[q] => pc'[q] \in {"outputs", "revoke", "fail"}
  BY TerraformFrame DEF Terraform, ApplyCreates, ApplyRecords, DestroyDeletes, ApplyEnds,
     DestroyEnds, ChildKilled, ChildEnds
<1>b. \A d \in Destroyers : pc[d] # "applying" /\ pc'[d] # "outputs"
  <2>1. \A d \in Destroyers : pc[d] \notin {"applying", "outputs"}
    BY DEF LockInv, Common, Resting, Leaving, DestroySteps
  <2>2. ASSUME NEW d \in Destroyers, pc'[d] = "outputs" PROVE FALSE
    <3>1. pc[d] = "destroying" /\ child = "destroy"
      BY <1>a, <2>1, <2>2, Actors DEF ChildInv
    <3> QED
      BY <2>2, <3>1, Actors DEF Terraform, ApplyCreates, ApplyRecords, DestroyDeletes,
         ApplyEnds, DestroyEnds, ChildKilled, ChildEnds
  <2> QED
    BY <2>1, <2>2
<1>1. CASE ~Ended
  <2>1. /\ child = "apply" /\ pc[L] = "applying" /\ ~saving[L]
        /\ \A d \in Destroyers : pc[d] = "idle"
    BY <1>1, <1>a DEF StatusInv, AloneInv, LaunchInv
  <2>2. \A d \in Destroyers : pc'[d] = "idle"
    BY <1>a, <2>1, Actors
  <2>3. \/ pc'[L] = "applying" /\ child' = child
        \/ pc'[L] \in {"outputs", "fail"} /\ child' = "none"
    BY <2>1, Actors DEF Terraform, ApplyCreates, ApplyRecords, DestroyDeletes, ApplyEnds,
       DestroyEnds, ChildKilled, ChildEnds
  <2>4. ~mem[L].hash /\ mem[L].status = "launching"
    BY <1>1, <2>1 DEF StatusInv, AloneInv, Keyed, LaunchStatus
  <2>5. AloneInv'
    BY <1>1, <1>a, <2>1, <2>2, <2>3, <2>4 DEF StatusInv, AloneInv, LaunchStatus
  <2>6. EndedInv'
    BY <2>3 DEF EndedInv, Ended, Terminals, Resting
  <2>7. \A d \in Destroyers : DestroyInv(d)'
    BY <1>1, <1>a, <2>1, <2>2, Actors, DestroyIdle DEF StatusInv, SameProcess
  <2> QED
    BY <2>5, <2>6, <2>7 DEF StatusInv
<1>2. CASE Ended
  <2>1. Ended' /\ pc'[L] = pc[L]
    BY <1>2, <1>a, Actors DEF Ended, Terminals, Resting
  <2>2. AloneInv'
    BY <2>1 DEF AloneInv
  <2>3. EndedInv'
    <3>1. archived => vm' # "tracked"
      BY <1>2, <1>a DEF StatusInv, EndedInv, Terraform, ApplyCreates, ApplyRecords,
         DestroyDeletes, ApplyEnds, DestroyEnds, ChildKilled, ChildEnds
    <3> QED
      BY <1>2, <1>a, <3>1 DEF StatusInv, EndedInv, Readable
  <2>4. ASSUME NEW d \in Destroyers PROVE DestroyInv(d)'
    <3>1. CASE pc'[d] = pc[d]
      BY <1>a, <3>1 DEF StatusInv, DestroyInv
    <3>2. CASE pc'[d] # pc[d]
      <4>1. pc[d] = "destroying" /\ pc'[d] \in {"revoke", "fail"}
        BY <1>a, <1>b, <3>2, Actors
      <4> QED
        BY <1>a, <4>1 DEF StatusInv, DestroyInv, Begun, Settled, Resting
    <3> QED
      BY <3>1, <3>2
  <2> QED
    BY <2>2, <2>3, <2>4 DEF StatusInv
<1> QED
  BY <1>1, <1>2

\* A destroy that is inside the lock has the session to itself, as long as the
\* session is not archived.
LEMMA Only ==
    ASSUME LockInv, EndedInv, Ended, ~archived,
           NEW d \in Destroyers, NEW e \in Destroyers, d # e, pc[d] \in Inside, DestroyInv(e)
    PROVE  pc[e] \notin Begun /\ ~saving[e]
<1>1. pc[e] \notin Inside
  BY Actors, Alone DEF EndedInv
<1>2. Begun \subseteq Inside /\ {"init", "leave-failed"} \subseteq Inside
  BY DEF Begun, Settled, Inside, DestroySteps, Leaving
<1> QED
  BY <1>1, <1>2 DEF DestroyInv

\* What one destroy does to the session leaves the others what they rely on.
LEMMA OthersKept ==
    ASSUME LockInv, EndedInv, Ended, NEW e \in Destroyers, DestroyInv(e), SameProcess(e),
           NEW d \in Destroyers, d # e,
           pc[d] \in Inside \/ meta' = meta,
           key' = key \/ (key = "recorded" /\ key' = "revoked"),
           archived => archived'
    PROVE  DestroyInv(e)'
<1>1. CASE archived
  BY <1>1 DEF DestroyInv, SameProcess
<1>2. CASE ~archived /\ pc[d] \in Inside
  BY <1>2, Only DEF DestroyInv, SameProcess
<1>3. CASE ~archived /\ meta' = meta
  BY <1>3 DEF DestroyInv, SameProcess
<1> QED
  BY <1>1, <1>2, <1>3

\* What a destroy has in its copy and what it has done, after its own step.
LEMMA OwnStep ==
    ASSUME TypeOK, LockInv, SuccessInv, Ended, EndedInv,
           NEW d \in Destroyers, DestroyInv(d), Destroy(d)
    PROVE  DestroyInv(d)'
<1>a. d \in Procs /\ mem[d] \in Metadata /\ pc \in [Procs -> Steps]
      /\ mem \in [Procs -> Metadata] /\ saving \in [Procs -> BOOLEAN]
  BY Actors DEF TypeOK
<1>1. CASE Resolve(d)
  <2>1. ~saving[d] /\ UNCHANGED <<key, saving, archived>>
    BY <1>1 DEF Resolve, DestroyInv, Resting, disk, cloud
  <2>2. CASE Readable(meta)
    <3>1. pc'[d] = "confirm" /\ mem'[d] = meta
      BY <1>1, <1>a, <2>2 DEF Resolve, Goto
    <3> QED
      BY <2>1, <2>2, <3>1 DEF EndedInv, DestroyInv, Begun, Settled
  <2>3. CASE ~Readable(meta)
    BY <1>1, <1>a, <2>1, <2>3 DEF Resolve, Goto, DestroyInv, Begun, Settled, Resting
  <2> QED
    BY <2>2, <2>3
<1>2. CASE Confirm(d) \/ Decline(d)
  BY <1>2, <1>a DEF Confirm, Decline, At, Goto, disk, cloud, local, DestroyInv, Begun,
     Settled, Resting
<1>3. ASSUME NEW ok \in BOOLEAN, LoadRunner(d, ok) PROVE DestroyInv(d)'
  BY <1>3, <1>a DEF LoadRunner, At, Goto, disk, cloud, local, DestroyInv, Begun, Settled,
     Resting
<1>4. ASSUME NEW ok \in BOOLEAN, TerraformInit(d, ok) PROVE DestroyInv(d)'
  BY <1>4, <1>a DEF TerraformInit, At, Goto, disk, cloud, local, DestroyInv, Begun, Settled,
     Resting
<1>5. CASE TerraformDestroy(d)
  BY <1>5, <1>a DEF TerraformDestroy, At, Goto, disk, local, DestroyInv, Begun, Settled,
     Resting
<1>6. CASE Begin(d) \/ FailDestroy(d)
  <2>1. PICK m \in Metadata :
          /\ m.hash = mem[d].hash
          /\ \/ pc'[d] = "init" /\ m.status = "destroying"
             \/ pc'[d] = "leave-failed"
          /\ pc[d] \notin Resting
          /\ mem'[d] = m /\ saving'[d] = dir /\ meta' = IF dir THEN Torn ELSE meta
          /\ UNCHANGED <<key, archived>>
    BY <1>6, <1>a DEF Begin, FailDestroy, At, Save, Goto, cloud, Metadata, Statuses, Resting
  <2>2. ~archived => dir
    BY DEF EndedInv
  <2> QED
    BY <2>1, <2>2 DEF DestroyInv, Begun, Settled
<1>7. CASE Revoke(d)
  <2>1. /\ pc[d] = "revoke" /\ ~saving[d] /\ pc'[d] = "archive"
        /\ key' = IF mem[d].hash THEN "revoked" ELSE key
        /\ UNCHANGED <<mem, saving, meta, archived>>
    BY <1>7, <1>a DEF Revoke, At, Goto, disk, local
  <2> QED
    BY <2>1 DEF DestroyInv, Begun, Settled, Resting
<1>8. CASE RevokeFails(d)
  <2>1. /\ pc[d] = "revoke" /\ ~saving[d] /\ pc'[d] = "fail" /\ mem[d].hash
        /\ key' \in {key, "revoked"}
        /\ UNCHANGED <<mem, saving, meta, archived>>
    BY <1>8, <1>a DEF RevokeFails, At, Goto, disk, local
  <2> QED
    BY <2>1 DEF DestroyInv, Begun, Settled, Resting
<1>9. CASE ArchiveMeta(d)
  <2>1. /\ pc[d] = "archive" /\ ~saving[d] /\ UNCHANGED <<key, mem, saving>>
        /\ \/ pc'[d] = "leave-failed" /\ UNCHANGED <<meta, archived>>
           \/ pc'[d] = "archive-logs" /\ archived'
    BY <1>9, <1>a DEF ArchiveMeta, At, Goto, cloud, local
  <2> QED
    BY <2>1 DEF DestroyInv, Begun, Settled, Resting
<1>10. CASE ArchiveLogs(d) \/ RemoveFiles(d) \/ RemoveDir(d)
  <2>1. /\ pc[d] \in {"archive-logs", "remove", "rmdir"} /\ ~saving[d]
        /\ pc'[d] \in {"remove", "rmdir", "leave-failed", "leave-ok"}
        /\ UNCHANGED <<key, mem, saving, archived>>
    BY <1>10, <1>a DEF ArchiveLogs, RemoveFiles, RemoveDir, At, Goto, cloud, local
  <2>2. archived
    BY <2>1 DEF SuccessInv
  <2> QED
    BY <2>1, <2>2 DEF DestroyInv, Begun, Settled, Resting
<1>11. CASE ArchiveFails(d)
  BY <1>11, <1>a DEF ArchiveFails, Goto, disk, cloud, local, DestroyInv, Begun, Settled,
     Resting
<1> QED
  BY <1>1, <1>2, <1>3, <1>4, <1>5, <1>6, <1>7, <1>8, <1>9, <1>10, <1>11 DEF Destroy

\* The session after a step of a destroy.
LEMMA DestroyEnded ==
    ASSUME TypeOK, LockInv, BilledInv, SuccessInv, Ended, EndedInv,
           NEW d \in Destroyers, DestroyInv(d), Destroy(d)
    PROVE  EndedInv'
<1>a. d \in Procs /\ d # Launcher /\ pc \in [Procs -> Steps] /\ Launcher \in Procs
  BY Actors DEF TypeOK
<1>b. SameProcess(Launcher) /\ vm' = vm /\ meta' \in {meta, None, Torn}
      /\ \A e \in Destroyers : e # d => pc'[e] = pc[e]
  BY <1>a, Actors, DestroyFrame DEF SameProcess
<1>1. CASE Resolve(d)
  <2>1. UNCHANGED <<dir, logs, meta, archived, key, child>>
    BY <1>1 DEF Resolve, disk, cloud
  <2>2. meta = None => pc'[d] = "over"
    BY <1>1, <1>a DEF Resolve, Goto, Readable
  <2> QED
    BY <1>b, <2>1, <2>2 DEF EndedInv, SameProcess, Resting
<1>2. CASE ~Resolve(d)
  <2>1. pc[d] \notin Resting
    BY <1>2 DEF Destroy, Confirm, Decline, Begin, TerraformDestroy, LoadRunner,
       TerraformInit, Revoke, RevokeFails, ArchiveMeta, ArchiveLogs, RemoveFiles, RemoveDir,
       ArchiveFails, FailDestroy, At, Resting
  <2>2. ~archived => meta # None /\ dir /\ logs
    BY <2>1 DEF EndedInv
  <2>3. CASE ArchiveMeta(d)
    <3>1. /\ pc[d] = "archive" /\ UNCHANGED <<dir, logs, key, child>>
          /\ \/ UNCHANGED <<meta, archived>>
             \/ archived' /\ meta' = None
      BY <2>3 DEF ArchiveMeta, At, cloud
    <3>2. key # "recorded" /\ vm # "tracked" /\ child # "apply"
      BY <3>1 DEF DestroyInv, BilledInv, Settled
    <3> QED
      BY <1>b, <2>2, <3>1, <3>2 DEF EndedInv, SameProcess, Readable
  <2>4. CASE ArchiveLogs(d) \/ RemoveFiles(d) \/ RemoveDir(d)
    <3>1. /\ pc[d] \in {"archive-logs", "remove", "rmdir"}
          /\ UNCHANGED <<key, child, archived>>
      BY <2>4 DEF ArchiveLogs, RemoveFiles, RemoveDir, At, cloud
    <3>2. archived
      BY <3>1 DEF SuccessInv
    <3> QED
      BY <1>b, <3>1, <3>2, MetaAssumption DEF EndedInv, SameProcess, Readable
  <2>5. CASE ~ArchiveMeta(d) /\ ~ArchiveLogs(d) /\ ~RemoveFiles(d) /\ ~RemoveDir(d)
    <3>1. UNCHANGED <<dir, logs, archived>> /\ meta' \in {meta, Torn}
      BY <1>2, <2>5 DEF Destroy, Confirm, Decline, Begin, TerraformDestroy, LoadRunner,
         TerraformInit, Revoke, RevokeFails, ArchiveFails, FailDestroy, Save, disk, local
    <3>2. /\ key' = key \/ (mem[d].hash /\ key' = "revoked")
          /\ child' = child \/ child' = "destroy"
          /\ child' # child => pc[d] = "destroy" /\ ~saving[d] /\ meta' = meta
      BY <1>2, <2>5 DEF Destroy, Confirm, Decline, Begin, TerraformDestroy, LoadRunner,
         TerraformInit, Revoke, RevokeFails, ArchiveFails, FailDestroy, Save, At, disk, cloud,
         local
    <3>3. child' # child /\ ~archived => meta.status \in Doomed
      BY <3>2 DEF DestroyInv, Begun, Doomed
    <3>4. mem[d].hash => key \in {"recorded", "revoked"}
      BY <2>1 DEF DestroyInv
    <3> QED
      BY <1>b, <2>2, <3>1, <3>2, <3>3, <3>4, MetaAssumption
         DEF EndedInv, SameProcess, Readable
  <2> QED
    BY <2>3, <2>4, <2>5
<1> QED
  BY <1>1, <1>2

\* A destroy leaves the session to the others in a state they can handle.
LEMMA DestroyStatusInv ==
    ASSUME Sequential, TypeOK, LockInv, BilledInv, SuccessInv, StatusInv,
           NEW d \in Destroyers, Destroy(d)
    PROVE  StatusInv'
<1>1. Ended
  BY DestroyRests DEF StatusInv
<1>2. Ended' /\ \A e \in Destroyers : e # d => SameProcess(e)
  BY <1>1, Actors, DestroyFrame DEF Ended, SameProcess
<1>3. EndedInv' /\ DestroyInv(d)'
  BY <1>1, DestroyEnded, OwnStep DEF StatusInv
<1>4. /\ pc[d] \in Inside \/ UNCHANGED <<meta, key>>
      /\ archived => archived'
  <2>1. pc[d] \in Inside \/ UNCHANGED <<meta, key>>
    BY DestroyFrame
  <2>2. archived => archived'
    BY DEF Destroy, Resolve, Confirm, Decline, Begin, TerraformDestroy, LoadRunner,
       TerraformInit, Revoke, RevokeFails, ArchiveMeta, ArchiveLogs, RemoveFiles, RemoveDir,
       ArchiveFails, FailDestroy, Save, disk
  <2> QED
    BY <2>1, <2>2
<1>5. key' = key \/ (key = "recorded" /\ key' = "revoked")
  <2>1. key' = key \/ (mem[d].hash /\ key' = "revoked" /\ pc[d] = "revoke")
    BY DEF Destroy, Resolve, Confirm, Decline, Begin, TerraformDestroy, LoadRunner,
       TerraformInit, Revoke, RevokeFails, ArchiveMeta, ArchiveLogs, RemoveFiles, RemoveDir,
       ArchiveFails, FailDestroy, At, cloud
  <2> QED
    BY <2>1 DEF StatusInv, DestroyInv, Resting
<1>6. \A e \in Destroyers : e # d => DestroyInv(e)'
  BY <1>1, <1>2, <1>4, <1>5, OthersKept DEF StatusInv
<1> QED
  BY <1>2, <1>3, <1>6 DEF StatusInv, AloneInv

\* Writing, locking and the end of a process, while the launch runs.
LEMMA LaunchShared ==
    ASSUME Sequential, TypeOK, SavingSteps, LaunchInv, StatusInv, ~Ended,
           NEW p \in Procs, Shared(p)
    PROVE  StatusInv'
<1> DEFINE L == Launcher
<1>a. /\ pc \in [Procs -> Steps] /\ mem \in [Procs -> Metadata]
      /\ saving \in [Procs -> BOOLEAN] /\ mem[L] \in Metadata
  BY Actors DEF TypeOK
<1>b. p = L
  BY Actors, DestroyRests DEF StatusInv
<1>c. /\ \A d \in Destroyers : SameProcess(d) /\ d # L
      /\ UNCHANGED <<dir, logs, archived, child>>
  BY <1>b, Actors, SharedFrame
<1>d. \A d \in Destroyers : DestroyInv(d)'
  BY <1>c, DestroyIdle DEF StatusInv
<1>1. CASE Write(L)
  <2>1. /\ saving[L] /\ ~saving'[L] /\ UNCHANGED <<pc, mem>>
        /\ meta' = IF meta = None THEN None ELSE mem[L]
        /\ key' = IF key = "minted" /\ mem[L].hash THEN "recorded" ELSE key
    BY <1>1, <1>a, <1>b DEF Write
  <2>2. pc[L] \notin {"idle", "new", "applying"} /\ meta = Torn
    BY <2>1 DEF StatusInv, AloneInv, LaunchInv
  <2>3. AloneInv'
    BY <1>c, <2>1, <2>2, MetaAssumption
       DEF StatusInv, AloneInv, SameProcess, Minting, Ended
  <2>4. EndedInv'
    BY <2>1 DEF EndedInv, Ended
  <2> QED
    BY <1>d, <2>3, <2>4 DEF StatusInv
<1>2. CASE WriteFails(L)
  BY <1>2 DEF WriteFails, Sequential
<1>3. CASE OpenLock(L) \/ Flock(L)
  <2>1. /\ pc[L] \in {"open", "flock"} /\ ~saving[L] /\ UNCHANGED <<mem, saving, meta, key>>
        /\ pc'[L] \in {"flock", "over", "stage"}
    BY <1>3, <1>a, <1>b DEF OpenLock, Flock, At, Goto, disk, cloud
  <2>2. pc'[L] = "over" => EndedInv'
    BY <1>c, <2>1, LaunchEnds DEF StatusInv, Ended, Terminals, Resting, SameProcess
  <2>3. pc'[L] # "over" => ~Ended'
    BY <2>1 DEF Ended, Terminals, Resting
  <2>4. AloneInv'
    <3>1. CASE pc'[L] = "over"
      BY <3>1 DEF AloneInv, Ended, Terminals, Resting
    <3>2. CASE pc'[L] # "over"
      BY <1>c, <2>1, <3>2 DEF StatusInv, AloneInv, SameProcess, LaunchStatus, Keyed
    <3> QED
      BY <3>1, <3>2
  <2> QED
    BY <1>d, <2>2, <2>3, <2>4 DEF StatusInv, EndedInv
<1>4. CASE Leave(L) \/ Crash(L)
  <2>1. /\ ~saving[L] /\ ~saving'[L] /\ pc'[L] \in Terminals /\ pc[L] # "idle"
        /\ UNCHANGED <<meta, key>>
    BY <1>4, <1>a, <1>b DEF Leave, Crash, Drop, Goto, disk, cloud, Terminals, Resting, Leaving,
       Sequential
  <2>2. EndedInv'
    BY <1>c, <2>1, LaunchEnds DEF StatusInv, Ended, SameProcess
  <2> QED
    BY <1>d, <2>1, <2>2 DEF StatusInv, AloneInv, Ended
<1> QED
  BY <1>b, <1>1, <1>2, <1>3, <1>4 DEF Shared, Runs

\* The same of a destroy.
LEMMA DestroyShared ==
    ASSUME Sequential, TypeOK, LockInv, DoomedInv, StatusInv, Ended,
           NEW p \in Procs, Shared(p)
    PROVE  StatusInv'
<1>a. /\ pc \in [Procs -> Steps] /\ mem \in [Procs -> Metadata]
      /\ saving \in [Procs -> BOOLEAN] /\ mem[p] \in Metadata
  BY DEF TypeOK
<1>b. p \in Destroyers
  <2>1. pc[Launcher] \in Terminals /\ ~saving[Launcher]
    BY DEF StatusInv, EndedInv, Ended
  <2>2. ~Shared(Launcher)
    BY <2>1 DEF Shared, Runs, Write, WriteFails, OpenLock, Flock, Leave, Crash, At, Terminals,
       Resting, Leaving
  <2> QED
    BY <2>2, Actors
<1>c. /\ SameProcess(Launcher)
      /\ \A e \in Destroyers : e # p => SameProcess(e)
      /\ UNCHANGED <<dir, logs, archived, vm, child>>
  BY <1>b, Actors, SharedFrame
<1>d. Ended' /\ AloneInv'
  BY <1>c DEF Ended, AloneInv, SameProcess
<1>1. CASE Write(p)
  <2>1. /\ saving[p] /\ ~saving'[p] /\ UNCHANGED <<pc, mem>>
        /\ meta' = IF meta = None THEN None ELSE mem[p]
        /\ key' = IF key = "minted" /\ mem[p].hash THEN "recorded" ELSE key
    BY <1>1, <1>a DEF Write
  <2>2. pc[p] \in {"init", "leave-failed"} /\ pc[p] \in Inside
    BY <1>b, <2>1 DEF StatusInv, DestroyInv, Inside, DestroySteps, Leaving
  <2>3. /\ key = "recorded" => mem[p].hash
        /\ mem[p].hash => key \in {"recorded", "revoked"}
        /\ mem[p].status \in Doomed
    BY <1>b, <2>1, <2>2 DEF StatusInv, DestroyInv, DoomedInv, Resting
  <2>4. key' = key
    BY <2>1, <2>3
  <2>5. EndedInv'
    <3>1. /\ meta' # None <=> meta # None
          /\ Readable(meta)' => meta' = mem[p]
      BY <1>a, <2>1, MetaAssumption DEF Readable
    <3> QED
      BY <1>c, <2>1, <2>3, <2>4, <3>1 DEF StatusInv, EndedInv, SameProcess, Ended
  <2>6. DestroyInv(p)'
    BY <1>b, <1>c, <2>1, <2>2, <2>4, MetaAssumption DEF StatusInv, DestroyInv, Begun, Settled
  <2>7. \A e \in Destroyers : e # p => DestroyInv(e)'
    BY <1>b, <1>c, <2>2, <2>4, OthersKept DEF StatusInv
  <2> QED
    BY <1>d, <2>5, <2>6, <2>7 DEF StatusInv
<1>2. CASE ~Write(p)
  <2>1. UNCHANGED <<meta, key>>
    BY <1>2, SharedFrame
  <2>2. /\ pc[p] \notin Resting /\ ~saving'[p] /\ pc'[p] \notin Begun
        /\ pc'[p] \in Resting \/ mem'[p] = mem[p]
        /\ pc'[p] \in {"archive", "archive-logs", "remove", "rmdir", "leave-ok", "ok"} =>
             pc[p] = "leave-ok"
    BY <1>a, <1>b, <1>2, Actors DEF Shared, Runs, WriteFails, OpenLock, Flock, Leave, Crash,
       Drop, Goto, At, Leaving, Resting, Begun, Settled, Sequential
  <2>3. EndedInv'
    BY <1>b, <1>c, <2>1, <2>2 DEF StatusInv, EndedInv, SameProcess, Ended
  <2>4. DestroyInv(p)'
    BY <1>b, <1>c, <2>1, <2>2 DEF StatusInv, DestroyInv
  <2>5. \A e \in Destroyers : e # p => DestroyInv(e)'
    BY <1>b, <1>c, <2>1, OthersKept DEF StatusInv
  <2> QED
    BY <1>d, <2>3, <2>4, <2>5 DEF StatusInv
<1> QED
  BY <1>1, <1>2

\* One step, whoever takes it.
LEMMA StatusStep ==
    ASSUME Sequential
    PROVE  /\ TypeOK /\ SavingSteps /\ ChildInv /\ LockInv /\ BilledInv /\ SuccessInv
           /\ DoomedInv /\ LaunchInv /\ StatusInv
           /\ [Next]_vars
           => StatusInv'
<1> SUFFICES ASSUME TypeOK, SavingSteps, ChildInv, LockInv, BilledInv, SuccessInv, DoomedInv,
                    LaunchInv, StatusInv, [Next]_vars
             PROVE  StatusInv'
  OBVIOUS
<1>1. CASE UNCHANGED vars
  BY <1>1 DEF vars, disk, cloud, local, StatusInv, AloneInv, DestroyInv, EndedInv, Ended,
     Minting
<1> QED
  BY <1>1, Cases, LaunchStatusInv, TerraformStatusInv, DestroyStatusInv, LaunchShared,
     DestroyShared

\* What each command relies on when no other runs beside it, throughout.
LEMMA StatusInvariant == ASSUME Sequential PROVE Spec => []StatusInv
<1>1. Init => StatusInv
  BY Actors DEF Init, StatusInv, AloneInv, DestroyInv, EndedInv, Ended, Terminals, Resting,
     Begun, Settled, NewMeta, LaunchStatus
<1> QED
  BY <1>1, StatusStep, TypeCorrect, SavingInvariant, ChildInvariant, LockInvariant,
     BilledInvariant, SuccessInvariant, DoomedInvariant, LaunchInvariant, PTL DEF Spec

\* Under Sequential a live key whose handle was saved can be found in
\* metadata.json, or in what a running process is writing there.
THEOREM KeyStaysListed == ASSUME Sequential PROVE Spec => []KeyIsListed
<1>1. TypeOK /\ StatusInv /\ SavingInv => KeyIsListed
  <2> SUFFICES ASSUME TypeOK, StatusInv, SavingInv, key = "recorded" PROVE KeyIsListed
    BY DEF KeyIsListed
  <2>1. CASE ~Ended
    <3>1. mem[Launcher].hash /\ pc[Launcher] \notin {"idle", "new"}
      BY <2>1 DEF StatusInv, AloneInv, Keyed
    <3>2. meta = IF saving[Launcher] THEN Torn ELSE mem[Launcher]
      BY <2>1, <3>1 DEF StatusInv, AloneInv
    <3> QED
      BY <3>1, <3>2, Actors, MetaAssumption DEF KeyIsListed, Readable, TypeOK
  <2>2. CASE Ended
    <3>1. meta # None /\ ~saving[Launcher]
      BY <2>2 DEF StatusInv, EndedInv
    <3>2. CASE Readable(meta)
      BY <2>2, <3>2 DEF StatusInv, EndedInv, KeyIsListed
    <3>3. CASE ~Readable(meta)
      <4>1. PICK d \in Destroyers : saving[d]
        BY <3>1, <3>3, Actors DEF Readable, SavingInv
      <4>2. mem[d].hash
        BY <4>1 DEF StatusInv, DestroyInv, Resting
      <4> QED
        BY <4>1, <4>2, Actors DEF KeyIsListed
    <3> QED
      BY <3>2, <3>3
  <2> QED
    BY <2>1, <2>2
<1>2. "torn" \notin Faults /\ "full" \notin Faults
  BY DEF Sequential
<1> QED
  BY <1>1, <1>2, TypeCorrect, StatusInvariant, SavingCompletes, PTL

----
(* The life cycle. *)

\* At most one process is saving the metadata of a session that is not yet
\* archived.
LEMMA OneSaver ==
    ASSUME LockInv, StatusInv, ~archived,
           NEW p \in Procs, NEW q \in Procs, saving[p], saving[q]
    PROVE  p = q /\ meta = Torn
<1>1. CASE ~Ended
  <2>1. \A d \in Destroyers : ~saving[d]
    BY <1>1 DEF StatusInv, AloneInv, DestroyInv
  <2>2. p = Launcher /\ q = Launcher
    BY <2>1, Actors
  <2> QED
    BY <1>1, <2>2 DEF StatusInv, AloneInv
<1>2. CASE Ended
  <2>1. p \in Destroyers /\ q \in Destroyers
    BY <1>2, Actors DEF StatusInv, EndedInv
  <2>2. pc[p] \in Inside
    BY <2>1 DEF StatusInv, DestroyInv, Inside, DestroySteps, Leaving
  <2>3. p = q
    BY <1>2, <2>1, <2>2, Only DEF StatusInv
  <2> QED
    BY <2>1, <2>3 DEF StatusInv, DestroyInv
<1> QED
  BY <1>1, <1>2

\* So Status shows what that process writes.
LEMMA SavingShows ==
    ASSUME LockInv, StatusInv, ~archived, NEW p \in Procs, saving[p]
    PROVE  meta = Torn /\ Status = mem[p].status
<1> DEFINE q == CHOOSE r \in Procs : saving[r]
<1>1. q \in Procs /\ saving[q]
  OBVIOUS
<1>2. q = p /\ meta = Torn
  BY <1>1, OneSaver
<1> QED
  BY <1>2, MetaAssumption DEF Status

\* What Status shows follows from who is where.
LEMMA StatusShows ==
    ASSUME TypeOK, SavingInv, LockInv, StatusInv
    PROVE  ShownInv
<1>a. mem \in [Procs -> Metadata]
  BY DEF TypeOK
<1>1. archived => Status = "archived"
  BY DEF Status
<1>2. ~archived /\ meta = None => Status = "absent"
  BY DEF Status
<1>3. ~archived /\ Readable(meta) => Status = meta.status
  BY DEF Status, Readable
<1>4. ~archived => \A p \in Procs : saving[p] => meta = Torn /\ Status = mem[p].status
  BY SavingShows
<1>5. ASSUME ~Ended
      PROVE  Status = IF pc[Launcher] \in {"idle", "new"} THEN "absent"
                      ELSE LaunchStatus(pc[Launcher])
  <2>1. ~archived
    BY <1>5 DEF StatusInv, AloneInv
  <2>2. CASE pc[Launcher] \in {"idle", "new"}
    BY <1>2, <1>5, <2>1, <2>2 DEF StatusInv, AloneInv
  <2>3. CASE pc[Launcher] \notin {"idle", "new"}
    <3>1. /\ mem[Launcher].status = LaunchStatus(pc[Launcher])
          /\ meta = IF saving[Launcher] THEN Torn ELSE mem[Launcher]
      BY <1>5, <2>3 DEF StatusInv, AloneInv
    <3>2. CASE saving[Launcher]
      BY <1>4, <2>1, <2>3, <3>1, <3>2, Actors
    <3>3. CASE ~saving[Launcher]
      <4>1. Readable(meta)
        BY <1>a, <3>1, <3>3, Actors, MetaAssumption DEF Readable
      <4> QED
        BY <1>3, <2>1, <2>3, <3>1, <3>3, <4>1
    <3> QED
      BY <3>2, <3>3
  <2> QED
    BY <2>2, <2>3
<1>6. ASSUME NEW d \in Destroyers, pc[d] \in Begun, ~archived PROVE Status = "destroying"
  <2>1. mem[d].status = "destroying" /\ (~saving[d] => meta = mem[d])
    BY <1>6 DEF StatusInv, DestroyInv
  <2>2. CASE saving[d]
    BY <1>4, <1>6, <2>1, <2>2, Actors
  <2>3. CASE ~saving[d]
    <3>1. Readable(meta)
      BY <1>a, <2>1, <2>3, Actors, MetaAssumption DEF Readable
    <3> QED
      BY <1>3, <1>6, <2>1, <2>3, <3>1
  <2> QED
    BY <2>2, <2>3
<1> QED
  BY <1>1, <1>2, <1>3, <1>4, <1>5, <1>6 DEF ShownInv

\* All of it, throughout.
LEMMA SessionInvariant == ASSUME Sequential PROVE Spec => []SessionInv
<1>1. "torn" \notin Faults /\ "full" \notin Faults
  BY DEF Sequential
<1>2. /\ TypeOK /\ SavingInv /\ LockInv /\ BilledInv /\ SuccessInv /\ DoomedInv
      /\ LaunchInv /\ StatusInv
      => SessionInv
  BY StatusShows DEF SessionInv
<1> QED
  BY <1>1, <1>2, TypeCorrect, SavingCompletes, LockInvariant, BilledInvariant,
     SuccessInvariant, DoomedInvariant, LaunchInvariant, StatusInvariant, PTL

Billed == vm = "tracked"
Recorded == key = "recorded"

\* A step that the life cycle does not see.
LEMMA Stutter ==
    ASSUME Status' = Status, Billed' <=> Billed, Recorded' <=> Recorded
    PROVE  UNCHANGED Lifecycle!vars
BY DEF Lifecycle!vars, Billed, Recorded

\* A step that moves the status along the life cycle and nothing else.
LEMMA Moves ==
    ASSUME Billed' <=> Billed, Recorded' <=> Recorded,
           \/ Status = "absent" /\ Status' = "launching"
           \/ Status = "launching" /\ Billed /\ Status' = "ready"
           \/ Status = "launching" /\ Status' = "failed"
           \/ Status \in {"launching", "ready", "failed", "failed-destroy"}
                /\ Status' = "destroying"
           \/ Status = "destroying" /\ Status' = "failed-destroy"
           \/ Status = "destroying" /\ ~Billed /\ ~Recorded /\ Status' = "archived"
    PROVE  Lifecycle!Next
BY DEF Lifecycle!Next, Lifecycle!Create, Lifecycle!HandOver, Lifecycle!Fail,
   Lifecycle!Retire, Lifecycle!GiveUp, Lifecycle!Archive, Billed, Recorded

\* A step that creates or deletes what the session pays for.
LEMMA Bills ==
    ASSUME Status' = Status,
           \/ /\ Recorded' <=> Recorded
              /\ \/ ~Billed /\ Billed' /\ Status \in {"launching"} \cup Doomed
                 \/ Billed /\ ~Billed' /\ Status \in Doomed
           \/ /\ Billed' <=> Billed
              /\ \/ ~Recorded /\ Recorded' /\ Status = "launching" /\ Billed
                 \/ Recorded /\ ~Recorded' /\ Status = "destroying" /\ ~Billed
    PROVE  Lifecycle!Next
BY DEF Lifecycle!Next, Lifecycle!Provision, Lifecycle!Release, Lifecycle!RecordKey,
   Lifecycle!RevokeKey, Lifecycle!Doomed, Doomed, Billed, Recorded

Follows == Lifecycle!Next \/ UNCHANGED Lifecycle!vars

\* The launch moves from "absent" over "launching" to "ready" or "failed".
LEMMA LaunchFollows ==
    ASSUME SessionInv, SessionInv', Launch
    PROVE  Follows
<1> DEFINE L == Launcher
           Shows(s) == IF s \in {"idle", "new"} THEN "absent" ELSE LaunchStatus(s)
<1>a. /\ TypeOK /\ LaunchInv /\ AloneInv /\ ShownInv /\ ShownInv'
      /\ L \in Procs /\ pc \in [Procs -> Steps]
  BY Actors DEF SessionInv, StatusInv, TypeOK
<1>b. ~Ended /\ Status = Shows(pc[L]) /\ ~archived /\ archived' = archived /\ vm' = vm
  BY <1>a, LaunchRuns, LaunchFrame DEF ShownInv, AloneInv
<1>c. pc'[L] \notin Terminals => Status' = Shows(pc'[L])
  BY <1>a DEF ShownInv, Ended
<1>1. CASE NewDirs \/ NewSave \/ RecordBundle
  <2>1. pc[L] # "idle" => dir
    BY <1>a, <1>b DEF AloneInv
  <2>2. /\ <<pc[L], pc'[L]>> \in {<<"idle", "new">>, <<"new", "record">>, <<"record", "open">>}
        /\ key' = key
    BY <1>1, <1>a, <2>1 DEF NewDirs, NewSave, RecordBundle, At, Save, Goto, cloud
  <2>3. \/ Status' = Status
        \/ Status = "absent" /\ Status' = "launching"
    BY <1>b, <1>c, <2>2 DEF LaunchStatus, Terminals, Resting
  <2> QED
    BY <1>b, <2>2, <2>3, Stutter, Moves DEF Follows, Billed, Recorded
<1>2. CASE RedialPanics
  <2>1. pc[L] = "redial" /\ ~saving[L] /\ UNCHANGED <<meta, key>>
    BY <1>2 DEF RedialPanics, At, disk, cloud
  <2>2. meta = mem[L] /\ mem[L].status = "launching" /\ Readable(meta)
    BY <1>a, <1>b, <2>1, MetaAssumption DEF AloneInv, LaunchStatus, Readable, TypeOK
  <2>3. Status = "launching" /\ Status' = "launching"
    BY <1>a, <1>b, <2>1, <2>2 DEF ShownInv, Readable
  <2> QED
    BY <1>b, <2>1, <2>3, Stutter DEF Follows, Billed, Recorded
<1>3. CASE MarkReady
  <2>1. pc[L] = "summary" /\ pc'[L] \in {"leave-ok", "fail"} /\ key' = key /\ vm = "tracked"
    BY <1>3, <1>a DEF MarkReady, Working, At, Save, Goto, cloud, LaunchInv, Applied, Phases
  <2>2. Status = "launching" /\ Status' \in {"launching", "ready"}
    BY <1>b, <1>c, <2>1 DEF LaunchStatus, Terminals, Resting
  <2> QED
    BY <1>b, <2>1, <2>2, Stutter, Moves DEF Follows, Billed, Recorded
<1>4. CASE FailLaunch
  <2>1. pc[L] = "fail" /\ pc'[L] = "leave-failed" /\ key' = key
    BY <1>4, <1>a DEF FailLaunch, At, Save, Goto, cloud
  <2>2. Status = "launching" /\ Status' = "failed"
    BY <1>b, <1>c, <2>1 DEF LaunchStatus, Terminals, Resting
  <2> QED
    BY <1>b, <2>1, <2>2, Moves DEF Follows, Billed, Recorded
<1>5. CASE ~NewDirs /\ ~NewSave /\ ~RecordBundle /\ ~RedialPanics /\ ~MarkReady /\ ~FailLaunch
  <2>1. key' = key \/ (key # "recorded" /\ key' = "minted")
    <3>1. key' = key \/ (pc[L] = "ai-mint" /\ key' = "minted")
      BY <1>5 DEF Launch, SetPhase, PhaseFails, PhaseDone, Apply, FetchIP, RedialDone, Mint,
         MintLost, MintSave, ComposeUp, SetURL, Working, At, cloud
    <3>2. pc[L] = "ai-mint" => key # "recorded"
      BY <1>a, <1>b DEF AloneInv, Keyed
    <3> QED
      BY <3>1, <3>2
  <2>2. /\ pc[L] \in Phases \cup {"redial", "mint-save", "url"}
        /\ pc'[L] \in Phases \cup {"redial", "mint-save", "url", "applying", "fail"}
    <3>1. ASSUME NEW ph \in PlainPhases, PhaseDone(ph)
          PROVE  pc[L] \in Phases /\ pc'[L] \in Phases \cup {"redial"}
      BY <1>a, <3>1, AfterApply DEF PhaseDone, Working, At, Goto, PlainPhases, Phases
    <3> QED
      BY <1>5, <1>a, <3>1 DEF Launch, SetPhase, PhaseFails, Apply, FetchIP, RedialDone, Mint,
         MintLost, MintSave, ComposeUp, SetURL, Working, At, Save, Goto, Phases
  <2>3. Status = "launching" /\ Status' = "launching"
    BY <1>b, <1>c, <2>2 DEF LaunchStatus, Terminals, Resting, Phases
  <2> QED
    BY <1>b, <2>1, <2>3, Stutter DEF Follows, Billed, Recorded
<1> QED
  BY <1>1, <1>2, <1>3, <1>4, <1>5

\* A VM appears only for a session that is launching or already given up, and
\* goes only from one that is being destroyed.
LEMMA TerraformFollows ==
    ASSUME SessionInv, Terraform
    PROVE  Follows
<1>a. /\ child # "none" /\ UNCHANGED <<meta, archived, mem, saving, key>>
      /\ SavingInv /\ BilledInv /\ DoomedInv /\ LaunchInv /\ StatusInv /\ ShownInv
  BY TerraformFrame DEF SessionInv
<1>b. Status' = Status
  BY <1>a DEF Status
<1>c. CASE ~Ended
  <2>1. child = "apply" /\ Status = "launching"
    BY <1>a, <1>c DEF StatusInv, AloneInv, ShownInv, LaunchStatus
  <2>2. \/ Billed' <=> Billed
        \/ ~Billed /\ Billed'
    BY <2>1 DEF Terraform, ApplyCreates, ApplyRecords, DestroyDeletes, ApplyEnds, DestroyEnds,
       ChildKilled, ChildEnds, Billed
  <2> QED
    BY <1>a, <1>b, <2>1, <2>2, Stutter, Bills DEF Follows, Recorded
<1>d. CASE Ended
  <2>1. vm = "tracked" \/ child = "apply" => ~archived /\ meta # None
    BY <1>a, <1>d DEF StatusInv, EndedInv
  <2>2. ASSUME ~archived, meta = Torn PROVE Status \in Doomed
    <3>1. PICK p \in Procs : saving[p]
      BY <1>a, <2>2 DEF SavingInv
    <3>2. p \in Destroyers /\ mem[p].status \in Doomed
      BY <1>a, <1>d, <3>1, Actors DEF StatusInv, EndedInv, DoomedInv
    <3> QED
      BY <1>a, <2>2, <3>1, <3>2 DEF ShownInv
  <2>3. ASSUME child = "apply" PROVE Status \in {"launching"} \cup Doomed
    <3>1. ~archived /\ meta # None
      BY <2>1, <2>3
    <3>2. CASE meta = Torn
      BY <2>2, <3>1, <3>2
    <3>3. CASE Readable(meta)
      BY <1>a, <1>d, <2>3, <3>1, <3>3 DEF StatusInv, EndedInv, ShownInv
    <3> QED
      BY <3>1, <3>2, <3>3 DEF Readable
  <2>4. ASSUME child = "destroy", vm = "tracked" PROVE Status \in Doomed
    <3>1. ~archived /\ meta # None
      BY <2>1, <2>4
    <3>2. CASE meta = Torn
      BY <2>2, <3>1, <3>2
    <3>3. CASE Readable(meta)
      BY <1>a, <1>d, <2>4, <3>1, <3>3 DEF StatusInv, EndedInv, ShownInv
    <3> QED
      BY <3>1, <3>2, <3>3 DEF Readable
  <2>5. \/ Billed' <=> Billed
        \/ ~Billed /\ Billed' /\ child = "apply"
        \/ Billed /\ ~Billed' /\ child = "destroy" /\ vm = "tracked"
    BY DEF Terraform, ApplyCreates, ApplyRecords, DestroyDeletes, ApplyEnds, DestroyEnds,
       ChildKilled, ChildEnds, Billed
  <2> QED
    BY <1>a, <1>b, <2>3, <2>4, <2>5, Stutter, Bills DEF Follows, Recorded
<1> QED
  BY <1>c, <1>d

\* What Status shows changes only with metadata.json, the archive and the
\* copies that are being written.
LEMMA ShownKept ==
    ASSUME SessionInv, SessionInv', UNCHANGED <<meta, archived>>,
           \A p \in Procs : saving[p] => saving'[p] /\ mem'[p] = mem[p]
    PROVE  Status' = Status
<1>1. CASE archived \/ meta = None \/ Readable(meta)
  BY <1>1 DEF SessionInv, ShownInv, Readable
<1>2. CASE ~archived /\ meta = Torn
  <2>1. PICK p \in Procs : saving[p]
    BY <1>2 DEF SessionInv, SavingInv
  <2> QED
    BY <1>2, <2>1 DEF SessionInv, ShownInv
<1> QED
  BY <1>1, <1>2 DEF Readable

\* A destroy marks the session before it takes anything away, and archives it
\* when nothing is left to pay for.
LEMMA DestroyFollows ==
    ASSUME Sequential, SessionInv, SessionInv', NEW d \in Destroyers, Destroy(d)
    PROVE  Follows
<1>a. /\ TypeOK /\ SavingInv /\ LockInv /\ BilledInv /\ SuccessInv
      /\ StatusInv /\ ShownInv /\ ShownInv'
      /\ d \in Procs /\ pc \in [Procs -> Steps] /\ mem \in [Procs -> Metadata]
  BY Actors DEF SessionInv, TypeOK
<1>b. Ended /\ EndedInv /\ DestroyInv(d)
  BY <1>a, DestroyRests DEF StatusInv
<1>c. vm' = vm
  BY <1>a, DestroyFrame
<1>d. ASSUME UNCHANGED <<meta, archived>>, \/ mem' = mem /\ saving' = saving
                                           \/ Resolve(d)
      PROVE  Status' = Status
  <2>1. Resolve(d) => ~saving[d] /\ saving' = saving
    BY <1>b DEF Resolve, DestroyInv, Resting
  <2>2. \A p \in Procs : saving[p] => saving'[p] /\ mem'[p] = mem[p]
    BY <1>a, <1>d, <2>1, DestroyFrame DEF SameProcess
  <2> QED
    BY <1>d, <2>2, ShownKept
<1>1. CASE \/ Resolve(d) \/ Confirm(d) \/ Decline(d) \/ TerraformDestroy(d) \/ ArchiveFails(d)
           \/ \E ok \in BOOLEAN : LoadRunner(d, ok) \/ TerraformInit(d, ok)
  <2>1. key' = key /\ Status' = Status
    BY <1>1, <1>d DEF Resolve, Confirm, Decline, TerraformDestroy, ArchiveFails, LoadRunner,
       TerraformInit, disk, cloud, local
  <2> QED
    BY <1>c, <2>1, Stutter DEF Follows, Billed, Recorded
<1>2. CASE Revoke(d) \/ RevokeFails(d)
  <2>1. /\ pc[d] = "revoke" /\ key' \in {key, "revoked"} /\ Status' = Status
    BY <1>2, <1>d DEF Revoke, RevokeFails, At, disk, local
  <2>2. vm # "tracked"
    BY <1>a, <2>1 DEF BilledInv, Settled
  <2>3. key = "recorded" => Status = "destroying"
    <3>1. key = "recorded" => ~archived
      BY <1>b DEF EndedInv
    <3> QED
      BY <1>a, <2>1, <3>1 DEF ShownInv, Begun, Settled
  <2> QED
    BY <1>c, <2>1, <2>2, <2>3, Stutter, Bills DEF Follows, Billed, Recorded
<1>3. CASE archived /\ (Begin(d) \/ FailDestroy(d) \/ ArchiveMeta(d))
  <2>1. archived' /\ key' = key
    BY <1>3 DEF Begin, FailDestroy, ArchiveMeta, Save, cloud
  <2>2. Status' = Status
    BY <1>3, <1>a, <2>1 DEF ShownInv
  <2> QED
    BY <1>c, <2>1, <2>2, Stutter DEF Follows, Billed, Recorded
<1>4. CASE ~archived /\ Begin(d)
  <2>1. pc[d] = "begin" /\ ~saving[d] /\ pc'[d] = "init" /\ UNCHANGED <<archived, key>>
    BY <1>4, <1>a DEF Begin, At, Save, Goto, cloud
  <2>2. Status' = "destroying"
    BY <1>4, <1>a, <2>1 DEF ShownInv, Begun
  <2>3. Readable(meta)
    <3>1. meta # None
      BY <1>4, <1>b, <2>1 DEF EndedInv, Resting
    <3>2. \A e \in Destroyers : ~saving[e]
      BY <1>4, <1>a, <1>b, <2>1, Only DEF StatusInv, Inside, DestroySteps
    <3>3. \A p \in Procs : ~saving[p]
      BY <1>b, <3>2, Actors DEF EndedInv
    <3> QED
      BY <1>a, <3>1, <3>3 DEF SavingInv, Readable
  <2>4. Status \in Statuses
    BY <1>4, <1>a, <2>3 DEF ShownInv, TypeOK, Metadata, Readable
  <2> QED
    BY <1>c, <2>1, <2>2, <2>4, Stutter, Moves DEF Follows, Billed, Recorded, Statuses
<1>5. CASE ~archived /\ FailDestroy(d)
  <2>1. pc[d] = "fail" /\ UNCHANGED <<archived, key>>
        /\ saving'[d] = dir /\ mem'[d].status = "failed-destroy"
    BY <1>5, <1>a DEF FailDestroy, At, Save, Goto, cloud, Metadata, TypeOK
  <2>2. Status = "destroying" /\ dir
    BY <1>5, <1>a, <1>b, <2>1 DEF ShownInv, Begun, EndedInv
  <2>3. Status' = "failed-destroy"
    BY <1>5, <1>a, <2>1, <2>2 DEF ShownInv
  <2> QED
    BY <1>c, <2>1, <2>2, <2>3, Moves DEF Follows, Billed, Recorded
<1>6. CASE ~archived /\ ArchiveMeta(d)
  <2>1. pc[d] = "archive" /\ key' = key /\ meta # None => archived'
    BY <1>6 DEF ArchiveMeta, At, cloud
  <2>2. meta # None /\ key # "recorded" /\ vm # "tracked" /\ Status = "destroying"
    BY <1>6, <1>a, <1>b
       DEF ArchiveMeta, At, EndedInv, DestroyInv, BilledInv, ShownInv, Begun, Settled, Resting
  <2>3. archived' /\ key' = key
    BY <1>6, <2>2 DEF ArchiveMeta, cloud
  <2>4. Status' = "archived"
    BY <1>a, <2>3 DEF ShownInv
  <2> QED
    BY <1>c, <2>2, <2>3, <2>4, Moves DEF Follows, Billed, Recorded
<1>7. CASE ArchiveLogs(d) \/ RemoveFiles(d) \/ RemoveDir(d)
  <2>1. /\ pc[d] \in {"archive-logs", "remove", "rmdir"}
        /\ archived' = archived /\ key' = key
    BY <1>7 DEF ArchiveLogs, RemoveFiles, RemoveDir, At, cloud
  <2>2. archived
    BY <1>a, <2>1 DEF SuccessInv
  <2>3. Status' = Status
    BY <1>a, <2>1, <2>2 DEF ShownInv
  <2> QED
    BY <1>c, <2>1, <2>3, Stutter DEF Follows, Billed, Recorded
<1> QED
  BY <1>1, <1>2, <1>3, <1>4, <1>5, <1>6, <1>7 DEF Destroy

\* The hash of the key reaches the disk in a session that is launching.
LEMMA SharedFollows ==
    ASSUME Sequential, SessionInv, SessionInv', NEW p \in Procs, Shared(p)
    PROVE  Follows
<1> DEFINE L == Launcher
<1>a. /\ TypeOK /\ LaunchInv /\ StatusInv /\ ShownInv /\ ShownInv'
      /\ pc \in [Procs -> Steps] /\ mem[p] \in Metadata /\ saving \in [Procs -> BOOLEAN]
  BY DEF SessionInv, TypeOK
<1>b. UNCHANGED <<archived, vm>>
  BY <1>a, SharedFrame
<1>1. CASE Write(p)
  <2>1. /\ saving[p]
        /\ meta' = IF meta = None THEN None ELSE mem[p]
        /\ key' = IF key = "minted" /\ mem[p].hash THEN "recorded" ELSE key
    BY <1>1 DEF Write
  <2>2. Status' = Status
    <3>1. CASE archived
      BY <1>a, <1>b, <3>1 DEF ShownInv
    <3>2. CASE ~archived
      <4>1. meta = Torn /\ Status = mem[p].status
        BY <1>a, <2>1, <3>2 DEF ShownInv
      <4>2. Readable(meta)' /\ meta' = mem[p]
        BY <1>a, <2>1, <4>1, MetaAssumption DEF Readable
      <4> QED
        BY <1>a, <1>b, <3>2, <4>1, <4>2 DEF ShownInv
    <3> QED
      BY <3>1, <3>2
  <2>3. CASE key' = key
    BY <1>b, <2>2, <2>3, Stutter DEF Follows, Billed, Recorded
  <2>4. CASE key' # key
    <3>1. key = "minted" /\ mem[p].hash /\ key' = "recorded"
      BY <2>1, <2>4
    <3>2. p = L /\ ~Ended
      <4>1. ASSUME p \in Destroyers PROVE FALSE
        BY <1>a, <2>1, <3>1, <4>1 DEF StatusInv, DestroyInv, Resting
      <4> QED
        BY <1>a, <2>1, <4>1, Actors DEF StatusInv, EndedInv
    <3>3. pc[L] = "compose-up"
      BY <1>a, <3>1, <3>2 DEF StatusInv, AloneInv, Minting
    <3>4. vm = "tracked" /\ Status = "launching"
      BY <1>a, <3>2, <3>3 DEF LaunchInv, Applied, Phases, ShownInv, LaunchStatus
    <3> QED
      BY <1>b, <2>2, <3>1, <3>4, Bills DEF Follows, Billed, Recorded
  <2> QED
    BY <2>3, <2>4
<1>2. CASE ~Write(p)
  <2>1. UNCHANGED <<meta, key>>
    BY <1>2, <1>a, SharedFrame
  <2>2. ~saving[p]
    BY <1>2, <1>a DEF Shared, Runs, WriteFails, OpenLock, Flock, Leave, Crash, At, Sequential
  <2>3. \A q \in Procs : saving[q] => saving'[q] /\ mem'[q] = mem[q]
    BY <1>a, <2>2, SharedFrame DEF SameProcess
  <2>4. Status' = Status
    BY <1>b, <2>1, <2>3, ShownKept
  <2> QED
    BY <1>b, <2>1, <2>4, Stutter DEF Follows, Billed, Recorded
<1> QED
  BY <1>1, <1>2

\* Every step of the processes is a step of the life cycle or leaves it as it
\* was.
LEMMA StepFollows ==
    ASSUME Sequential, SessionInv, SessionInv', [Next]_vars
    PROVE  Follows
<1>1. CASE UNCHANGED vars
  BY <1>1, Stutter DEF vars, disk, cloud, local, Status, Follows, Billed, Recorded
<1> QED
  BY <1>1, Cases, LaunchFollows, TerraformFollows, DestroyFollows, SharedFollows

\* Run one after the other the commands implement the life cycle, whatever
\* fails or crashes, a panic of the launch included: nothing is provisioned for
\* a session handed over, failed or archived, a session is marked before it is
\* taken apart, and what is archived costs nothing any more.
THEOREM ImplementsLifecycle == ASSUME Sequential PROVE Spec => FollowsLifecycle
<1>1. Init => Lifecycle!Init
  BY DEF Init, Lifecycle!Init, Status
<1>2. SessionInv /\ SessionInv' /\ [Next]_vars => [Lifecycle!Next]_(Lifecycle!vars)
  BY StepFollows DEF Follows
<1> QED
  BY <1>1, <1>2, SessionInvariant, PTL DEF Spec, FollowsLifecycle, Lifecycle!Spec
====
