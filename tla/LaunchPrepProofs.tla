---- MODULE LaunchPrepProofs ----
(***************************************************************************)
(* Theorems about LaunchPrep for any number of processes, credentials,     *)
(* names, packs and attempts.                                              *)
(***************************************************************************)
EXTENDS LaunchPrep, TLAPS

Loaded(p) == run[p].pc \notin {"menu", "gone"}

\* The places of a launch with a session.
Late == {"make", "fill", "lock", "stage", "up"}

\* What goes with the place where a command is.
Fits(r) ==
    /\ r.pc = "menu" => r.left # 0
    /\ r.asked # None => r.pc \in {"testing", "resting", "zone", "write"}
    /\ r.pc \in {"testing", "resting"} => r.asked # None
    /\ r.pc = "resting" => r.tries < Attempts
    /\ r.pc = "zone" => r.asked # None /\ r.asked.field = "access" /\ r.asked.key \in Good
    /\ r.pc = "write" =>
          /\ r.after \in Returns
          /\ r.asked # None =>
                /\ r.asked.field \in Fields /\ r.asked.key \in Good
                /\ r.cfg[r.asked.field] = r.asked.key
    /\ r.pc \in Late => r.mine \in Metas /\ r.slug \in Slugs

FitInv == \A p \in Procs : Fits(run[p])

\* What is left alone by a step that shows only in the process: the credentials
\* of the copy but for the one just accepted, and the session.
Keeps(r, s) ==
    /\ s.pc \notin {"menu", "gone"} =>
          /\ r.pc \notin {"menu", "gone", "write"}
          /\ \A f \in Fields :
                s.cfg[f] # r.cfg[f] => s.pc = "write" /\ s.asked # None /\ s.asked.field = f
    /\ s.pc \in Late => r.pc \in Late /\ s.mine = r.mine /\ s.slug = r.slug

\* The steps of process p that show only in its own memory.
InitStep(p) ==
    \/ NeedsTerminal(p) \/ PickExit(p)
    \/ \E f \in Fields \cup {"local"}, key \in Good \cup {Bad} : Configure(p, f, key)
    \/ AttemptSucceeds(p) \/ AttemptFails(p) \/ DelayEnds(p) \/ DelayCancelled(p)
    \/ PickZone(p) \/ LeaveZone(p)

ChoiceStep(p) ==
    \/ LaunchStops(p) \/ EnsureBundle(p) \/ SelectVMProvider(p)
    \/ BundleProfile(p) \/ EnsureProfile(p) \/ EnsureRegionSize(p) \/ ConfirmGate(p)

LockStep(p) == LockSession(p) \/ LockFails(p) \/ LaunchEnds(p)

EndStep(p) == WriteFails(p) \/ Interrupt(p) \/ Crash(p)

Quiet(p) == InitStep(p) \/ ChoiceStep(p) \/ LockStep(p) \/ EndStep(p)

StartStep(p) == StartInit(p) \/ \E flags \in Flags : StartLaunch(p, flags)

RecordStep(p) == NewSession(p) \/ FillSession(p) \/ Stage(p) \/ StageFails(p)

\* The steps by what they touch.
LEMMA Kinds ==
    ASSUME [Next]_vars
    PROVE  \/ EditPack \/ UNCHANGED vars
           \/ \E p \in Procs :
                 Quiet(p) \/ StartStep(p) \/ Write(p) \/ NewSlug(p) \/ RecordStep(p)
BY DEF Next, InitCommand, LaunchCommand, Quiet, InitStep, ChoiceStep, LockStep, EndStep,
       StartStep, RecordStep

----
(* Types. *)

\* Places, returns and counts by name, so that larger types stay folded.
LEMMA Members ==
    /\ \A x \in Returns : x \in Places
    /\ "menu" \in Places /\ "gone" \in Places /\ "testing" \in Places
    /\ "resting" \in Places /\ "zone" \in Places /\ "write" \in Places
    /\ "bundle" \in Places /\ "provider" \in Places /\ "make" \in Places
    /\ "fill" \in Places /\ "lock" \in Places /\ "stage" \in Places /\ "up" \in Places
    /\ "pick" \in Returns /\ "profile" \in Returns /\ "size" \in Returns
    /\ "draw" \in Returns /\ "confirm" \in Returns
    /\ 0 \in Tries /\ 1 \in Tries
    /\ \A n \in Tries : n # Attempts => n < Attempts
    /\ \A n \in Tries : n < Attempts => n + 1 \in Tries
BY BoundsAssumption DEF Places, Returns, Tries

\* A process stays one when a field takes another value of its type.
LEMMA Updates ==
    ASSUME NEW r \in Runs
    PROVE  /\ \A pc \in Places : [r EXCEPT !.pc = pc] \in Runs
           /\ \A cfg \in ConfigFiles : [r EXCEPT !.cfg = cfg] \in Runs
           /\ \A left \in Nat : [r EXCEPT !.left = left] \in Runs
           /\ \A asked \in Prompts \cup {None} : [r EXCEPT !.asked = asked] \in Runs
           /\ \A n \in Tries : [r EXCEPT !.tries = n] \in Runs
           /\ \A pack \in Trees \cup {None} : [r EXCEPT !.pack = pack] \in Runs
           /\ \A profile \in {None, "plain", "ai"} : [r EXCEPT !.profile = profile] \in Runs
           /\ \A after \in Returns \cup {None} : [r EXCEPT !.after = after] \in Runs
<1>1. \A pc \in Places : [r EXCEPT !.pc = pc] \in Runs
  BY DEF Runs
<1>2. \A cfg \in ConfigFiles : [r EXCEPT !.cfg = cfg] \in Runs
  BY DEF Runs
<1>3. \A left \in Nat : [r EXCEPT !.left = left] \in Runs
  BY DEF Runs
<1>4. \A asked \in Prompts \cup {None} : [r EXCEPT !.asked = asked] \in Runs
  BY DEF Runs
<1>5. \A n \in Tries : [r EXCEPT !.tries = n] \in Runs
  BY DEF Runs
<1>6. \A pack \in Trees \cup {None} : [r EXCEPT !.pack = pack] \in Runs
  BY DEF Runs
<1>7. \A profile \in {None, "plain", "ai"} : [r EXCEPT !.profile = profile] \in Runs
  BY DEF Runs
<1>8. \A after \in Returns \cup {None} : [r EXCEPT !.after = after] \in Runs
  BY DEF Runs
<1> QED
  BY <1>1, <1>2, <1>3, <1>4, <1>5, <1>6, <1>7, <1>8

\* Where a command goes when it returns.
LEMMA Returned ==
    ASSUME TypeOK, FitInv, NEW p \in Procs, NEW left \in Nat
    PROVE  /\ NoRun(run[p].tty, run[p].ctx, left) \in Runs
           /\ Fits(NoRun(run[p].tty, run[p].ctx, left))
<1> DEFINE r == NoRun(run[p].tty, run[p].ctx, left)
<1>1. run[p].tty \in BOOLEAN /\ run[p].ctx \in BOOLEAN
  BY DEF TypeOK, Runs
<1>2. Zero \in ConfigFiles
  BY DEF Zero, ConfigFiles
<1>3. r \in Runs
  BY <1>1, <1>2, Members DEF NoRun, Runs
<1>4. Fits(r)
  BY DEF NoRun, Fits, Late
<1> QED
  BY <1>3, <1>4

\* The process p and what it may become.
LEMMA Process ==
    ASSUME TypeOK, FitInv, NEW p \in Procs
    PROVE  /\ run \in [Procs -> Runs] /\ run[p] \in Runs /\ Fits(run[p])
           /\ run[p].cfg \in ConfigFiles
           /\ NoRun(run[p].tty, run[p].ctx, run[p].left) \in Runs
           /\ Fits(NoRun(run[p].tty, run[p].ctx, run[p].left))
<1>1. run \in [Procs -> Runs] /\ run[p] \in Runs /\ Fits(run[p])
  BY DEF TypeOK, FitInv
<1>2. run[p].left \in Nat /\ run[p].cfg \in ConfigFiles
  BY <1>1 DEF Runs
<1> QED
  BY <1>1, <1>2, Returned

\* A copy that is about to be written.
LEMMA SaveType ==
    ASSUME NEW r \in Runs, r.asked = None, NEW cfg \in ConfigFiles, NEW after \in Returns,
           NEW s, s = [r EXCEPT !.pc = "write", !.cfg = cfg, !.after = after]
    PROVE  s \in Runs /\ Fits(s)
<1> DEFINE t == [r EXCEPT !.pc = "write"]
           u == [t EXCEPT !.cfg = cfg]
<1>t. t \in Runs
  BY Members, Updates
<1>u. u \in Runs
  BY <1>t, Updates
<1>1. s = [u EXCEPT !.after = after] /\ s \in Runs
  BY <1>u, Updates
<1>2. s.pc = "write" /\ s.after = after /\ s.asked = None
  BY DEF Runs
<1> QED
  BY <1>1, <1>2 DEF Fits, Late

\* A test that has ended, with the credential that is kept of it.
LEMMA TestedType ==
    ASSUME NEW r \in Runs, NEW asked \in Prompts \cup {None},
           NEW s, s = [r EXCEPT !.pc = "write", !.after = "pick", !.tries = 0, !.asked = asked]
    PROVE  s \in Runs
<1> DEFINE t == [r EXCEPT !.pc = "write"]
           u == [t EXCEPT !.after = "pick"]
           v == [u EXCEPT !.tries = 0]
<1>t. t \in Runs
  BY Members, Updates
<1>u. u \in Runs
  BY <1>t, Members, Updates
<1>v. v \in Runs
  BY <1>u, Members, Updates
<1>1. s = [v EXCEPT !.asked = asked]
  OBVIOUS
<1> QED
  BY <1>1, <1>v, Updates

\* A step to a place without a session, with the credentials of the copy as they were.
LEMMA KeepsCopy ==
    ASSUME NEW r, NEW s, r.pc \notin {"menu", "gone", "write"}, s.pc \notin Late,
           s.cfg = r.cfg
    PROVE  Keeps(r, s)
BY DEF Keeps, Late

\* A return keeps nothing.
LEMMA KeepsGone ==
    ASSUME NEW r, NEW tty, NEW ctx, NEW left
    PROVE  Keeps(r, NoRun(tty, ctx, left))
BY DEF Keeps, Late, NoRun

\* A rejected credential is forgotten, an accepted one filled in.
LEMMA AcceptType ==
    ASSUME TypeOK, FitInv, NEW p \in Procs, Accept(p),
           run[p].pc \in {"testing", "zone"}, run[p].asked # None, run[p].asked.key \in Good
    PROVE  run'[p] \in Runs /\ Fits(run'[p]) /\ Keeps(run[p], run'[p])
<1> DEFINE a == run[p].asked
           r == run[p]
<1>0. run \in [Procs -> Runs] /\ r \in Runs /\ r.cfg \in ConfigFiles
  BY Process
<1>1. CASE a.field \notin Fields
  <2>1. run'[p] = [r EXCEPT !.pc = "write", !.after = "pick", !.tries = 0, !.asked = None]
    BY <1>0, <1>1 DEF Accept, Reject
  <2>2. run'[p] \in Runs
    BY <1>0, <2>1, TestedType
  <2>3. /\ run'[p].pc = "write" /\ run'[p].after = "pick" /\ run'[p].asked = None
        /\ run'[p].cfg = r.cfg
    BY <1>0, <2>1 DEF Runs
  <2>4. Keeps(r, run'[p])
    BY <2>3, KeepsCopy DEF Late
  <2> QED
    BY <2>2, <2>3, <2>4, Members DEF Fits, Late
<1>2. CASE a.field \in Fields
  <2> DEFINE cfg == [r.cfg EXCEPT ![a.field] = a.key]
             t == [r EXCEPT !.pc = "write", !.after = "pick", !.tries = 0]
  <2>1. run' = [run EXCEPT ![p].pc = "write", ![p].after = "pick", ![p].tries = 0,
                           ![p].cfg[a.field] = a.key]
    BY <1>2 DEF Accept
  <2>2. run'[p] = [t EXCEPT !.cfg = cfg]
    BY <1>0, <2>1 DEF Runs
  <2>3. cfg \in ConfigFiles
    BY <1>0, <1>2 DEF ConfigFiles, Fields
  <2>t. t \in Runs /\ t.asked = a /\ t.pc = "write" /\ t.after = "pick"
    BY <1>0, Members DEF Runs
  <2> HIDE DEF t
  <2>4. /\ run'[p] \in Runs
        /\ run'[p].cfg = cfg /\ run'[p].asked = a
        /\ run'[p].pc = "write" /\ run'[p].after = "pick"
    BY <1>0, <2>2, <2>3, <2>t DEF Runs
  <2>5. /\ run'[p].cfg[a.field] = a.key
        /\ \A f \in Fields : f # a.field => run'[p].cfg[f] = r.cfg[f]
    BY <1>0, <1>2, <2>4 DEF ConfigFiles, Fields
  <2>6. Keeps(r, run'[p])
    BY <2>4, <2>5 DEF Keeps, Late
  <2> QED
    BY <1>2, <2>4, <2>5, <2>6, Members DEF Fits, Late
<1> QED
  BY <1>1, <1>2

\* init keeps the type of its process.
LEMMA InitType ==
    ASSUME TypeOK, FitInv, NEW p \in Procs, InitStep(p)
    PROVE  run'[p] \in Runs /\ Fits(run'[p]) /\ Keeps(run[p], run'[p])
<1> DEFINE r == run[p]
           s == run'[p]
<1>0. run \in [Procs -> Runs] /\ r \in Runs /\ Fits(r) /\ Attempts \in Nat \ {0}
  BY Process, BoundsAssumption
<1>1. CASE NeedsTerminal(p)
  <2>1. r.left - 1 \in Nat
    BY <1>0, <1>1 DEF NeedsTerminal, At, Fits, Runs
  <2>2. s = NoRun(r.tty, r.ctx, r.left - 1)
    BY <1>0, <1>1 DEF NeedsTerminal
  <2> QED
    BY <2>1, <2>2, Returned, KeepsGone
<1>2. CASE PickExit(p)
  <2>1. s = NoRun(r.tty, r.ctx, r.left)
    BY <1>0, <1>2 DEF PickExit, Return, Ended
  <2> QED
    BY <2>1, Process, KeepsGone
<1>3. ASSUME NEW f \in Fields \cup {"local"}, NEW key \in Good \cup {Bad}, Configure(p, f, key)
      PROVE  s \in Runs /\ Fits(s) /\ Keeps(r, s)
  <2>1. s = [r EXCEPT !.pc = "testing", !.tries = 1, !.left = @ - 1,
                      !.asked = [field |-> f, key |-> key]]
    BY <1>0, <1>3 DEF Configure
  <2>2. [field |-> f, key |-> key] \in Prompts
    BY <1>3 DEF Prompts
  <2>3. r.left - 1 \in Nat
    BY <1>0, <1>3 DEF Configure, Runs
  <2> DEFINE t == [r EXCEPT !.pc = "testing"]
             u == [t EXCEPT !.tries = 1]
             v == [u EXCEPT !.left = r.left - 1]
  <2>t. t \in Runs
    BY <1>0, Members, Updates
  <2>u. u \in Runs
    BY <2>t, Members, Updates
  <2>v. v \in Runs
    BY <2>u, <2>3, Updates
  <2>s. \A asked \in Prompts : [v EXCEPT !.asked = asked] \in Runs
    BY <2>v, Updates
  <2>4. s = [v EXCEPT !.asked = [field |-> f, key |-> key]] /\ s \in Runs
    BY <2>1, <2>2, <2>s
  <2>5. s.pc = "testing" /\ s.asked = [field |-> f, key |-> key] /\ s.cfg = r.cfg
    BY <1>0, <2>1 DEF Runs
  <2>6. Keeps(r, s)
    BY <1>3, <2>5, KeepsCopy DEF Configure, At, Late
  <2> QED
    BY <2>2, <2>4, <2>5, <2>6, NamesAssumption DEF Fits, Late
<1>4. CASE AttemptSucceeds(p)
  <2>1. r.asked # None /\ r.asked.key \in Good /\ r.pc = "testing"
    BY <1>0, <1>4 DEF AttemptSucceeds, At, Fits, Late
  <2>2. CASE r.asked.field = "access"
    <3>1. s = [r EXCEPT !.pc = "zone"]
      BY <1>0, <1>4, <2>2 DEF AttemptSucceeds, Goto
    <3>2. s \in Runs
      BY <1>0, <3>1, Members DEF Runs
    <3>3. s.pc = "zone" /\ s.asked = r.asked /\ s.cfg = r.cfg
      BY <1>0, <3>1 DEF Runs
    <3>4. Keeps(r, s)
      BY <2>1, <3>3, KeepsCopy DEF Late
    <3> QED
      BY <2>1, <2>2, <3>2, <3>3, <3>4 DEF Fits, Late
  <2>3. CASE r.asked.field # "access"
    BY <1>4, <2>1, <2>3, AcceptType DEF AttemptSucceeds
  <2> QED
    BY <2>2, <2>3
<1>5. ASSUME Reject(p), r.pc \in {"testing", "resting"}
      PROVE  s \in Runs /\ Fits(s) /\ Keeps(r, s)
  <2>1. s = [r EXCEPT !.pc = "write", !.after = "pick", !.tries = 0, !.asked = None]
    BY <1>0, <1>5 DEF Reject
  <2>2. s \in Runs
    BY <1>0, <2>1, TestedType
  <2>3. s.pc = "write" /\ s.after = "pick" /\ s.asked = None /\ s.cfg = r.cfg
    BY <1>0, <2>1 DEF Runs
  <2>4. Keeps(r, s)
    BY <1>5, <2>3, KeepsCopy DEF Late
  <2> QED
    BY <2>2, <2>3, <2>4, Members DEF Fits, Late
<1>6. CASE AttemptFails(p)
  <2>1. CASE r.tries = Attempts
    BY <1>5, <1>6, <2>1 DEF AttemptFails, At
  <2>2. CASE r.tries # Attempts
    <3>1. s = [r EXCEPT !.pc = "resting"]
      BY <1>0, <1>6, <2>2 DEF AttemptFails, Goto
    <3>2. s \in Runs
      BY <1>0, <3>1, Members DEF Runs
    <3>3. /\ s.pc = "resting" /\ s.asked = r.asked /\ s.tries = r.tries /\ r.tries \in Tries
          /\ s.cfg = r.cfg
      BY <1>0, <3>1 DEF Runs
    <3>4. r.asked # None /\ r.pc = "testing"
      BY <1>0, <1>6 DEF AttemptFails, At, Fits, Late
    <3>5. Keeps(r, s)
      BY <3>3, <3>4, KeepsCopy DEF Late
    <3> QED
      BY <2>2, <3>2, <3>3, <3>4, <3>5, Members DEF Fits, Late
  <2> QED
    BY <2>1, <2>2
<1>7. CASE DelayEnds(p)
  <2>1. s = [r EXCEPT !.pc = "testing", !.tries = @ + 1]
    BY <1>0, <1>7 DEF DelayEnds
  <2>2. r.asked # None /\ r.tries < Attempts /\ r.pc = "resting"
    BY <1>0, <1>7 DEF DelayEnds, At, Fits, Late
  <2>3. r.tries + 1 \in Tries
    BY <1>0, <2>2, Members DEF Runs
  <2>4. s \in Runs
    BY <1>0, <2>1, <2>3, Members DEF Runs
  <2>5. s.pc = "testing" /\ s.asked = r.asked /\ s.cfg = r.cfg
    BY <1>0, <2>1 DEF Runs
  <2>6. Keeps(r, s)
    BY <2>2, <2>5, KeepsCopy DEF Late
  <2> QED
    BY <2>2, <2>4, <2>5, <2>6 DEF Fits, Late
<1>8. CASE DelayCancelled(p)
  BY <1>5, <1>8 DEF DelayCancelled, At
<1>9. CASE PickZone(p)
  BY <1>0, <1>9, AcceptType DEF PickZone, At, Fits, Late
<1>10. CASE LeaveZone(p)
  <2>1. s = [r EXCEPT !.pc = "pick", !.asked = None, !.tries = 0]
    BY <1>0, <1>10 DEF LeaveZone
  <2> DEFINE t == [r EXCEPT !.pc = "pick"]
             u == [t EXCEPT !.asked = None]
  <2>t. t \in Runs
    BY <1>0, Members, Updates
  <2>u. u \in Runs
    BY <2>t, Updates
  <2>2. s = [u EXCEPT !.tries = 0] /\ s \in Runs
    BY <2>1, <2>u, Members, Updates
  <2>3. s.pc = "pick" /\ s.asked = None /\ s.cfg = r.cfg /\ r.pc = "zone"
    BY <1>0, <1>10, <2>1 DEF Runs, LeaveZone, At
  <2>4. Keeps(r, s)
    BY <2>3, KeepsCopy DEF Late
  <2> QED
    BY <2>2, <2>3, <2>4 DEF Fits, Late
<1> QED
  BY <1>1, <1>2, <1>3, <1>4, <1>6, <1>7, <1>8, <1>9, <1>10 DEF InitStep

\* So do the choices of launch.
LEMMA ChoiceType ==
    ASSUME TypeOK, FitInv, NEW p \in Procs, ChoiceStep(p)
    PROVE  run'[p] \in Runs /\ Fits(run'[p]) /\ Keeps(run[p], run'[p])
<1> DEFINE r == run[p]
           s == run'[p]
           Moved(pc, pack, profile) == [r EXCEPT !.pc = pc, !.pack = pack, !.profile = profile]
<1>0. run \in [Procs -> Runs] /\ r \in Runs /\ Fits(r) /\ r.cfg \in ConfigFiles
  BY Process
<1>1. r.profile \in {None, "plain", "ai"} /\ tree \in Trees
  BY <1>0 DEF Runs, TypeOK
\* A step to another place, which holds nothing a prompt asked.
<1>2. ASSUME r.pc \in {"bundle", "provider", "profile", "size", "confirm"},
             NEW pc \in {"provider", "profile", "size", "confirm", "draw"},
             NEW pack \in Trees \cup {None}, NEW profile \in {None, "plain", "ai"},
             s = Moved(pc, pack, profile)
      PROVE  s \in Runs /\ Fits(s) /\ Keeps(r, s)
  <2>1. pc \in Places
    BY Members
  <2> DEFINE t == [r EXCEPT !.pc = pc]
             u == [t EXCEPT !.pack = pack]
  <2>t. t \in Runs
    BY <1>0, <2>1, Updates
  <2>u. u \in Runs
    BY <2>t, Updates
  <2>2. s = [u EXCEPT !.profile = profile] /\ s \in Runs
    BY <1>2, <2>u, Updates
  <2>3. s.pc = pc /\ s.asked = r.asked /\ s.cfg = r.cfg
    BY <1>0, <1>2 DEF Runs
  <2>4. r.asked = None
    BY <1>0, <1>2 DEF Fits, Late
  <2>5. r.pc \notin {"menu", "gone", "write"} /\ s.pc \notin Late
    BY <1>2, <2>3 DEF Late
  <2>6. Keeps(r, s)
    BY <2>3, <2>5, KeepsCopy
  <2> QED
    BY <2>2, <2>3, <2>4, <2>6 DEF Fits, Late
<1> HIDE DEF Moved
<1>3. CASE LaunchStops(p)
  <2>1. s = NoRun(r.tty, r.ctx, r.left)
    BY <1>0, <1>3 DEF LaunchStops, Return, Ended
  <2> QED
    BY <2>1, Process, KeepsGone
<1>4. CASE EnsureBundle(p)
  <2>1. PICK pack \in {None, tree} : run' = [run EXCEPT ![p].pc = "provider", ![p].pack = pack]
    BY <1>4 DEF EnsureBundle
  <2>2. s = Moved("provider", pack, r.profile)
    BY <1>0, <2>1 DEF Runs, Moved
  <2>3. pack \in Trees \cup {None} /\ r.pc = "bundle"
    BY <1>1, <1>4 DEF EnsureBundle, At
  <2> QED
    BY <1>1, <1>2, <2>2, <2>3
<1>5. CASE SelectVMProvider(p)
  <2>1. PICK sel \in {"cloud", "local"} : Save(p, [r.cfg EXCEPT !.role = sel], "profile")
    <3>1. \A docker \in BOOLEAN : VMProviders(p, docker) \subseteq {"cloud", "local"}
      BY DEF VMProviders
    <3>2. \E docker \in BOOLEAN : \E sel \in VMProviders(p, docker) :
            Save(p, [r.cfg EXCEPT !.role = sel], "profile")
      BY <1>5 DEF SelectVMProvider
    <3> QED
      BY <3>1, <3>2
  <2>2. [r.cfg EXCEPT !.role = sel] \in ConfigFiles
    BY <1>0 DEF ConfigFiles
  <2>3. r.asked = None /\ r.pc = "provider"
    BY <1>0, <1>5 DEF SelectVMProvider, At, Fits, Late
  <2>4. s = [r EXCEPT !.pc = "write", !.cfg = [r.cfg EXCEPT !.role = sel],
                      !.after = "profile"]
    BY <1>0, <2>1 DEF Save
  <2>5. s.pc = "write" /\ \A f \in Fields : s.cfg[f] = r.cfg[f]
    BY <1>0, <2>4 DEF Runs, ConfigFiles, Fields
  <2>6. Keeps(r, s)
    BY <2>3, <2>5 DEF Keeps, Late
  <2> QED
    BY <1>0, <2>2, <2>3, <2>4, <2>6, SaveType, Members
<1>6. /\ AfterProfile(p) \in {"provider", "profile", "size", "confirm", "draw"}
      /\ AfterProfile(p) \in Returns
  BY DEF AfterProfile, Returns
<1>7. CASE BundleProfile(p)
  <2>1. PICK profile \in {"plain", "ai"} :
          run' = [run EXCEPT ![p].pc = AfterProfile(p), ![p].profile = profile]
    BY <1>7 DEF BundleProfile
  <2>2. s = [r EXCEPT !.pc = AfterProfile(p), !.profile = profile]
    BY <1>0, <2>1
  <2>4. s = Moved(AfterProfile(p), r.pack, profile)
    BY <1>0, <2>2 DEF Runs, Moved
  <2>3. r.pack \in Trees \cup {None}
    BY <1>0 DEF Runs
  <2> QED
    BY <1>2, <1>6, <1>7, <2>3, <2>4 DEF BundleProfile, At
<1>8. CASE EnsureProfile(p)
  <2>1. PICK profile \in {"plain", "ai"} :
          \/ run' = [run EXCEPT ![p].pc = AfterProfile(p), ![p].profile = profile]
          \/ run' = [run EXCEPT ![p].pc = "write", ![p].after = AfterProfile(p),
                                ![p].profile = profile, ![p].cfg.profile = profile]
    BY <1>8 DEF EnsureProfile
  <2>2. r.pc = "profile" /\ r.asked = None
    BY <1>0, <1>8 DEF EnsureProfile, At, Fits, Late
  <2>3. CASE run' = [run EXCEPT ![p].pc = AfterProfile(p), ![p].profile = profile]
    <3>1. s = Moved(AfterProfile(p), r.pack, profile)
      BY <1>0, <2>3 DEF Runs, Moved
    <3>2. r.pack \in Trees \cup {None}
      BY <1>0 DEF Runs
    <3> QED
      BY <1>2, <1>6, <2>2, <3>1, <3>2
  <2>4. CASE run' = [run EXCEPT ![p].pc = "write", ![p].after = AfterProfile(p),
                                ![p].profile = profile, ![p].cfg.profile = profile]
    <3>1. [r.cfg EXCEPT !.profile = profile] \in ConfigFiles
      BY <1>0 DEF ConfigFiles
    <3> DEFINE t == [r EXCEPT !.pc = "write", !.cfg = [r.cfg EXCEPT !.profile = profile],
                              !.after = AfterProfile(p)]
    <3>2. t \in Runs /\ Fits(t)
      BY <1>0, <1>6, <2>2, <3>1, SaveType, Members
    <3>3. s = [t EXCEPT !.profile = profile]
      BY <1>0, <2>4 DEF Runs
    <3> HIDE DEF t
    <3>4. s \in Runs
      BY <3>2, <3>3 DEF Runs
    <3>5. /\ s.pc = t.pc /\ s.left = t.left /\ s.asked = t.asked /\ s.tries = t.tries
          /\ s.after = t.after /\ s.cfg = t.cfg /\ s.mine = t.mine /\ s.slug = t.slug
      BY <3>2, <3>3 DEF Runs
    <3>6. t.pc = "write" /\ \A f \in Fields : t.cfg[f] = r.cfg[f]
      BY <1>0 DEF Runs, ConfigFiles, Fields, t
    <3>7. Keeps(r, s)
      BY <2>2, <3>5, <3>6 DEF Keeps, Late
    <3> QED
      BY <3>2, <3>4, <3>5, <3>7 DEF Fits, Late
  <2> QED
    BY <2>1, <2>3, <2>4
<1>9. CASE EnsureRegionSize(p)
  <2>1. r.pc = "size" /\ r.asked = None
    BY <1>0, <1>9 DEF EnsureRegionSize, At, Fits, Late
  <2>2. CASE Goto(p, "confirm")
    <3>1. s = Moved("confirm", r.pack, r.profile)
      BY <1>0, <2>2 DEF Goto, Runs, Moved
    <3>2. r.pack \in Trees \cup {None}
      BY <1>0 DEF Runs
    <3> QED
      BY <1>1, <1>2, <2>1, <3>1, <3>2
  <2>3. CASE Save(p, [r.cfg EXCEPT !.size = "size"], "confirm")
    <3>1. [r.cfg EXCEPT !.size = "size"] \in ConfigFiles
      BY <1>0 DEF ConfigFiles
    <3>2. s = [r EXCEPT !.pc = "write", !.cfg = [r.cfg EXCEPT !.size = "size"],
                        !.after = "confirm"]
      BY <1>0, <2>3 DEF Save
    <3>3. s.pc = "write" /\ \A f \in Fields : s.cfg[f] = r.cfg[f]
      BY <1>0, <3>2 DEF Runs, ConfigFiles, Fields
    <3>4. Keeps(r, s)
      BY <2>1, <3>3 DEF Keeps, Late
    <3> QED
      BY <1>0, <2>1, <3>1, <3>2, <3>4, SaveType, Members
  <2> QED
    BY <1>9, <2>2, <2>3 DEF EnsureRegionSize
<1>10. CASE ConfirmGate(p)
  <2>1. s = Moved("draw", r.pack, r.profile)
    BY <1>0, <1>10 DEF ConfirmGate, Goto, Runs, Moved
  <2>2. r.pack \in Trees \cup {None}
    BY <1>0 DEF Runs
  <2> QED
    BY <1>1, <1>2, <1>10, <2>1, <2>2 DEF ConfirmGate, At
<1> QED
  BY <1>3, <1>4, <1>5, <1>7, <1>8, <1>9, <1>10 DEF ChoiceStep

\* And the lock, failing writes, interrupts and crashes.
LEMMA LastType ==
    ASSUME TypeOK, FitInv, NEW p \in Procs, LockStep(p) \/ EndStep(p)
    PROVE  run'[p] \in Runs /\ Fits(run'[p]) /\ Keeps(run[p], run'[p])
<1> DEFINE r == run[p]
           s == run'[p]
<1>0. run \in [Procs -> Runs] /\ r \in Runs /\ Fits(r) /\ r.left \in Nat
  BY Process DEF Runs
<1>1. CASE LockSession(p)
  <2>1. s = [r EXCEPT !.pc = "stage"] /\ r.pc = "lock"
    BY <1>0, <1>1 DEF LockSession, Goto, At
  <2>2. s \in Runs
    BY <1>0, <2>1, Members DEF Runs
  <2>3. s.pc = "stage" /\ s.asked = r.asked /\ s.mine = r.mine /\ s.slug = r.slug
    BY <1>0, <2>1 DEF Runs
  <2>4. s.cfg = r.cfg
    BY <1>0, <2>1 DEF Runs
  <2>5. Keeps(r, s)
    BY <2>1, <2>3, <2>4 DEF Keeps, Late
  <2> QED
    BY <1>0, <2>1, <2>2, <2>3, <2>5 DEF Fits, Late
<1>2. CASE LockFails(p) \/ LaunchEnds(p) \/ WriteFails(p)
  <2>1. s = NoRun(r.tty, r.ctx, r.left)
    BY <1>0, <1>2 DEF LockFails, LaunchEnds, WriteFails, Return, Ended
  <2> QED
    BY <2>1, Process, KeepsGone
<1>3. CASE Crash(p)
  <2>1. s = NoRun(r.tty, r.ctx, 0)
    BY <1>0, <1>3 DEF Crash
  <2> QED
    BY <2>1, Returned, KeepsGone
<1>4. CASE Interrupt(p)
  <2>1. s = [r EXCEPT !.ctx = FALSE]
    BY <1>0, <1>4 DEF Interrupt
  <2>2. s \in Runs
    BY <1>0, <2>1 DEF Runs
  <2>3. /\ s.pc = r.pc /\ s.left = r.left /\ s.asked = r.asked /\ s.tries = r.tries
        /\ s.after = r.after /\ s.cfg = r.cfg /\ s.mine = r.mine /\ s.slug = r.slug
    BY <1>0, <2>1 DEF Runs
  <2>4. Keeps(r, s)
    BY <1>4, <2>3, KeepsCopy DEF Interrupt, Late
  <2> QED
    BY <1>0, <2>2, <2>3, <2>4 DEF Fits, Late
<1> QED
  BY <1>1, <1>2, <1>3, <1>4 DEF LockStep, EndStep

\* A command that starts has the file as it is now.
LEMMA StartType ==
    ASSUME TypeOK, FitInv, NEW p \in Procs, StartStep(p)
    PROVE  /\ run'[p] \in Runs /\ Fits(run'[p])
           /\ run'[p].cfg = file /\ run'[p].pc \in {"pick", "bundle"}
<1> DEFINE r == run[p]
           s == run'[p]
<1>0. run \in [Procs -> Runs] /\ r \in Runs /\ Fits(r) /\ file \in ConfigFiles
  BY Process DEF TypeOK
<1>1. PICK pc \in {"pick", "bundle"}, flags \in Flags \cup {None}, cost \in {1, 2} :
        Load(p, pc, flags, cost)
  BY DEF StartStep, StartInit, StartLaunch
<1>2. s = [r EXCEPT !.pc = pc, !.cfg = file, !.flags = flags, !.left = @ - cost]
  BY <1>0, <1>1 DEF Load
<1>3. r.left - cost \in Nat /\ r.asked = None
  BY <1>0, <1>1 DEF Load, At, Fits, Late, Runs
<1>4. pc \in Places
  BY Members DEF Places
<1> DEFINE left == r.left - cost
           t == [r EXCEPT !.pc = pc, !.left = left]
<1>5. left \in Nat /\ s = [t EXCEPT !.cfg = file, !.flags = flags]
  BY <1>0, <1>2, <1>3 DEF Runs
<1>6. s \in Runs
  <2> HIDE DEF left
  <2>1. t \in Runs
    BY <1>0, <1>4, <1>5 DEF Runs
  <2> HIDE DEF t
  <2> QED
    BY <1>0, <1>5, <2>1 DEF Runs
<1>7. s.pc = pc /\ s.cfg = file /\ s.asked = r.asked
  BY <1>0, <1>2 DEF Runs
<1> QED
  BY <1>3, <1>6, <1>7 DEF Fits, Late

\* After a write the command goes on with the copy it wrote.
LEMMA WriteType ==
    ASSUME TypeOK, FitInv, NEW p \in Procs, Write(p)
    PROVE  /\ run'[p] \in Runs /\ Fits(run'[p])
           /\ run'[p].cfg = run[p].cfg /\ run'[p].pc \in Returns
<1> DEFINE r == run[p]
           s == run'[p]
<1>0. run \in [Procs -> Runs] /\ r \in Runs /\ Fits(r)
  BY Process
<1>1. s = [r EXCEPT !.pc = r.after, !.asked = None, !.after = None]
  BY <1>0 DEF Write
<1>2. r.after \in Returns /\ r.after \in Places
  BY <1>0, Members DEF Write, At, Fits, Late
<1>3. s \in Runs
  BY <1>0, <1>1, <1>2 DEF Runs
<1>4. s.pc = r.after /\ s.asked = None /\ s.cfg = r.cfg
  BY <1>0, <1>1 DEF Runs
<1>5. s.pc \notin Late /\ s.pc \notin {"menu", "testing", "resting", "zone", "write"}
  BY <1>2, <1>4 DEF Returns, Late
<1> QED
  BY <1>2, <1>3, <1>4, <1>5 DEF Fits, Late

\* A drawn name comes with what is to be recorded under it.
LEMMA DrawType ==
    ASSUME TypeOK, FitInv, NEW p \in Procs, NewSlug(p)
    PROVE  /\ run'[p] \in Runs /\ Fits(run'[p])
           /\ run[p].pc = "draw" /\ run'[p].pc = "make"
           /\ run'[p].cfg = run[p].cfg /\ run'[p].mine = Metadata(p)
           /\ \E s \in Slugs :
                 run'[p].slug = s /\ meta[s] = None /\ blind' = [blind EXCEPT ![p] = @ \ {s}]
<1> DEFINE r == run[p]
           s == run'[p]
<1>0. run \in [Procs -> Runs] /\ r \in Runs /\ Fits(r)
  BY Process
<1>1. PICK name \in Slugs :
        /\ run' = [run EXCEPT ![p].pc = "make", ![p].slug = name, ![p].mine = Metadata(p)]
        /\ blind' = [blind EXCEPT ![p] = @ \ {name}] /\ meta[name] = None
  BY DEF NewSlug, Unused
<1>2. s = [r EXCEPT !.pc = "make", !.slug = name, !.mine = Metadata(p)]
  BY <1>0, <1>1
<1>3. Metadata(p) \in Metas
  BY DEF Metadata, Metas, ActiveAI, ActiveAccess
<1> DEFINE t == [r EXCEPT !.pc = "make", !.slug = name]
<1>t. t \in Runs /\ s = [t EXCEPT !.mine = Metadata(p)]
  BY <1>0, <1>2, Members DEF Runs
<1>4. s \in Runs
  <2> HIDE DEF t
  <2> QED
    BY <1>3, <1>t DEF Runs
<1>5. /\ s.pc = "make" /\ s.slug = name /\ s.mine = Metadata(p)
      /\ s.cfg = r.cfg /\ s.asked = r.asked
  BY <1>0, <1>2 DEF Runs
<1>6. r.pc = "draw" /\ r.asked = None
  BY <1>0 DEF NewSlug, At, Fits, Late
<1>7. Fits(s)
  BY <1>3, <1>5, <1>6 DEF Fits, Late
<1> QED
  BY <1>1, <1>4, <1>5, <1>6, <1>7

\* A launch records under its name what it has of its own, and stays with both.
LEMMA RecordType ==
    ASSUME TypeOK, FitInv, NEW p \in Procs, RecordStep(p)
    PROVE  /\ run'[p] \in Runs /\ Fits(run'[p])
           /\ run[p].pc \in Late /\ run[p].slug \in Slugs /\ run[p].mine \in Metas
           /\ run'[p].pc \notin {"menu", "gone"} =>
                 /\ run'[p].pc \in Late /\ run'[p].cfg = run[p].cfg
                 /\ run'[p].slug = run[p].slug /\ run'[p].mine.ai = run[p].mine.ai
                 /\ run'[p].mine.by = run[p].mine.by
           /\ \E m \in Metas :
                 m.ai = run[p].mine.ai /\ m.by = run[p].mine.by /\ Record(p, m)
<1> DEFINE r == run[p]
           s == run'[p]
<1>0. run \in [Procs -> Runs] /\ r \in Runs /\ Fits(r)
  BY Process
<1>1. /\ r.pc \in {"make", "fill", "stage"}
      /\ r.pc \in Late /\ r.asked = None /\ r.slug \in Slugs /\ r.mine \in Metas
  BY <1>0 DEF RecordStep, NewSession, FillSession, Stage, StageFails, At, Fits, Late
<1>2. CASE NewSession(p) \/ Stage(p)
  <2>1. PICK pc \in {"fill", "up"} : Goto(p, pc)
    BY <1>2 DEF NewSession, Stage
  <2>2. Record(p, r.mine)
    BY <1>2 DEF NewSession, Stage
  <2>3. s = [r EXCEPT !.pc = pc]
    BY <1>0, <2>1 DEF Goto
  <2>4. pc \in Places
    BY Members
  <2>5. s \in Runs
    BY <1>0, <2>3, <2>4 DEF Runs
  <2>6. s.pc = pc /\ s.asked = r.asked /\ s.cfg = r.cfg /\ s.slug = r.slug /\ s.mine = r.mine
    BY <1>0, <2>3 DEF Runs
  <2>7. Fits(s) /\ s.pc \in Late
    BY <1>1, <2>6 DEF Fits, Late
  <2> QED
    BY <1>1, <2>1, <2>2, <2>5, <2>6, <2>7
<1>3. CASE FillSession(p)
  <2> DEFINE m == [r.mine EXCEPT !.kind = r.pack # None /\ Bundle(r.pack).kind]
  <2>1. Record(p, m) /\ run' = [run EXCEPT ![p].pc = "lock", ![p].mine = m]
    BY <1>3 DEF FillSession
  <2>2. (r.pack # None /\ Bundle(r.pack).kind) \in BOOLEAN
    BY DEF Bundle
  <2>3. m \in Metas /\ m.ai = r.mine.ai /\ m.by = r.mine.by
    BY <1>1, <2>2 DEF Metas
  <2> HIDE DEF m
  <2>4. s = [r EXCEPT !.pc = "lock", !.mine = m]
    BY <1>0, <2>1
  <2> DEFINE t == [r EXCEPT !.pc = "lock"]
  <2>t. t \in Runs /\ s = [t EXCEPT !.mine = m]
    BY <1>0, <2>4, Members DEF Runs
  <2>5. s \in Runs
    <3> HIDE DEF t
    <3> QED
      BY <2>3, <2>t DEF Runs
  <2>6. /\ s.pc = "lock" /\ s.asked = r.asked /\ s.cfg = r.cfg /\ s.slug = r.slug
        /\ s.mine = m
    BY <1>0, <2>4 DEF Runs
  <2>7. Fits(s) /\ s.pc \in Late
    BY <1>1, <2>3, <2>6 DEF Fits, Late
  <2> QED
    BY <1>1, <2>1, <2>3, <2>5, <2>6, <2>7
<1>4. CASE StageFails(p)
  <2>1. s = NoRun(r.tty, r.ctx, r.left) /\ Record(p, r.mine)
    BY <1>0, <1>4 DEF StageFails, Return, Ended
  <2>2. s \in Runs /\ Fits(s)
    BY <2>1, Process
  <2>3. s.pc \in {"menu", "gone"}
    BY <2>1 DEF NoRun
  <2> QED
    BY <1>1, <2>1, <2>2, <2>3
<1> QED
  BY <1>2, <1>3, <1>4 DEF RecordStep

\* The files and the histories keep their types.
LEMMA SharedType ==
    ASSUME TypeOK, FitInv, NEW p \in Procs,
           Quiet(p) \/ StartStep(p) \/ Write(p) \/ NewSlug(p) \/ RecordStep(p)
    PROVE  /\ file' \in ConfigFiles /\ meta' \in [Slugs -> Metas \cup {None}]
           /\ payload' \in [Slugs -> SUBSET Payloads] /\ tree' \in Trees
           /\ told' \in [Fields -> Good \cup {None}]
           /\ blind' \in [Procs -> SUBSET (Fields \cup Slugs)] /\ lost' \in SUBSET Fields
<1>0. /\ file \in ConfigFiles /\ meta \in [Slugs -> Metas \cup {None}]
      /\ payload \in [Slugs -> SUBSET Payloads] /\ tree \in Trees
      /\ told \in [Fields -> Good \cup {None}]
      /\ blind \in [Procs -> SUBSET (Fields \cup Slugs)] /\ lost \in SUBSET Fields
      /\ run[p].cfg \in ConfigFiles
  BY Process DEF TypeOK
<1>1. CASE Quiet(p)
  <2>1. UNCHANGED <<disk, history>>
    BY <1>1 DEF Quiet, InitStep, ChoiceStep, LockStep, EndStep, NeedsTerminal, PickExit,
       Configure, AttemptSucceeds, AttemptFails, DelayEnds, DelayCancelled, PickZone, LeaveZone,
       LaunchStops, EnsureBundle, SelectVMProvider, BundleProfile, EnsureProfile,
       EnsureRegionSize, ConfirmGate, LockSession, LockFails, LaunchEnds, WriteFails,
       Interrupt, Crash
  <2> QED
    BY <1>0, <2>1 DEF disk, history
<1>2. CASE StartStep(p)
  BY <1>0, <1>2 DEF StartStep, StartInit, StartLaunch, Load, disk
<1>3. CASE Write(p)
  <2> DEFINE stored == IF run[p].asked = None THEN {} ELSE {run[p].asked.field}
  <2>1. stored \subseteq Fields /\ (stored # {} => run[p].asked.key \in Good)
    BY <1>3, Process DEF Write, At, Fits
  <2>2. /\ file' = run[p].cfg
        /\ told' = [f \in Fields |-> IF f \in stored THEN run[p].asked.key ELSE told[f]]
        /\ blind' = [q \in Procs |-> IF q = p THEN blind[q] \ stored
                                              ELSE blind[q] \cup stored]
        /\ lost' = (lost \cup (blind[p] \cap Fields)) \ stored
        /\ UNCHANGED <<meta, payload, tree>>
    BY <1>3 DEF Write
  <2> HIDE DEF stored
  <2>3. told' \in [Fields -> Good \cup {None}]
    BY <1>0, <2>1, <2>2
  <2>4. blind' \in [Procs -> SUBSET (Fields \cup Slugs)] /\ lost' \in SUBSET Fields
    BY <1>0, <2>1, <2>2
  <2> QED
    BY <1>0, <2>2, <2>3, <2>4
<1>4. CASE NewSlug(p)
  <2>1. blind' \in [Procs -> SUBSET (Fields \cup Slugs)]
    BY <1>0, <1>4, DrawType
  <2> QED
    BY <1>0, <1>4, <2>1 DEF NewSlug, disk
<1>5. CASE RecordStep(p)
  <2>1. PICK m \in Metas : Record(p, m)
    BY <1>5, RecordType
  <2>2. run[p].slug \in Slugs
    BY <1>5, RecordType
  <2>3. blind' \in [Procs -> SUBSET (Fields \cup Slugs)]
    BY <1>0, <2>1, <2>2 DEF Record, Unseen
  <2>4. \A b : StagePayload(tree, b) \subseteq Payloads
    <3>1. tree.has \subseteq Areas /\ tree.links \subseteq Links
      BY <1>0, TreesAssumption DEF Packs
    <3>2. \A a \in Areas : Dest(a) \in {"workspace", "lab", "kind"}
      BY DEF Areas, Dest
    <3> QED
      BY <3>1, <3>2 DEF StagePayload, Sources, RootLinks, Met, Walked, Payloads, Links, Areas
  <2>5. payload' \in [Slugs -> SUBSET Payloads]
    <3>1. payload' = payload \/ \E part \in SUBSET Payloads :
                        payload' = [payload EXCEPT ![run[p].slug] = @ \cup part]
      BY <1>5, <2>4 DEF RecordStep, NewSession, FillSession, Stage, StageFails
    <3> QED
      BY <1>0, <2>2, <3>1
  <2> QED
    BY <1>0, <2>1, <2>3, <2>5 DEF Record
<1> QED
  BY <1>1, <1>2, <1>3, <1>4, <1>5

\* A step of one process changes no other.
LEMMA Alone ==
    ASSUME TypeOK, NEW p \in Procs,
           Quiet(p) \/ StartStep(p) \/ Write(p) \/ NewSlug(p) \/ RecordStep(p)
    PROVE  /\ run' = [q \in Procs |-> run'[q]]
           /\ \A q \in Procs : q # p => run'[q] = run[q]
<1>0. run = [q \in Procs |-> run[q]]
  BY DEF TypeOK
<1>1. CASE InitStep(p)
  BY <1>0, <1>1 DEF InitStep, NeedsTerminal, PickExit, Configure, AttemptSucceeds,
     AttemptFails, DelayEnds, DelayCancelled, PickZone, LeaveZone, Accept, Reject, Goto, Return
<1>2. CASE ChoiceStep(p)
  BY <1>0, <1>2 DEF ChoiceStep, LaunchStops, EnsureBundle, SelectVMProvider, BundleProfile,
     EnsureProfile, EnsureRegionSize, ConfirmGate, Save, Goto, Return
<1>3. CASE LockStep(p) \/ EndStep(p)
  BY <1>0, <1>3 DEF LockStep, EndStep, LockSession, LockFails, LaunchEnds, WriteFails,
     Interrupt, Crash, Goto, Return
<1>4. CASE StartStep(p)
  BY <1>0, <1>4 DEF StartStep, StartInit, StartLaunch, Load
<1>5. CASE Write(p) \/ NewSlug(p)
  BY <1>0, <1>5 DEF Write, NewSlug
<1>6. CASE RecordStep(p)
  BY <1>0, <1>6 DEF RecordStep, NewSession, FillSession, Stage, StageFails, Goto, Return
<1> QED
  BY <1>1, <1>2, <1>3, <1>4, <1>5, <1>6 DEF Quiet

\* Types are inductive.
LEMMA TypeStep ==
    ASSUME TypeOK, FitInv, [Next]_vars
    PROVE  TypeOK' /\ FitInv'
<1>1. ASSUME NEW p \in Procs,
             Quiet(p) \/ StartStep(p) \/ Write(p) \/ NewSlug(p) \/ RecordStep(p)
      PROVE  TypeOK' /\ FitInv'
  <2>1. run'[p] \in Runs /\ Fits(run'[p])
    BY <1>1, InitType, ChoiceType, LastType, StartType, WriteType, DrawType, RecordType
       DEF Quiet
  <2>2. \A q \in Procs : run'[q] \in Runs /\ Fits(run'[q])
    BY <1>1, <2>1, Alone DEF TypeOK, FitInv
  <2>3. run' \in [Procs -> Runs]
    BY <1>1, <2>2, Alone
  <2>4. TypeOK'
    BY <1>1, <2>3, SharedType DEF TypeOK
  <2>5. FitInv'
    BY <2>2 DEF FitInv, Fits, Late
  <2> QED
    BY <2>4, <2>5
<1>2. CASE EditPack
  BY <1>2 DEF EditPack, TypeOK, FitInv, Fits, Late, history
<1>3. CASE UNCHANGED vars
  BY <1>3 DEF vars, TypeOK, FitInv, Fits, Late
<1> QED
  BY <1>1, <1>2, <1>3, Kinds

----
(* Credentials and sessions. *)

\* Where the credential of a command's copy comes from: it is the stored one,
\* unless another was stored since the command looked, or it is stored next.
Fresh(p, f) ==
    \/ run[p].cfg[f] = told[f]
    \/ f \in blind[p] \cup lost
    \/ At(p, "write") /\ run[p].asked # None /\ run[p].asked.field = f

CopyInv == \A p \in Procs : Loaded(p) => \A f \in Fields : Fresh(p, f)

\* A credential that was in the file at some time has been stored.
HadAI == told["ai"] # None \/ "ai" \in lost

\* A launch whose environment held no such credential took it from there.
FromFile(m) == m.ai /\ "ai" \notin Env[m.by]

KeyInv ==
    /\ \A p \in Procs : \A f \in Fields : f \in blind[p] => told[f] # None
    /\ \A p \in Procs : (run[p].pc \in Late /\ FromFile(run[p].mine)) => HadAI
    /\ \A s \in Slugs : (meta[s] # None /\ FromFile(meta[s])) => HadAI

\* A launch owns what is recorded under its name, unless another recorded it
\* since the name was drawn.
NameInv ==
    \A p \in Procs : run[p].pc \in Late =>
        LET s == run[p].slug
        IN  run[p].mine.by = p /\ (meta[s] # None => meta[s].by = p \/ s \in blind[p])

Parts == CopyInv /\ StoredStays /\ KeyInv /\ NameInv

IInv == TypeOK /\ FitInv /\ Parts

\* Initially.
LEMMA Initially == Init => IInv
<1> SUFFICES ASSUME Init PROVE IInv
  OBVIOUS
<1>1. PICK tty \in [Procs -> BOOLEAN], started \in SUBSET Procs :
        run = [p \in Procs |-> NoRun(tty[p], TRUE, IF p \in started THEN Budget[p] ELSE 0)]
  BY DEF Init
<1>2. ASSUME NEW p \in Procs
      PROVE  run[p] \in Runs /\ Fits(run[p]) /\ run[p].pc \in {"menu", "gone"}
  <2> DEFINE left == IF p \in started THEN Budget[p] ELSE 0
  <2>1. run[p] = NoRun(tty[p], TRUE, left) /\ tty[p] \in BOOLEAN /\ left \in Nat
    BY <1>1, BoundsAssumption
  <2> HIDE DEF left
  <2>2. Zero \in ConfigFiles
    BY DEF Zero, ConfigFiles
  <2>3. run[p] \in Runs
    BY <2>1, <2>2, Members DEF NoRun, Runs
  <2>4. Fits(run[p]) /\ run[p].pc \in {"menu", "gone"}
    BY <2>1 DEF NoRun, Fits, Late
  <2> QED
    BY <2>3, <2>4
<1>3. run \in [Procs -> Runs]
  BY <1>1, <1>2
<1>4. file \in ConfigFiles
  BY DEF Init, ConfigFiles, Zero
<1>5. told \in [Fields -> Good \cup {None}]
  BY <1>4 DEF Init, ConfigFiles, Fields
<1>6. TypeOK
  BY <1>3, <1>4, <1>5 DEF Init, TypeOK
<1>7. FitInv /\ CopyInv
  BY <1>2 DEF FitInv, CopyInv, Loaded
<1>8. StoredStays
  BY DEF Init, StoredStays
<1>9. KeyInv /\ NameInv
  BY <1>2 DEF Init, KeyInv, NameInv, Late
<1> QED
  BY <1>6, <1>7, <1>8, <1>9 DEF IInv, Parts

\* The steps that show only in the process.
LEMMA QuietStep ==
    ASSUME IInv, NEW p \in Procs, Quiet(p)
    PROVE  Parts'
<1>1. UNCHANGED <<disk, history>>
  BY DEF Quiet, InitStep, ChoiceStep, LockStep, EndStep, NeedsTerminal, PickExit,
     Configure, AttemptSucceeds, AttemptFails, DelayEnds, DelayCancelled, PickZone, LeaveZone,
     LaunchStops, EnsureBundle, SelectVMProvider, BundleProfile, EnsureProfile,
     EnsureRegionSize, ConfirmGate, LockSession, LockFails, LaunchEnds, WriteFails,
     Interrupt, Crash
<1>2. Keeps(run[p], run'[p])
  BY InitType, ChoiceType, LastType DEF IInv, Quiet
<1>3. \A q \in Procs : q # p => run'[q] = run[q]
  BY Alone DEF IInv
<1>4. CopyInv'
  <2> SUFFICES ASSUME NEW q \in Procs, Loaded(q)', NEW f \in Fields
               PROVE  Fresh(q, f)'
    BY DEF CopyInv
  <2>1. CASE q # p
    BY <1>1, <1>3, <2>1 DEF IInv, Parts, CopyInv, Loaded, Fresh, At, history
  <2>2. CASE q = p
    <3>1. Fresh(p, f) /\ run[p].pc # "write"
      BY <1>2, <2>2 DEF IInv, Parts, CopyInv, Loaded, Keeps
    <3>2. \/ run'[p].cfg[f] = run[p].cfg[f]
          \/ run'[p].pc = "write" /\ run'[p].asked # None /\ run'[p].asked.field = f
      BY <1>2, <2>2 DEF Keeps, Loaded
    <3> QED
      BY <1>1, <2>2, <3>1, <3>2 DEF Fresh, At, history
  <2> QED
    BY <2>1, <2>2
<1>5. StoredStays'
  BY <1>1 DEF IInv, Parts, StoredStays, disk, history
<1>6. KeyInv'
  <2>1. \A q \in Procs : (run'[q].pc \in Late /\ FromFile(run'[q].mine)) =>
                            (run[q].pc \in Late /\ FromFile(run[q].mine))
    BY <1>2, <1>3 DEF Keeps
  <2> QED
    BY <1>1, <2>1 DEF IInv, Parts, KeyInv, HadAI, Late, disk, history
<1>8. NameInv'
  <2>1. \A q \in Procs : run'[q].pc \in Late =>
            run[q].pc \in Late /\ run'[q].mine = run[q].mine /\ run'[q].slug = run[q].slug
    BY <1>2, <1>3 DEF Keeps
  <2> QED
    BY <1>1, <2>1 DEF IInv, Parts, NameInv, Late, disk, history
<1> QED
  BY <1>4, <1>5, <1>6, <1>8 DEF Parts

\* A command that starts copies the file.
LEMMA StartStepKeeps ==
    ASSUME IInv, NEW p \in Procs, StartStep(p)
    PROVE  Parts'
<1>0. blind \in [Procs -> SUBSET (Fields \cup Slugs)]
  BY DEF IInv, TypeOK
<1>1. /\ UNCHANGED <<file, meta, told, lost>>
      /\ blind' = [blind EXCEPT ![p] = {}]
  BY DEF StartStep, StartInit, StartLaunch, Load, disk
<1>2. run'[p].cfg = file /\ run'[p].pc \in {"pick", "bundle"}
  BY StartType DEF IInv
<1>3. \A q \in Procs : q # p => run'[q] = run[q] /\ blind'[q] = blind[q]
  BY <1>0, <1>1, Alone DEF IInv
<1>4. CopyInv'
  <2> SUFFICES ASSUME NEW q \in Procs, Loaded(q)', NEW f \in Fields
               PROVE  Fresh(q, f)'
    BY DEF CopyInv
  <2>1. CASE q # p
    BY <1>1, <1>3, <2>1 DEF IInv, Parts, CopyInv, Loaded, Fresh, At
  <2>2. CASE q = p
    BY <1>1, <1>2, <2>2 DEF IInv, Parts, StoredStays, Fresh
  <2> QED
    BY <2>1, <2>2
<1>5. StoredStays'
  BY <1>1 DEF IInv, Parts, StoredStays
<1>6. KeyInv'
  <2>1. \A q \in Procs : blind'[q] \subseteq blind[q]
    BY <1>0, <1>1
  <2>2. \A q \in Procs : run'[q].pc \in Late => run'[q] = run[q]
    BY <1>2, <1>3 DEF Late
  <2> QED
    BY <1>1, <2>1, <2>2 DEF IInv, Parts, KeyInv, HadAI, Late
<1>8. NameInv'
  <2>1. \A q \in Procs : run'[q].pc \in Late => q # p
    BY <1>2 DEF Late
  <2> QED
    BY <1>1, <1>3, <2>1 DEF IInv, Parts, NameInv, Late
<1> QED
  BY <1>4, <1>5, <1>6, <1>8 DEF Parts

\* A write makes the copy the file.  What it overwrites unseen is lost, and
\* what it stores is news to all others.
LEMMA WriteStep ==
    ASSUME IInv, NEW p \in Procs, Write(p)
    PROVE  Parts'
<1> DEFINE r == run[p]
           stored == IF r.asked = None THEN {} ELSE {r.asked.field}
<1>1. /\ file' = r.cfg /\ meta' = meta
      /\ told' = [f \in Fields |-> IF f \in stored THEN r.asked.key ELSE told[f]]
      /\ blind' = [q \in Procs |-> IF q = p THEN blind[q] \ stored ELSE blind[q] \cup stored]
      /\ lost' = (lost \cup (blind[p] \cap Fields)) \ stored
  BY DEF Write
<1>2. /\ r.pc = "write" /\ Loaded(p)
      /\ \A f \in stored : f \in Fields /\ r.asked.key # None /\ r.cfg[f] = r.asked.key
      /\ \A f \in Fields : (r.asked # None /\ r.asked.field = f) => f \in stored
  BY Process, NamesAssumption DEF IInv, Write, At, Fits, Loaded
<1>3. run'[p].cfg = r.cfg /\ run'[p].pc \notin Late
  BY WriteType DEF IInv, Returns, Late
<1>4. \A q \in Procs : q # p => run'[q] = run[q]
  BY Alone DEF IInv
<1> HIDE DEF stored
<1>5. \A f \in Fields : f \notin stored => r.cfg[f] = told[f] \/ f \in blind[p] \cup lost
  BY <1>2 DEF IInv, Parts, CopyInv, Fresh
<1>6. \A f \in Fields : r.cfg[f] = told'[f] \/ f \in lost'
  BY <1>1, <1>2, <1>5
<1>7. CopyInv'
  <2> SUFFICES ASSUME NEW q \in Procs, Loaded(q)', NEW f \in Fields
               PROVE  Fresh(q, f)'
    BY DEF CopyInv
  <2>1. CASE q # p
    <3>1. CASE f \in stored
      BY <1>1, <2>1, <3>1 DEF Fresh
    <3>2. CASE f \notin stored
      <4>1. blind[q] \subseteq blind'[q]
        BY <1>1, <2>1
      <4>2. Fresh(q, f)
        BY <1>4, <2>1 DEF IInv, Parts, CopyInv, Loaded
      <4>3. told'[f] = told[f]
        BY <1>1, <3>2
      <4>4. f \in lost => f \in lost'
        BY <1>1, <3>2
      <4> QED
        BY <1>4, <2>1, <4>1, <4>2, <4>3, <4>4 DEF Fresh, At
    <3> QED
      BY <3>1, <3>2
  <2>2. CASE q = p
    BY <1>3, <1>6, <2>2 DEF Fresh
  <2> QED
    BY <2>1, <2>2
<1>8. StoredStays'
  BY <1>1, <1>6 DEF StoredStays
<1>9. KeyInv'
  <2>1. \A f \in Fields : told[f] # None => told'[f] # None
    BY <1>1, <1>2
  <2>2. \A f \in stored : told'[f] # None
    BY <1>1, <1>2
  <2>3. HadAI => HadAI'
    <3>1. "ai" \in Fields
      BY DEF Fields
    <3> QED
      BY <1>1, <2>1, <2>2, <3>1 DEF HadAI
  <2>4. \A q \in Procs : \A f \in Fields : f \in blind'[q] => told'[f] # None
    BY <1>1, <2>1, <2>2 DEF IInv, Parts, KeyInv
  <2>5. \A q \in Procs : run'[q].pc \in Late => run'[q] = run[q]
    BY <1>3, <1>4
  <2> QED
    BY <1>1, <2>3, <2>4, <2>5 DEF IInv, Parts, KeyInv, Late
<1>11. NameInv'
  <2>1. \A q \in Procs : run'[q].pc \in Late =>
            q # p /\ run'[q] = run[q] /\ blind[q] \subseteq blind'[q]
    BY <1>1, <1>3, <1>4
  <2> QED
    BY <1>1, <2>1 DEF IInv, Parts, NameInv, Late
<1> QED
  BY <1>7, <1>8, <1>9, <1>11 DEF Parts

\* A draw reads the credentials of the copy.
LEMMA DrawStep ==
    ASSUME IInv, NEW p \in Procs, NewSlug(p)
    PROVE  Parts'
<1>0. blind \in [Procs -> SUBSET (Fields \cup Slugs)]
  BY DEF IInv, TypeOK
<1>1. PICK s \in Slugs :
        run'[p].slug = s /\ meta[s] = None /\ blind' = [blind EXCEPT ![p] = @ \ {s}]
  BY DrawType DEF IInv
<1>2. UNCHANGED <<file, meta, told, lost>>
  BY DEF NewSlug, disk
<1>3. /\ run[p].pc = "draw" /\ run'[p].pc = "make"
      /\ run'[p].cfg = run[p].cfg /\ run'[p].mine = Metadata(p)
  BY DrawType DEF IInv
<1>4. \A q \in Procs : q # p => run'[q] = run[q]
  BY Alone DEF IInv
<1>5. \A q \in Procs : \A f \in Fields : f \in blind'[q] <=> f \in blind[q]
  BY <1>0, <1>1, NamesAssumption
<1>6. CopyInv'
  <2> SUFFICES ASSUME NEW q \in Procs, Loaded(q)', NEW f \in Fields
               PROVE  Fresh(q, f)'
    BY DEF CopyInv
  <2>1. Loaded(q) /\ run'[q].cfg = run[q].cfg /\ (run[q].pc = "write" => run'[q] = run[q])
    BY <1>3, <1>4 DEF Loaded
  <2>2. Fresh(q, f)
    BY <2>1 DEF IInv, Parts, CopyInv
  <2> QED
    BY <1>2, <1>5, <2>1, <2>2 DEF Fresh, At
<1>7. StoredStays'
  BY <1>2 DEF IInv, Parts, StoredStays
<1>8. KeyInv'
  <2>1. FromFile(Metadata(p)) => HadAI
    <3>1. FromFile(Metadata(p)) => run[p].cfg["ai"] # None
      BY DEF FromFile, Metadata, ActiveAI, Configured
    <3>2. Fresh(p, "ai") /\ "ai" \in Fields
      BY <1>3 DEF IInv, Parts, CopyInv, Loaded, Fields
    <3>3. run[p].cfg["ai"] = told["ai"] \/ "ai" \in blind[p] \/ "ai" \in lost
      BY <1>3, <3>2 DEF Fresh, At
    <3> QED
      BY <3>1, <3>2, <3>3 DEF IInv, Parts, KeyInv, HadAI
  <2>2. \A q \in Procs : (run'[q].pc \in Late /\ FromFile(run'[q].mine)) => HadAI
    BY <1>3, <1>4, <2>1 DEF IInv, Parts, KeyInv
  <2> QED
    BY <1>2, <1>5, <2>2 DEF IInv, Parts, KeyInv, HadAI, Late
<1>10. NameInv'
  <2>1. Metadata(p).by = p
    BY DEF Metadata
  <2>2. \A q \in Procs : q # p => blind'[q] = blind[q]
    BY <1>0, <1>1
  <2> QED
    BY <1>1, <1>2, <1>3, <1>4, <2>1, <2>2 DEF IInv, Parts, NameInv, Late
<1> QED
  BY <1>6, <1>7, <1>8, <1>10 DEF Parts

\* A launch records what it holds.
LEMMA RecordStepKeeps ==
    ASSUME IInv, NEW p \in Procs, RecordStep(p)
    PROVE  Parts'
<1>1. PICK m \in Metas : m.ai = run[p].mine.ai /\ m.by = run[p].mine.by /\ Record(p, m)
  BY RecordType DEF IInv
<1>2. /\ UNCHANGED <<file, told, lost>>
      /\ meta' = [meta EXCEPT ![run[p].slug] = m]
      /\ blind' = Unseen(p, run[p].slug)
  BY <1>1 DEF Record
<1>3. /\ run[p].pc \in Late /\ run[p].slug \in Slugs
      /\ run'[p].pc \notin {"menu", "gone"} =>
            /\ run'[p].pc \in Late /\ run'[p].cfg = run[p].cfg
            /\ run'[p].slug = run[p].slug /\ run'[p].mine.ai = run[p].mine.ai
            /\ run'[p].mine.by = run[p].mine.by
  BY RecordType DEF IInv
<1>4. \A q \in Procs : q # p => run'[q] = run[q]
  BY Alone DEF IInv
<1>5. \A q \in Procs : \A f \in Fields : f \in blind'[q] <=> f \in blind[q]
  BY <1>2, <1>3, NamesAssumption DEF Unseen
<1>6. CopyInv'
  <2> SUFFICES ASSUME NEW q \in Procs, Loaded(q)', NEW f \in Fields
               PROVE  Fresh(q, f)'
    BY DEF CopyInv
  <2>1. Loaded(q) /\ run'[q].cfg = run[q].cfg /\ (run[q].pc = "write" => run'[q] = run[q])
    BY <1>3, <1>4 DEF Loaded, Late
  <2>2. Fresh(q, f)
    BY <2>1 DEF IInv, Parts, CopyInv
  <2> QED
    BY <1>2, <1>5, <2>1, <2>2 DEF Fresh, At
<1>7. StoredStays'
  BY <1>2 DEF IInv, Parts, StoredStays
<1>8. KeyInv'
  <2>1. \A q \in Procs : (run'[q].pc \in Late /\ FromFile(run'[q].mine)) => HadAI
    BY <1>3, <1>4 DEF IInv, Parts, KeyInv, FromFile, Late
  <2>2. FromFile(m) => HadAI
    BY <1>1, <1>3 DEF IInv, Parts, KeyInv, FromFile
  <2>3. \A s \in Slugs : (meta'[s] # None /\ FromFile(meta'[s])) => HadAI
    BY <1>2, <2>2 DEF IInv, Parts, KeyInv, TypeOK
  <2> QED
    BY <1>2, <1>5, <2>1, <2>3 DEF IInv, Parts, KeyInv, HadAI, Late
<1>10. NameInv'
  <2>1. /\ m.by = p /\ meta'[run[p].slug] = m
        /\ \A s \in Slugs : s # run[p].slug => meta'[s] = meta[s]
    BY <1>1, <1>2, <1>3 DEF IInv, Parts, NameInv, TypeOK
  <2>2. \A q \in Procs : blind[q] \subseteq blind'[q] /\ (q # p => run[p].slug \in blind'[q])
    BY <1>2 DEF Unseen
  <2>3. \A q \in Procs : run'[q].pc \in Late =>
            /\ run[q].pc \in Late /\ run[q].slug \in Slugs
            /\ run'[q].slug = run[q].slug /\ run'[q].mine.by = run[q].mine.by
    BY <1>3, <1>4 DEF IInv, FitInv, Fits, Late
  <2> QED
    BY <2>1, <2>2, <2>3 DEF IInv, Parts, NameInv
<1> QED
  BY <1>6, <1>7, <1>8, <1>10 DEF Parts

\* The invariant holds in every state of every behaviour.
LEMMA Invariant == Spec => []IInv
<1>1. IInv /\ [Next]_vars => IInv'
  <2> SUFFICES ASSUME IInv, [Next]_vars PROVE IInv'
    OBVIOUS
  <2>1. TypeOK' /\ FitInv'
    BY TypeStep DEF IInv
  <2>2. Parts'
    <3>1. CASE EditPack \/ UNCHANGED vars
      BY <3>1 DEF IInv, Parts, EditPack, vars, history, CopyInv, Loaded, Fresh, At, StoredStays,
         KeyInv, HadAI, Late, NameInv
    <3> QED
      BY <3>1, Kinds, QuietStep, StartStepKeeps, WriteStep, DrawStep, RecordStepKeeps
  <2> QED
    BY <2>1, <2>2 DEF IInv
<1> QED
  BY <1>1, Initially, PTL DEF Spec

\* No refused credential is ever part of a configuration, on disk or in a
\* command's copy, and every other variable stays in its type.
THEOREM TypeCorrect == Spec => []TypeOK
<1>1. IInv => TypeOK
  BY DEF IInv, Parts
<1> QED
  BY <1>1, Invariant, PTL

\* config.Write loses a stored credential only when its command had loaded
\* the file before the credential was stored.
THEOREM CredentialsStay == Spec => []StoredStays
<1>1. IInv => StoredStays
  BY DEF IInv, Parts
<1> QED
  BY <1>1, Invariant, PTL

\* A session that was launched with the file's AI credential leaves one in the
\* file to revoke its key with, unless an overlapping command lost it.
THEOREM KeysAreRevocable == Spec => []Revocable
<1>1. IInv => Revocable
  <2>1. "ai" \in Fields /\ file.ai = file["ai"]
    BY DEF Fields
  <2> QED
    BY <2>1 DEF IInv, Parts, StoredStays, KeyInv, FromFile, HadAI, Revocable
<1> QED
  BY <1>1, Invariant, PTL

\* A launch records over another's session only when it drew the name before
\* the other had made the directory.
THEOREM NamesComeFresh == Spec => NamesAreFresh
<1> DEFINE Owned == \A s \in Slugs :
        (meta[s] # None /\ meta'[s] # meta[s]) =>
            (meta'[s].by = meta[s].by \/ s \in blind[meta'[s].by])
<1>1. IInv /\ [Next]_vars => [Owned]_vars
  <2> SUFFICES ASSUME IInv, [Next]_vars, NEW s \in Slugs, meta[s] # None, meta'[s] # meta[s]
               PROVE  meta'[s].by = meta[s].by \/ s \in blind[meta'[s].by]
    OBVIOUS
  <2>1. PICK p \in Procs : RecordStep(p)
    <3>1. ASSUME NEW q \in Procs, Quiet(q) \/ StartStep(q) \/ Write(q) \/ NewSlug(q)
          PROVE  meta' = meta
      <4>1. CASE Quiet(q)
        BY <4>1 DEF Quiet, InitStep, ChoiceStep, LockStep, EndStep, NeedsTerminal, PickExit,
           Configure, AttemptSucceeds, AttemptFails, DelayEnds, DelayCancelled, PickZone,
           LeaveZone, LaunchStops, EnsureBundle, SelectVMProvider, BundleProfile,
           EnsureProfile, EnsureRegionSize, ConfirmGate, LockSession, LockFails, LaunchEnds,
           WriteFails, Interrupt, Crash, disk
      <4>2. CASE StartStep(q) \/ Write(q) \/ NewSlug(q)
        BY <4>2 DEF StartStep, StartInit, StartLaunch, Load, Write, NewSlug, disk
      <4> QED
        BY <3>1, <4>1, <4>2
    <3>2. ~EditPack /\ ~UNCHANGED vars
      BY DEF EditPack, vars
    <3> QED
      BY <3>1, <3>2, Kinds
  <2>2. PICK m \in Metas : m.by = run[p].mine.by /\ Record(p, m)
    BY <2>1, RecordType DEF IInv
  <2>3. run[p].pc \in Late /\ run[p].slug \in Slugs
    BY <2>1, RecordType DEF IInv
  <2>4. s = run[p].slug /\ meta'[s] = m
    BY <2>2, <2>3 DEF Record, IInv, TypeOK
  <2>5. run[p].mine.by = p /\ (meta[s].by = p \/ s \in blind[p])
    BY <2>3, <2>4 DEF IInv, Parts, NameInv
  <2> QED
    BY <2>2, <2>4, <2>5
<1> QED
  BY <1>1, Invariant, PTL DEF Spec, NamesAreFresh

----
(* Packs. *)

\* A launch works with a pack that loaded.
PackInv == \A p \in Procs : run[p].pack # None => Loads(run[p].pack)

\* Only EnsureBundle takes up a pack, and only one that loads.
LEMMA PackStep ==
    ASSUME IInv, PackInv, NEW p \in Procs,
           Quiet(p) \/ StartStep(p) \/ Write(p) \/ NewSlug(p) \/ RecordStep(p)
    PROVE  run'[p].pack # None => Loads(run'[p].pack)
<1> DEFINE r == run[p]
           s == run'[p]
<1>0. run \in [Procs -> Runs] /\ r \in Runs /\ (r.pack # None => Loads(r.pack))
  BY DEF IInv, TypeOK, PackInv
<1>1. \A tty, ctx, left : NoRun(tty, ctx, left).pack = None
  BY DEF NoRun
<1>2. ASSUME Return(p)
      PROVE  s.pack = None
  BY <1>0, <1>1, <1>2 DEF Return, Ended
<1>3. ASSUME NEW pc, Goto(p, pc)
      PROVE  s.pack = r.pack
  BY <1>0, <1>3 DEF Goto, Runs
<1>4. ASSUME Reject(p) \/ Accept(p)
      PROVE  s.pack = r.pack
  BY <1>0, <1>4 DEF Reject, Accept, Runs
<1>5. ASSUME InitStep(p)
      PROVE  s.pack \in {None, r.pack}
  <2>1. CASE NeedsTerminal(p)
    BY <1>0, <1>1, <2>1 DEF NeedsTerminal
  <2>2. CASE PickExit(p)
    BY <1>2, <2>2 DEF PickExit
  <2>3. ASSUME NEW f \in Fields \cup {"local"}, NEW key \in Good \cup {Bad}, Configure(p, f, key)
        PROVE  s.pack = r.pack
    BY <1>0, <2>3 DEF Configure, Runs
  <2>4. CASE AttemptSucceeds(p)
    BY <1>3, <1>4, <2>4 DEF AttemptSucceeds
  <2>5. CASE AttemptFails(p)
    BY <1>3, <1>4, <2>5 DEF AttemptFails
  <2>6. CASE DelayEnds(p)
    BY <1>0, <2>6 DEF DelayEnds, Runs
  <2>7. CASE DelayCancelled(p)
    BY <1>4, <2>7 DEF DelayCancelled
  <2>8. CASE PickZone(p)
    BY <1>4, <2>8 DEF PickZone
  <2>9. CASE LeaveZone(p)
    BY <1>0, <2>9 DEF LeaveZone, Runs
  <2> QED
    BY <1>5, <2>1, <2>2, <2>3, <2>4, <2>5, <2>6, <2>7, <2>8, <2>9 DEF InitStep
<1>6. ASSUME NEW cfg, NEW after, Save(p, cfg, after)
      PROVE  s.pack = r.pack
  BY <1>0, <1>6 DEF Save, Runs
<1>7. ASSUME ChoiceStep(p)
      PROVE  s.pack \in {None, r.pack} \/ Loads(s.pack)
  <2>1. CASE LaunchStops(p)
    BY <1>2, <2>1 DEF LaunchStops
  <2>2. CASE EnsureBundle(p)
    <3>1. PICK pack \in {None, tree} : run' = [run EXCEPT ![p].pc = "provider", ![p].pack = pack]
      BY <2>2 DEF EnsureBundle
    <3>2. s.pack = pack
      BY <1>0, <3>1 DEF Runs
    <3> QED
      BY <2>2, <3>2 DEF EnsureBundle
  <2>3. CASE SelectVMProvider(p)
    BY <1>6, <2>3 DEF SelectVMProvider
  <2>4. CASE BundleProfile(p)
    BY <1>0, <2>4 DEF BundleProfile, Runs
  <2>5. CASE EnsureProfile(p)
    BY <1>0, <2>5 DEF EnsureProfile, Runs
  <2>6. CASE EnsureRegionSize(p)
    BY <1>3, <1>6, <2>6 DEF EnsureRegionSize
  <2>7. CASE ConfirmGate(p)
    BY <1>3, <2>7 DEF ConfirmGate
  <2> QED
    BY <1>7, <2>1, <2>2, <2>3, <2>4, <2>5, <2>6, <2>7 DEF ChoiceStep
<1>8. ASSUME LockStep(p) \/ EndStep(p)
      PROVE  s.pack \in {None, r.pack}
  <2>1. CASE LockSession(p) \/ LockFails(p) \/ LaunchEnds(p) \/ WriteFails(p)
    BY <1>2, <1>3, <2>1 DEF LockSession, LockFails, LaunchEnds, WriteFails
  <2>2. CASE Interrupt(p)
    BY <1>0, <2>2 DEF Interrupt, Runs
  <2>3. CASE Crash(p)
    BY <1>0, <1>1, <2>3 DEF Crash
  <2> QED
    BY <1>8, <2>1, <2>2, <2>3 DEF LockStep, EndStep
<1>9. ASSUME StartStep(p) \/ Write(p) \/ NewSlug(p)
      PROVE  s.pack = r.pack
  <2>1. ASSUME NEW pc, NEW flags, NEW cost, Load(p, pc, flags, cost)
        PROVE  s.pack = r.pack
    BY <1>0, <2>1 DEF Load, Runs
  <2>2. CASE StartStep(p)
    BY <2>1, <2>2 DEF StartStep, StartInit, StartLaunch
  <2>3. CASE Write(p)
    <3>1. s = [r EXCEPT !.pc = r.after, !.asked = None, !.after = None]
      BY <1>0, <2>3 DEF Write
    <3> QED
      BY <1>0, <3>1 DEF Runs
  <2>4. CASE NewSlug(p)
    <3>1. PICK n \in Slugs :
            run' = [run EXCEPT ![p].pc = "make", ![p].slug = n, ![p].mine = Metadata(p)]
      BY <2>4 DEF NewSlug
    <3> DEFINE m == Metadata(p)
    <3> HIDE DEF m
    <3>2. s = [r EXCEPT !.pc = "make", !.slug = n, !.mine = m]
      BY <1>0, <3>1 DEF m
    <3> QED
      BY <1>0, <3>2 DEF Runs
  <2> QED
    BY <1>9, <2>2, <2>3, <2>4
<1>10. ASSUME RecordStep(p)
       PROVE  s.pack \in {None, r.pack}
  <2>1. CASE NewSession(p) \/ Stage(p) \/ StageFails(p)
    BY <1>2, <1>3, <2>1 DEF NewSession, Stage, StageFails
  <2>2. CASE FillSession(p)
    BY <1>0, <2>2 DEF FillSession, Runs
  <2> QED
    BY <1>10, <2>1, <2>2 DEF RecordStep
<1> QED
  BY <1>0, <1>5, <1>7, <1>8, <1>9, <1>10 DEF Quiet

\* Whatever a launch works with had loaded.
LEMMA PacksLoaded == Spec => []PackInv
<1>1. Init => PackInv
  BY DEF Init, PackInv, NoRun
<1>2. IInv /\ PackInv /\ [Next]_vars => PackInv'
  <2> SUFFICES ASSUME IInv, PackInv, [Next]_vars PROVE PackInv'
    OBVIOUS
  <2>1. CASE EditPack \/ UNCHANGED vars
    BY <2>1 DEF PackInv, EditPack, vars
  <2>2. ASSUME NEW p \in Procs,
               Quiet(p) \/ StartStep(p) \/ Write(p) \/ NewSlug(p) \/ RecordStep(p)
        PROVE  PackInv'
    <3>1. \A q \in Procs : q # p => run'[q] = run[q]
      BY <2>2, Alone DEF IInv
    <3>2. run'[p].pack # None => Loads(run'[p].pack)
      BY <2>2, PackStep
    <3> QED
      BY <3>1, <3>2 DEF PackInv
  <2> QED
    BY <2>1, <2>2, Kinds
<1> QED
  BY <1>1, <1>2, Invariant, PTL DEF Spec

\* The links of a pack that loaded lead to what it holds.
LEMMA LinksStayInside ==
    ASSUME NEW t \in Trees, Loads(t), t.from # "linked", NEW l \in t.links
    PROVE  l.to \notin {"outside", "nowhere"}
<1>1. t.from \in {"embedded", "dir", "linked"} /\ t.has \subseteq Areas
  BY TreesAssumption DEF Packs
<1>2. t.from = "dir"
  BY <1>1, TreesAssumption
<1>3. l.to \in Areas
  BY <1>1, <1>2 DEF Loads, NoEscapingSymlinks
<1> QED
  BY <1>3 DEF Areas

\* A file from outside is staged through a link only.
LEMMA WalkedOnly ==
    ASSUME NEW t, NEW b, NEW item \in StagePayload(t, b), item.from = "outside"
    PROVE  \E l \in t.links : l.to = "outside"
<1>1. "outside" \notin Walked(b)
  BY DEF Walked
<1>2. CASE item \in Sources(t, b)
  BY <1>1, <1>2 DEF Sources, RootLinks
<1>3. CASE \E m \in Met(t, b) : item = [into |-> m[1].into, from |-> m[2].to]
  BY <1>3 DEF Met
<1> QED
  BY <1>2, <1>3 DEF StagePayload

\* Content reaches a session from a launch that is staging its pack there.
LEMMA PayloadStep ==
    ASSUME IInv, [Next]_vars, NEW s \in Slugs, NEW item \in payload'[s] \ payload[s]
    PROVE  \E p \in Procs :
              /\ run[p].pack # None /\ run[p].slug = s
              /\ item \in StagePayload(tree, Bundle(run[p].pack))
<1>0. payload \in [Slugs -> SUBSET Payloads] /\ payload' # payload
  BY DEF IInv, TypeOK
<1>1. PICK p \in Procs : RecordStep(p)
  <2>1. ASSUME NEW q \in Procs, Quiet(q) \/ StartStep(q) \/ Write(q) \/ NewSlug(q)
        PROVE  payload' = payload
    <3>1. CASE Quiet(q)
      BY <3>1 DEF Quiet, InitStep, ChoiceStep, LockStep, EndStep, NeedsTerminal, PickExit,
         Configure, AttemptSucceeds, AttemptFails, DelayEnds, DelayCancelled, PickZone,
         LeaveZone, LaunchStops, EnsureBundle, SelectVMProvider, BundleProfile,
         EnsureProfile, EnsureRegionSize, ConfirmGate, LockSession, LockFails, LaunchEnds,
         WriteFails, Interrupt, Crash, disk
    <3>2. CASE StartStep(q) \/ Write(q) \/ NewSlug(q)
      BY <3>2 DEF StartStep, StartInit, StartLaunch, Load, Write, NewSlug, disk
    <3> QED
      BY <2>1, <3>1, <3>2
  <2>2. ~EditPack /\ ~UNCHANGED vars
    BY <1>0 DEF EditPack, vars
  <2> QED
    BY <1>0, <2>1, <2>2, Kinds
<1>2. run[p].pack # None
  BY <1>0, <1>1 DEF RecordStep, NewSession, FillSession, Stage, StageFails
<1> DEFINE content == StagePayload(tree, Bundle(run[p].pack))
<1>3. \E part \in SUBSET content : payload' = [payload EXCEPT ![run[p].slug] = @ \cup part]
  <2>1. CASE Stage(p)
    BY <1>2, <2>1 DEF Stage
  <2>2. CASE StageFails(p)
    BY <2>2 DEF StageFails
  <2> QED
    BY <1>0, <1>1, <2>1, <2>2 DEF RecordStep, NewSession, FillSession
<1> HIDE DEF content
<1>4. s = run[p].slug /\ item \in content
  BY <1>0, <1>3
<1> QED
  BY <1>2, <1>4 DEF content

\* What pack.Load accepts can be staged, however late, when nobody has touched
\* it since and it holds no link to a directory below the ones copied.
THEOREM AcceptedPacksStage == Spec => []AcceptedStages
<1>1. IInv /\ PackInv => AcceptedStages
  <2> SUFFICES ASSUME IInv, PackInv, NEW p \in Procs, run[p].pack = tree,
                      tree.from # "linked", \A l \in tree.links : l.kind # "dir"
               PROVE  Stageable(tree, Bundle(tree))
    BY DEF AcceptedStages
  <2>1. tree \in Trees /\ tree # None
    BY NamesAssumption DEF IInv, TypeOK
  <2>2. Loads(tree)
    BY <2>1 DEF PackInv
  <2>3. \A m \in Met(tree, Bundle(tree)) : m[2].kind # "dir" /\ m[2].to # "nowhere"
    BY <2>1, <2>2, LinksStayInside DEF Met
  <2> QED
    BY <2>2, <2>3 DEF Stageable, Bundle, Loads
<1> QED
  BY <1>1, Invariant, PacksLoaded, PTL

\* StagePayload gives the candidate a file from outside only when the pack
\* changed after pack.Load or its own path is a link.
THEOREM OnlyCheckedContent == Spec => ContentIsChecked
<1> DEFINE Checked == \A s \in Slugs : \A item \in payload'[s] \ payload[s] :
        item.from = "outside" =>
            \E p \in Procs :
                /\ run[p].slug = s
                /\ tree # run[p].pack \/ tree.from = "linked"
<1>1. IInv /\ PackInv /\ [Next]_vars => [Checked]_vars
  <2> SUFFICES ASSUME IInv, PackInv, [Next]_vars, NEW s \in Slugs,
                      NEW item \in payload'[s] \ payload[s], item.from = "outside"
               PROVE  \E p \in Procs :
                        /\ run[p].slug = s
                        /\ tree # run[p].pack \/ tree.from = "linked"
    OBVIOUS
  <2>1. PICK p \in Procs :
          /\ run[p].pack # None /\ run[p].slug = s
          /\ item \in StagePayload(tree, Bundle(run[p].pack))
    BY PayloadStep
  <2>2. \E l \in tree.links : l.to = "outside"
    BY <2>1, WalkedOnly
  <2>3. ASSUME tree = run[p].pack, tree.from # "linked"
        PROVE  FALSE
    <3>1. tree \in Trees /\ Loads(tree)
      BY <2>1, <2>3 DEF PackInv, IInv, TypeOK
    <3> QED
      BY <2>2, <2>3, <3>1, LinksStayInside
  <2> QED
    BY <2>1, <2>3
<1> QED
  BY <1>1, Invariant, PacksLoaded, PTL DEF Spec, ContentIsChecked
====
