---- MODULE PackContent ----
(***************************************************************************)
(* Content packs: what a launch accepts as a pack and what it copies from  *)
(* one for the candidate.  A pack is read twice, once to check it and once *)
(* to copy its content, so both readings are operators over the tree as it *)
(* is at that moment.                                                      *)
(*                                                                         *)
(* A tree holds one bundle with one scenario.  The files of the bundle are *)
(* grouped by what the program does with them, and a symbolic link is      *)
(* known by the group it lies in and the group its target belongs to.      *)
(***************************************************************************)
EXTENDS Integers

\* task/ and solution/ of the scenario, lab/ and its setup.sh, the
\* cluster.yaml and the manifests/ of kind/.
Areas == {"task", "solution", "lab", "setup", "cluster", "manifests"}

\* A link to a file, one to a directory, or one in the place of task/, lab/ or
\* kind/ itself, the last with cluster.yaml as its group.
Links ==
    [at : Areas, to : Areas \cup {"outside", "nowhere"}, kind : {"file", "dir"}]
    \cup [at : {"task", "lab", "cluster"}, to : Areas \cup {"outside"}, kind : {"root"}]

\* from: embedded in the binary, a directory, or a link to a directory.
\* valid: the manifests and directory names satisfy their schemas.
\* has: what fs.Stat finds, through links too.
Packs ==
    [from : {"embedded", "dir", "linked"}, valid : BOOLEAN,
     has : SUBSET Areas, links : SUBSET Links]

\* Mutant of NoEscapingSymlinks: every directory is trusted.
TrustLinks(t) == TRUE

\* filepath.Walk enters no link, the root included: it finds nothing to
\* reject in a pack whose own path is a link.
NoEscapingSymlinks(t) ==
    t.from = "dir" => \A l \in t.links : l.to \in t.has

KindPairing(t) == "manifests" \in t.has => "cluster" \in t.has

\* Mutant of Loads: task/ is not required.
LoadsAnyway(t) == NoEscapingSymlinks(t) /\ t.valid /\ KindPairing(t)

Loads(t) ==
    /\ NoEscapingSymlinks(t)
    /\ t.valid
    /\ "task" \in t.has
    /\ KindPairing(t)

Bundle(t) ==
    [lab   |-> "lab" \in t.has,
     setup |-> "setup" \in t.has,
     kind  |-> "cluster" \in t.has]

----------------------------------------------------------------------------

Dest(area) ==
    CASE area \in {"task", "solution"}     -> "workspace"
      [] area \in {"lab", "setup"}         -> "lab"
      [] area \in {"cluster", "manifests"} -> "kind"

\* The groups that StagePayload walks for bundle b.
Walked(b) ==
    {"task"} \cup (IF b.lab THEN {"lab", "setup"} ELSE {})
             \cup (IF b.kind THEN {"cluster", "manifests"} ELSE {})

RootLinks(t, b) == {l \in t.links : l.kind = "root" /\ l.at \in Walked(b)}

\* What is copied, and where to.  WalkDir follows its root, so that in the place
\* of a directory that is a link comes the one it points to.
Sources(t, b) ==
    {[into |-> Dest(a), from |-> a] : a \in
        {x \in Walked(b) \cap t.has : \A l \in RootLinks(t, b) : Dest(l.at) # Dest(x)}}
    \cup {[into |-> Dest(l.at), from |-> l.to] : l \in RootLinks(t, b)}

\* The links a walk meets, each with what it is copied with.
Met(t, b) ==
    {m \in Sources(t, b) \X t.links : m[2].kind # "root" /\ m[2].at = m[1].from}

\* A walk fails on a directory that is gone and on a link that cannot be
\* read as a file.
Stageable(t, b) ==
    /\ "task" \in t.has
    /\ b.lab => "lab" \in t.has
    /\ b.kind => t.has \cap {"cluster", "manifests"} # {}
    /\ \A m \in Met(t, b) : m[2].kind # "dir" /\ m[2].to # "nowhere"

\* Reading a link yields the file it points to.
StagePayload(t, b) ==
    Sources(t, b) \cup {[into |-> m[1].into, from |-> m[2].to] : m \in Met(t, b)}

Payloads == [into : {"workspace", "lab", "kind"}, from : Areas \cup {"outside", "nowhere"}]
====
