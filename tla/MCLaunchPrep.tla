---- MODULE MCLaunchPrep ----
(* LaunchPrep for TLC: command lines, packs and the scenes of the run. *)
EXTENDS LaunchPrep, TLC

CONSTANTS p1, p2, k1, bad, s1, s2

MCProcs == {p1, p2}
MCGood == {k1}
MCBudget == [p \in MCProcs |-> IF p = p1 THEN 3 ELSE 2]
MCEnv == [p \in MCProcs |-> IF p = p1 THEN {} ELSE {"ai"}]
MCSlugs == {s1, s2}
Symmetry == Permutations(MCSlugs)

Line(provider, profile, bundle, sized) ==
    [provider |-> provider, profile |-> profile, bundle |-> bundle,
     sized |-> sized, noAI |-> FALSE, noDNS |-> FALSE]

MCFlags ==
    {Line(None, None, FALSE, FALSE), Line("cloud", "ai", FALSE, TRUE),
     [Line("local", None, TRUE, TRUE) EXCEPT !.noAI = TRUE, !.noDNS = TRUE]}

All == {"task", "solution", "lab", "setup", "cluster", "manifests"}

Pack(from, has, links) == [from |-> from, valid |-> TRUE, has |-> has, links |-> links]
Link(at, to, kind) == [at |-> at, to |-> to, kind |-> kind]

Embedded == Pack("embedded", All, {})

\* A pack as its author goes on changing it.
Drafts ==
    {Pack("dir", All, {}),
     Pack("dir", {"task", "solution"}, {}),
     Pack("dir", {"solution", "lab"}, {}),
     Pack("dir", {"task", "manifests"}, {}),
     [Pack("dir", {"task"}, {}) EXCEPT !.valid = FALSE],
     Pack("dir", All, {Link("task", "solution", "file")}),
     Pack("dir", All, {Link("lab", "task", "dir")}),
     Pack("dir", All, {Link("lab", "outside", "file")}),
     Pack("dir", All, {Link("task", "nowhere", "file")}),
     Pack("dir", {"task", "lab"}, {Link("lab", "task", "root")}),
     Pack("dir", {"task", "lab"}, {Link("lab", "outside", "root")})}

MCTrees ==
    {Embedded} \cup Drafts \cup
    {Pack("linked", All, {}), Pack("linked", All, {Link("lab", "outside", "file")})}

\* A launch of a pack whose task/ holds a link to its solution.
OneProc == {p1}
OneBudget == [p \in OneProc |-> 2]
OneEnv == [p \in OneProc |-> {}]
LinkedSolution == {Pack("dir", All, {Link("task", "solution", "file")})}

\* Two processes over the embedded pack, or one over a pack on disk.
MCInit ==
    /\ Init
    /\ run[p1].tty /\ run[p1].left > 0
    /\ tree # Embedded <=> run[p2].left = 0

MCSpec == MCInit /\ [][Next]_vars
====
