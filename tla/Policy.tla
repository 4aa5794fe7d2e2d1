-------------------------------- MODULE Policy --------------------------------
(* How policy files are read: .arcignore with its #include lines, and the user's *)
(* and the repository's config.toml with theirs; what a rule decides in the end, *)
(* and which files the walk over a working directory then collects.  A file is a *)
(* sequence of lines, a line is [kind, of]: "include", "exists" (if the target   *)
(* does), "gitdir" (if the prefix matches) with a file; "ignore", "allow" with a  *)
(* path as its pattern; "key" with a setting.                                   *)
EXTENDS Naturals, Sequences, SequencesExt, FiniteSets

CONSTANTS
  PolicyFiles,     \* the files that exist
  OutsideFiles,    \* those of them that are not in the workspace
  MaxDepth,        \* IncludeState::new's (32)
  Ignores,         \* what the ignore files hold: file -> lines
  Configs,         \* what the config files hold
  ParentDir        \* path -> the directory it is in, itself at the top

ASSUME PolicyAssumption == MaxDepth \in Nat /\ OutsideFiles \subseteq PolicyFiles

VARIABLE policy  \* one load: [of, files, roots, stack, visited, lattice, result]

PolicyPaths == DOMAIN ParentDir
Rules == {"ignore", "allow"}

NoLoad == [of |-> "nothing", files |-> <<>>, roots |-> <<>>, stack |-> <<>>, visited |-> {}, lattice |-> <<>>,
           result |-> "none"]

PolicyInit == policy = NoLoad

\* .arcignore is loaded; or the user's config and then the repository's, with one
\* `visited' for both.
Load ==
  /\ policy = NoLoad
  /\ \E c \in {[of |-> "ignore", files |-> f, roots |-> <<".arcignore">>] : f \in Ignores}
           \cup {[of |-> "config", files |-> f, roots |-> <<"user", "repo">>] : f \in Configs} :
       policy' = [NoLoad EXCEPT !.of = c.of, !.files = c.files, !.roots = c.roots, !.result = "loading"]

Frame == Last(policy.stack)
CurrentLine == policy.files[Frame.file][Frame.at]
PastLine == [policy.stack EXCEPT ![Len(policy.stack)].at = @ + 1]

Failed(why) == policy' = [policy EXCEPT !.result = why, !.stack = <<>>]

\* Mutant of Seen: a file that is included once more is read once more.
SeenNever(f) == FALSE

Seen(f) == f \in policy.visited

\* IncludeState::enter, over the stack as it is once the line is past.
Enter(f, depth, stack) ==
  IF f \notin PolicyFiles THEN Failed("read")
  ELSE IF depth > MaxDepth THEN Failed("depth")
  ELSE IF \E i \in DOMAIN stack : stack[i].file = f THEN Failed("cycle")
  ELSE IF Seen(f) THEN policy' = [policy EXCEPT !.stack = stack]
  ELSE policy' = [policy EXCEPT !.visited = @ \cup {f},
                                !.stack = Append(stack, [file |-> f, at |-> 1, depth |-> depth])]

\* The next file to start from; a candidate that is missing is passed over.
Start ==
  /\ policy.result = "loading" /\ policy.stack = <<>>
  /\ IF policy.roots = <<>> THEN policy' = [policy EXCEPT !.result = "ok"]
     ELSE LET f == Head(policy.roots) IN
       policy' = IF f \notin PolicyFiles \/ Seen(f) THEN [policy EXCEPT !.roots = Tail(@)]
                 ELSE [policy EXCEPT !.roots = Tail(@), !.visited = @ \cup {f},
                                     !.stack = <<[file |-> f, at |-> 1, depth |-> 0]>>]

AtLine == policy.stack # <<>> /\ Frame.at <= Len(policy.files[Frame.file])

\* resolve_include, and then the included file is read before the next line.
Include ==
  /\ AtLine /\ CurrentLine.kind \in {"include", "gitdir", "exists"}
  /\ LET f == CurrentLine.of IN
     IF CurrentLine.kind = "exists" /\ f \notin PolicyFiles
     THEN policy' = [policy EXCEPT !.stack = PastLine]
     ELSE IF f \in OutsideFiles THEN Failed("outside")
     ELSE Enter(f, Frame.depth + 1, PastLine)

RuleAt(i) ==
  LET l == policy.files[Frame.file][i]
  IN  [key |-> IF l.kind \in Rules \cup {"key"} THEN l.of ELSE l.kind, value |-> l.kind, origin |-> Frame.file, line |-> i, depth |-> Frame.depth]

\* A rule of an ignore file goes into the lattice where it stands.
Rule ==
  /\ AtLine /\ CurrentLine.kind \in Rules \cup {"key"}
  /\ policy' = [policy EXCEPT !.stack = PastLine,
                              !.lattice = IF CurrentLine.kind = "key" THEN @ ELSE Append(@, RuleAt(Frame.at))]

\* A config file that does not parse as TOML counts as an empty one: a key is there
\* twice (and `include' is one), or a line is no TOML at all (`includeIf.gitdir:').
Toml(lines) ==
  /\ \A i \in DOMAIN lines : lines[i].kind # "gitdir"
  /\ \A i, j \in DOMAIN lines :
       i # j /\ lines[i].kind = lines[j].kind => lines[i].kind = "key" /\ lines[i].of # lines[j].of

\* The end of a file, where the settings of a config file go into the lattice.
Leave ==
  /\ policy.stack # <<>> /\ ~AtLine
  /\ LET lines == policy.files[Frame.file]
     IN policy' = [policy EXCEPT
          !.stack = Front(@),
          !.lattice = IF Toml(lines) /\ policy.of = "config" THEN @ \o [i \in DOMAIN lines |-> RuleAt(i)] ELSE @]

PolicyNext == Load \/ Start \/ Include \/ Rule \/ Leave

-----------------------------------------------------------------------------
(* What is made of a load.                                                   *)

\* The parents of a path match a rule as well as the path itself does.
RECURSIVE AndParents(_)
AndParents(p) == IF ParentDir[p] = p THEN {p} ELSE {p} \cup AndParents(ParentDir[p])

\* PolicyLattice::resolve_with: the last atom that matches.
Winner(matches) ==
  LET n == {i \in DOMAIN policy.lattice : policy.lattice[i].key \in matches}
  IN  IF n = {} THEN [value |-> "unset", origin |-> "none", line |-> 0]
      ELSE policy.lattice[CHOOSE i \in n : \A j \in n : j <= i]

\* load_arcignore: a load that failed leaves nothing ignored.
Ignored(p) == policy.result = "ok" /\ Winner(AndParents(p)).value = "ignore"

\* collect_all_files: the walk does not go into a directory that is ignored.
Collected(p) == \A q \in AndParents(p) : ~Ignored(q)

-----------------------------------------------------------------------------
(* The includes of the files themselves.                                     *)

Taken(l) == l.kind \in {"include", "gitdir"} \/ (l.kind = "exists" /\ l.of \in PolicyFiles)
Includes(f) ==
  IF f \in DOMAIN policy.files
  THEN {l.of : l \in {l \in ToSet(policy.files[f]) : Taken(l)}} ELSE {}
EveryFile == PolicyFiles \cup UNION {Includes(f) : f \in PolicyFiles}
AllRoots == (IF policy.of = "ignore" THEN {".arcignore"} ELSE {"user", "repo"}) \cap PolicyFiles

\* What is included from f, at one remove or more.
From(f) ==
  LET more[n \in Nat] == LET s == IF n = 0 THEN Includes(f) ELSE more[n - 1]
                         IN  s \cup UNION {Includes(g) : g \in s}
  IN  more[Cardinality(EveryFile)]

\* A load succeeds only over files that all exist, in the workspace, without a
\* cycle; and it fails for a reason that is there.
ResultIsTrue(Reaches) ==
  LET Reached == AllRoots \cup UNION {Reaches[r] : r \in AllRoots} IN
  CASE policy.result = "ok" ->
         policy.visited = Reached /\ \A f \in Reached : f \in PolicyFiles /\ f \notin Reaches[f]
    [] policy.result = "cycle" -> \E f \in Reached : f \in Reaches[f]
    [] policy.result = "read" -> \E f \in Reached : f \notin PolicyFiles
    [] policy.result = "outside" -> Reached \cap OutsideFiles # {}
    [] policy.result = "depth" -> Cardinality(Reached) > MaxDepth

RulesInForce == ToSet(policy.lattice)
Place(a) == CHOOSE i \in DOMAIN policy.lattice : policy.lattice[i] = a

\* Once loaded, a rule is in force once however often its file is included; what a
\* file says after an include line prevails over all that the line brought in, what
\* a config file says itself over all it includes, and the repository's over the
\* user's unless the user's includes it; and no file is collected that the rules
\* taken together ignore.
PolicyPrevails ==
  policy.result \notin {"none", "loading"} =>
  LET Reaches == [f \in EveryFile |-> From(f)] IN
  /\ ResultIsTrue(Reaches)
  /\ Len(policy.lattice) = Cardinality({<<a.origin, a.line>> : a \in RulesInForce})
  /\ policy.result = "ok" =>
       /\ \A a, b \in RulesInForce :
            \/ /\ policy.of = "ignore"
               /\ \E i \in 1..(a.line - 1) :
                    LET l == policy.files[a.origin][i]
                    IN  Taken(l) /\ b.origin \in {l.of} \cup Reaches[l.of]
            \/ policy.of = "config" /\ b.origin \in Reaches[a.origin]
            \/ a.origin = "repo" /\ b.origin # "repo" /\ "repo" \notin Reaches["user"]
            => Place(b) < Place(a)
       /\ \A p \in PolicyPaths : Collected(p) => Winner(AndParents(p)).value # "ignore"
===============================================================================
