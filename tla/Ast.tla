-------------------------------- MODULE Ast --------------------------------
(* One source file and the items a view keeps of it.   A file is parsed into *)
(* top-level items keyed by path; a snap records the difference between     *)
(* what the tree unparses to and the file; a checkout unparses the tree.    *)
(* The parser is taken to find in an unparsed file the items it was made of. *)
EXTENDS Algebra

CONSTANTS
  Bodies,       \* what an item can contain
  Names,        \* kind -> the names an item of it has, or {} if it has none
  StartFiles,   \* the files there may be first
  MaxEdited     \* bound on the number of items of an edited file

VARIABLES
  source,       \* the file in the working directory: items [kind, name, body]
  tree          \* what the view's history replays to: {item map}, or {} if it fails

astVars == <<source, tree>>

Anonymous == "anonymous"

-----------------------------------------------------------------------------
Digits == <<"0", "1", "2", "3", "4", "5", "6", "7", "8", "9", "10">>

\* An item is named after its name, or by the place among those of its kind.
node_segment(f, i) ==
  <<f[i].kind, IF f[i].name # Anonymous THEN f[i].name
               ELSE Digits[Cardinality({j \in 1..i : f[j].kind = f[i].kind})]>>

path(f, i) == <<"file", "a", node_segment(f, i)>>

\* A map: of two items at one path the later is kept.
collect_top_level_items(f) ==
  [p \in {path(f, i) : i \in DOMAIN f} |->
     f[CHOOSE i \in DOMAIN f : path(f, i) = p /\ \A j \in (i + 1)..Len(f) : path(f, j) # p].body]

ItemAt(p, body) ==
  [kind |-> p[3][1], name |-> IF Names[p[3][1]] = {} THEN Anonymous ELSE p[3][2], body |-> body]


\* The items in the order of their paths.  The priorities of attributes and
\* imports never apply: they look at the segment of the file's root.
unparse(m) ==
  LET at == SelectSeq(Items, LAMBDA p : p \in DOMAIN m)
  IN [i \in DOMAIN at |-> ItemAt(at[i], m[at[i]])]

\* compute_working_directory_delta, for this file.
delta(m) ==
  LET old == collect_top_level_items(unparse(m))
      new == collect_top_level_items(source)
  IN diff_atoms(old, new)

ItemsOf(s) == [p \in DOMAIN s |-> s[p][2]]

-----------------------------------------------------------------------------
AstInit == source \in StartFiles /\ tree = {<<>>}

Edited(k) == {[kind |-> k, name |-> n, body |-> b] :
                n \in IF Names[k] = {} THEN {Anonymous} ELSE Names[k], b \in Bodies}

AddItem ==
  /\ Len(source) < MaxEdited
  /\ \E i \in 1..(Len(source) + 1), k \in DOMAIN Names : \E x \in Edited(k) :
       /\ x.name = Anonymous \/ \A j \in DOMAIN source : source[j].kind # k \/ source[j].name # x.name
       /\ source' = InsertAt(source, i, x)
  /\ UNCHANGED tree

RemoveItem == \E i \in DOMAIN source : source' = RemoveAt(source, i) /\ UNCHANGED tree

EditItem == \E i \in DOMAIN source, b \in Bodies : source' = [source EXCEPT ![i].body = b] /\ UNCHANGED tree

\* snap: the change is recorded, whatever replaying it gives.
SnapFile ==
  \E m \in tree :
    LET atoms == delta(m)
    IN /\ atoms # <<>>
       /\ tree' = {ItemsOf(s) : s \in apply_change(AsState(m), Human(atoms))}
       /\ UNCHANGED source

\* write_state_to_working_dir.
CheckoutFile == \E m \in tree : source' = unparse(m) /\ UNCHANGED tree

AstNext == AddItem \/ RemoveItem \/ EditItem \/ SnapFile \/ CheckoutFile

-----------------------------------------------------------------------------
(* Properties.                                                               *)

\* What a tree unparses to parses to the tree: right after a snap or a checkout
\* there is nothing to snap, and a deletion finds what it deletes.
RoundTripIsStable ==
  tree # {} /\ \A m \in tree : collect_top_level_items(unparse(m)) = m

\* A snap leaves the view with the items of the file, whichever order the
\* checkout had put them in and however they were renumbered by the edit.
SnapKeepsTheEdit == SnapFile => tree' = {collect_top_level_items(source)}

\* Edits survive any number of snaps and checkouts.
EditsRoundTrip == [][RoundTripIsStable' /\ SnapKeepsTheEdit]_astVars
=============================================================================
