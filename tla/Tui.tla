-------------------------------- MODULE Tui --------------------------------
(* The terminal interface: a list of changes, the diff of the selected one   *)
(* with the atoms a user picks, and the intent that a thread asks an AI for.  *)
(* Every request has a token; answers come in any order, and the loop takes   *)
(* those of the latest token.  The backend sends intents too.                 *)
EXTENDS Naturals, FiniteSets, Sequences

CONSTANTS
  DiffLines,     \* the changes in their order: {number of lines}, or {} without a diff
  MaxRequests    \* bound on the requests

\* The provider's list is not empty.
ASSUME TuiAssumption ==
  /\ DiffLines \in Seq(SUBSET Nat) /\ DiffLines # <<>>
  /\ \A i \in DOMAIN DiffLines : DiffLines[i] = {} \/ \E n \in DiffLines[i] : DiffLines[i] = {n}
  /\ MaxRequests \in Nat

VARIABLES
  selected, show_diff, selection_mode, diff_cursor, selected_atoms,
  ghost_intent,  \* [by, change]
  token,         \* ghost_request_token
  asking,        \* the threads: <<token, change>>
  answers,       \* the channel back to the loop
  wanted         \* history: {the change of the latest request}, {} once the backend has sent an intent

tuiVars == <<selected, show_diff, selection_mode, diff_cursor, selected_atoms,
             ghost_intent, token, asking, answers, wanted>>

tuiChanges == DOMAIN DiffLines

\* The number of lines of the selected diff, 0 without one.
line_count(at) == CHOOSE n \in DiffLines[at + 1] \cup {0} : DiffLines[at + 1] \subseteq {n}

NoIntent == [by |-> "nobody", change |-> 0]

TuiInit ==
  /\ selected = 0 /\ show_diff = FALSE /\ selection_mode = FALSE /\ diff_cursor = 0 /\ selected_atoms = {}
  /\ ghost_intent = NoIntent /\ token = 0 /\ asking = {} /\ answers = <<>> /\ wanted = {}

Selects(to) == selected' = to /\ diff_cursor' = 0 /\ selected_atoms' = {}

\* select_next and select_prev, outside the diff.
SelectChange ==
  /\ ~show_diff
  /\ \E to \in {(selected + 1) % Cardinality(tuiChanges),
                IF selected = 0 THEN Cardinality(tuiChanges) - 1 ELSE selected - 1} : Selects(to)
  /\ UNCHANGED <<show_diff, selection_mode, ghost_intent, token, asking, answers, wanted>>

\* OpenDiff: a request, unless the change has no diff.
OpenDiff ==
  /\ ~show_diff /\ show_diff' = TRUE
  /\ IF DiffLines[selected + 1] = {} THEN UNCHANGED <<token, asking, wanted>>
     ELSE /\ token < MaxRequests
          /\ token' = token + 1
          /\ asking' = asking \cup {<<token + 1, selected>>}
          /\ wanted' = {selected}
  /\ UNCHANGED <<selected, selection_mode, diff_cursor, selected_atoms, ghost_intent, answers>>

CloseDiff ==
  /\ show_diff /\ show_diff' = FALSE
  /\ UNCHANGED <<selected, selection_mode, diff_cursor, selected_atoms, ghost_intent, token, asking, answers, wanted>>

ToggleSelectionMode ==
  /\ show_diff
  /\ selection_mode' = ~selection_mode
  /\ diff_cursor' = IF selection_mode THEN 0 ELSE diff_cursor
  /\ UNCHANGED <<selected, show_diff, selected_atoms, ghost_intent, token, asking, answers, wanted>>

MoveCursor ==
  /\ show_diff /\ selection_mode
  /\ LET n == line_count(selected)
     IN diff_cursor' \in IF n = 0 THEN {0}
                         ELSE {(diff_cursor + 1) % n, IF diff_cursor = 0 THEN n - 1 ELSE diff_cursor - 1}
  /\ UNCHANGED <<selected, show_diff, selection_mode, selected_atoms, ghost_intent, token, asking, answers, wanted>>

ToggleAtom ==
  /\ show_diff /\ line_count(selected) > 0
  /\ selected_atoms' = (selected_atoms \cup {diff_cursor}) \ (selected_atoms \cap {diff_cursor})
  /\ UNCHANGED <<selected, show_diff, selection_mode, diff_cursor, ghost_intent, token, asking, answers, wanted>>

\* A thread answers, with what the AI says or with the fallback, and ends.
GhostAnswers ==
  /\ \E a \in asking : asking' = asking \ {a} /\ answers' = Append(answers, a)
  /\ UNCHANGED <<selected, show_diff, selection_mode, diff_cursor, selected_atoms, ghost_intent, token, wanted>>

\* Mutant of Takes: any answer is taken.
TakesAny(a) == a[1] <= token

Takes(a) == a[1] = token

\* drain_ghost_intent_events, one answer.
DrainAnswer ==
  /\ answers # <<>>
  /\ answers' = Tail(answers)
  /\ ghost_intent' = IF Takes(answers[1]) THEN [by |-> "ai", change |-> answers[1][2]] ELSE ghost_intent
  /\ UNCHANGED <<selected, show_diff, selection_mode, diff_cursor, selected_atoms, token, asking, wanted>>

\* apply_output_event: an intent from the backend has no token.
BackendIntent ==
  /\ ghost_intent' = [by |-> "backend", change |-> selected]
  /\ wanted' = {}
  /\ UNCHANGED <<selected, show_diff, selection_mode, diff_cursor, selected_atoms, token, asking, answers>>

TuiNext ==
  \/ SelectChange \/ OpenDiff \/ CloseDiff \/ ToggleSelectionMode \/ MoveCursor \/ ToggleAtom
  \/ GhostAnswers \/ DrainAnswer \/ BackendIntent

TuiSpec == TuiInit /\ [][TuiNext]_tuiVars

-----------------------------------------------------------------------------
(* Properties.                                                               *)

\* The atoms that a snap would sign are lines of the selected diff; and once all
\* threads have answered, the intent shown is the answer to the last request,
\* however late the earlier ones came, unless the backend has sent another.
IntentsAreSound ==
  /\ \A a \in selected_atoms \cup (IF line_count(selected) = 0 THEN {} ELSE {diff_cursor}) :
       a < line_count(selected)
  /\ (asking = {} /\ answers = <<>> /\ wanted # {}) =>
       ghost_intent.by = "ai" /\ ghost_intent.change \in wanted

\* The intent shown beside a change was asked for it.  It need not be: it is kept
\* when another change is selected.
IntentIsOfChange ==
  show_diff /\ ghost_intent # NoIntent => ghost_intent.change = selected
=============================================================================
