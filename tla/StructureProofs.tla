-------------------------- MODULE StructureProofs --------------------------
(* Proofs about Daemon, for every set of files and every size of the channel;  *)
(* about Tui, for every list of changes and any number of requests; about      *)
(* Keyring, for any processes and aliases; and about Bisect, for every history *)
(* and every set of changes that fail the test.                                *)
EXTENDS Daemon, Tui, Keyring, Bisect, Induction, TLAPS, FiniteSetTheorems

-----------------------------------------------------------------------------
(* Queues.                                                                   *)

In(s, x) == \E i \in DOMAIN s : s[i] = x

\* What is in a queue is there until it is taken.
LEMMA AppendIn == ASSUME NEW S, NEW s \in Seq(S), NEW e \in S
                  PROVE  \A x : In(Append(s, e), x) <=> In(s, x) \/ x = e
  <1> DEFINE t == Append(s, e)
  <1>1. /\ DOMAIN t = 1..(Len(s) + 1) /\ DOMAIN s = 1..Len(s) /\ Len(s) \in Nat
        /\ \A i \in 1..Len(s) : t[i] = s[i]
        /\ t[Len(s) + 1] = e
    OBVIOUS
  <1> HIDE DEF t
  <1>2. \A x : In(t, x) <=> In(s, x) \/ x = e
    BY <1>1 DEF In
  <1> QED
    BY <1>2 DEF t

\* What is left of a queue.
LEMMA TailIn == ASSUME NEW S, NEW s \in Seq(S), s # <<>>
                PROVE  /\ Tail(s) \in Seq(S) /\ s[1] \in S /\ Head(s) = s[1]
                       /\ \A x : In(s, x) <=> In(Tail(s), x) \/ x = s[1]
  <1> DEFINE t == Tail(s)
  <1>1. /\ t \in Seq(S) /\ s[1] \in S /\ Head(s) = s[1]
        /\ DOMAIN s = 1..Len(s) /\ Len(s) \in Nat \ {0} /\ DOMAIN t = 1..(Len(s) - 1)
        /\ \A i \in 1..(Len(s) - 1) : t[i] = s[i + 1]
    OBVIOUS
  <1> HIDE DEF t
  <1>2. ASSUME NEW x, In(s, x), x # s[1] PROVE In(t, x)
    <2>1. PICK i \in 1..Len(s) : s[i] = x
      BY <1>1, <1>2 DEF In
    <2>2. i - 1 \in 1..(Len(s) - 1) /\ t[i - 1] = x
      BY <1>1, <1>2, <2>1
    <2> QED
      BY <1>1, <2>2 DEF In
  <1>3. ASSUME NEW x, In(t, x) \/ x = s[1] PROVE In(s, x)
    BY <1>1, <1>3 DEF In
  <1> QED
    BY <1>1, <1>2, <1>3 DEF t

-----------------------------------------------------------------------------
(* Daemon.                                                                   *)

WatchedPaths == Watched \cup {Metadata}
OnTheWay(f) == In(events, f) \/ In(channel, f)

WatchTyped ==
  /\ DOMAIN saved = Watched
  /\ events \in Seq(WatchedPaths) /\ channel \in Seq(WatchedPaths)
  /\ loop \in {"waiting", "debounce", "gate", "hash", "ended"}
  /\ DOMAIN recorded = Watched
  /\ lost \subseteq WatchedPaths

\* What an earlier attempt held back is part of this one.
HeldBackIsTried == loop \in {"gate", "hash"} => transient \subseteq pending_paths

\* What was read for the record is the last version, unless an event of a later
\* one is on its way or was dropped.  Nothing is received meanwhile.
ReadIsFresh ==
  IF loop = "hash"
  THEN \A f \in DOMAIN read \cap Watched : read[f] = saved[f].edit \/ OnTheWay(f) \/ f \in lost
  ELSE read = <<>>

NothingForgotten ==
  loop # "ended" =>
    \A f \in Watched \ lost : recorded[f] = saved[f].edit \/ f \in pending_paths \cup transient \/ OnTheWay(f)

ClientIsTold ==
  /\ raised \in Nat
  /\ stale => raised > 0 \/ signal \/ notifier # "waiting"

WatchInv == WatchTyped /\ HeldBackIsTried /\ ReadIsFresh /\ NothingForgotten

\* The inductive invariant.  That a record covers the last version needs what has
\* been read for it so far; that it covers what was held back, the order of the loop.
DaemonInv == WatchInv /\ ClientIsTold

\* Nothing has been saved and nobody waits.
LEMMA DaemonInvInit == DaemonInit => DaemonInv
  <1> SUFFICES ASSUME DaemonInit PROVE DaemonInv
    OBVIOUS
  <1>1. Metadata \in WatchedPaths
    BY DEF WatchedPaths
  <1>2. events \in Seq(WatchedPaths) /\ channel \in Seq(WatchedPaths)
    BY <1>1 DEF DaemonInit, WatchInit
  <1>3. WatchTyped
    BY <1>2 DEF DaemonInit, WatchInit, WatchTyped
  <1>4. /\ \A f \in Watched : recorded[f] = saved[f].edit
        /\ loop = "waiting" /\ read = <<>>
    BY DEF DaemonInit, WatchInit
  <1>5. ClientIsTold
    BY DEF DaemonInit, NotifyInit, ClientIsTold
  <1> QED
    BY <1>3, <1>4, <1>5 DEF DaemonInv, WatchInv, HeldBackIsTried, ReadIsFresh, NothingForgotten

\* A file is saved.
LEMMA SaveStep == ASSUME WatchInv, NEW f \in Watched, NEW parses \in BOOLEAN, Save(f, parses) PROVE WatchInv'
  <1>1. /\ DOMAIN saved' = Watched
        /\ \A g \in Watched : g # f => saved'[g] = saved[g]
        /\ events' = Append(events, f)
        /\ UNCHANGED <<channel, loop, pending_paths, transient, read, recorded, lost>>
    BY DEF Save, WatchInv, WatchTyped
  <1>2. WatchTyped'
    BY <1>1 DEF WatchInv, WatchTyped, WatchedPaths
  <1>3. /\ In(events', f) /\ \A g : OnTheWay(g) => OnTheWay(g)'
    BY <1>1, AppendIn DEF WatchInv, WatchTyped, OnTheWay, WatchedPaths
  <1> QED
    BY <1>1, <1>2, <1>3 DEF WatchInv, HeldBackIsTried, ReadIsFresh, NothingForgotten, OnTheWay

\* The watcher's callback sends the event, or drops it.
LEMMA CallbackStep == ASSUME WatchInv, Callback PROVE WatchInv'
  <1>1. /\ events # <<>> /\ events' = Tail(events)
        /\ UNCHANGED <<saved, loop, pending_paths, transient, read, recorded>>
    BY DEF Callback
  <1>2. /\ events' \in Seq(WatchedPaths) /\ Head(events) \in WatchedPaths
        /\ \A f : In(events, f) => In(events', f) \/ f = Head(events)
    BY <1>1, TailIn DEF WatchInv, WatchTyped
  <1>3. /\ channel' \in Seq(WatchedPaths) /\ lost' \subseteq WatchedPaths /\ lost \subseteq lost'
        /\ \A f : In(channel, f) => In(channel', f)
        /\ In(channel', Head(events)) \/ Head(events) \in lost'
    <2>1. CASE channel' = Append(channel, Head(events)) /\ lost' = lost
      BY <1>2, <2>1, AppendIn DEF WatchInv, WatchTyped
    <2>2. CASE channel' = channel /\ lost' = lost \cup {Head(events)}
      BY <1>2, <2>2 DEF WatchInv, WatchTyped
    <2> QED
      BY <2>1, <2>2 DEF Callback
  <1>4. WatchTyped'
    BY <1>1, <1>2, <1>3 DEF WatchInv, WatchTyped
  <1>5. \A f : OnTheWay(f) => OnTheWay(f)' \/ f \in lost'
    BY <1>2, <1>3 DEF OnTheWay
  <1> QED
    BY <1>1, <1>3, <1>4, <1>5 DEF WatchInv, HeldBackIsTried, ReadIsFresh, NothingForgotten

\* The loop takes an event.
LEMMA ReceiveStep == ASSUME WatchInv, Receive PROVE WatchInv'
  <1>1. /\ loop \in {"waiting", "debounce"} /\ loop' = "debounce"
        /\ channel # <<>> /\ channel' = Tail(channel)
        /\ pending_paths' = pending_paths \cup {Head(channel)}
        /\ lost' = lost \ {Head(channel)}
        /\ UNCHANGED <<saved, events, transient, read, recorded>>
    BY DEF Receive
  <1>2. /\ channel' \in Seq(WatchedPaths)
        /\ \A f : In(channel, f) => In(channel', f) \/ f = Head(channel)
    BY <1>1, TailIn DEF WatchInv, WatchTyped
  <1>3. WatchTyped'
    BY <1>1, <1>2 DEF WatchInv, WatchTyped
  <1>4. \A f : OnTheWay(f) => OnTheWay(f)' \/ f \in pending_paths'
    BY <1>1, <1>2 DEF OnTheWay
  <1> QED
    BY <1>1, <1>3, <1>4 DEF WatchInv, HeldBackIsTried, ReadIsFresh, NothingForgotten

\* The window passes, and the gate lets the files through or holds them all back.
LEMMA AttemptStep == ASSUME WatchInv, Fire \/ Gate PROVE WatchInv'
  <1>1. CASE Fire
    <2>1. /\ loop = "debounce" /\ loop' = "gate" /\ pending_paths' = pending_paths \cup transient
          /\ UNCHANGED <<saved, events, channel, transient, read, recorded, lost>>
      BY <1>1 DEF Fire, Attempt
    <2>2. WatchTyped'
      BY <2>1 DEF WatchInv, WatchTyped
    <2>3. \A f : OnTheWay(f) => OnTheWay(f)'
      BY <2>1 DEF OnTheWay
    <2> QED
      BY <2>1, <2>2, <2>3 DEF WatchInv, HeldBackIsTried, ReadIsFresh, NothingForgotten
  <1>2. CASE Gate
    <2>1. \/ transient' = pending_paths /\ pending_paths' = {} /\ loop' = "waiting"
          \/ loop' = "hash" /\ UNCHANGED <<transient, pending_paths>>
      BY <1>2 DEF Gate
    <2>2. loop = "gate" /\ UNCHANGED <<saved, events, channel, read, recorded, lost>>
      BY <1>2 DEF Gate
    <2>3. WatchTyped'
      BY <2>1, <2>2 DEF WatchInv, WatchTyped
    <2>4. \A f : OnTheWay(f) => OnTheWay(f)'
      BY <2>2 DEF OnTheWay
    <2>5. ReadIsFresh'
      BY <2>1, <2>2 DEF WatchInv, ReadIsFresh
    <2> QED
      BY <2>1, <2>2, <2>3, <2>4, <2>5 DEF WatchInv, HeldBackIsTried, NothingForgotten
  <1> QED
    BY <1>1, <1>2

\* A file is hashed for the snapshot.
LEMMA HashStep == ASSUME WatchInv, NEW f \in Watched, Hash(f) PROVE WatchInv'
  <1>1. /\ loop = "hash" /\ read'[f] = saved[f].edit
        /\ DOMAIN read' = DOMAIN read \cup {f}
        /\ \A g \in DOMAIN read : g # f => read'[g] = read[g]
        /\ UNCHANGED <<saved, events, channel, loop, pending_paths, transient, recorded, lost>>
    BY DEF Hash
  <1> QED
    BY <1>1 DEF WatchInv, WatchTyped, HeldBackIsTried, ReadIsFresh, NothingForgotten, OnTheWay

\* The record covers all that was pending; what it does not cover is on its way.
LEMMA PutRecordStep == ASSUME WatchInv, PutRecord PROVE WatchInv'
  <1>1. /\ loop = "hash" /\ DOMAIN read = pending_paths \cap Watched
        /\ read' = <<>> /\ UNCHANGED <<saved, channel, lost>>
    BY DEF PutRecord
  <1>2. CASE loop' = "ended" /\ UNCHANGED <<recorded, transient, pending_paths, events>>
    BY <1>1, <1>2 DEF WatchInv, WatchTyped, HeldBackIsTried, ReadIsFresh, NothingForgotten
  <1>3. CASE /\ recorded' = [f \in Watched |-> IF f \in DOMAIN read THEN read[f] ELSE recorded[f]]
             /\ transient' = {} /\ pending_paths' = {} /\ loop' = "waiting"
             /\ events' = Append(events, Metadata)
    <2>1. WatchTyped'
      BY <1>1, <1>3 DEF WatchInv, WatchTyped, WatchedPaths
    <2>2. \A f : OnTheWay(f) => OnTheWay(f)'
      BY <1>1, <1>3, AppendIn DEF WatchInv, WatchTyped, OnTheWay, WatchedPaths
    <2>3. ASSUME NEW f \in Watched \ lost PROVE recorded'[f] = saved'[f].edit \/ OnTheWay(f)'
      <3>1. CASE f \in pending_paths
        BY <1>1, <1>3, <2>2, <3>1 DEF WatchInv, ReadIsFresh
      <3>2. CASE f \notin pending_paths
        BY <1>1, <1>3, <2>2, <3>2 DEF WatchInv, HeldBackIsTried, NothingForgotten
      <3> QED
        BY <3>1, <3>2
    <2> QED
      BY <1>1, <1>3, <2>1, <2>3 DEF WatchInv, HeldBackIsTried, ReadIsFresh, NothingForgotten
  <1> QED
    BY <1>2, <1>3 DEF PutRecord

\* Every step of the watcher.
LEMMA WatchStep == ASSUME WatchInv, [WatchNext]_watchVars PROVE WatchInv'
  <1>1. CASE UNCHANGED watchVars
    BY <1>1 DEF watchVars, WatchInv, WatchTyped, HeldBackIsTried, ReadIsFresh, NothingForgotten, OnTheWay
  <1> QED
    BY <1>1, SaveStep, CallbackStep, ReceiveStep, AttemptStep, HashStep, PutRecordStep DEF WatchNext

\* Every step of the clients and the notifier.
LEMMA NotifyStep == ASSUME ClientIsTold, [NotifyNext]_notifyVars PROVE ClientIsTold'
  BY DEF ClientIsTold, NotifyNext, Change, Signal, Wake, Pause, Notify, notifyVars

\* Every step of the daemon.
LEMMA DaemonInvStep == DaemonInv /\ [DaemonNext]_<<watchVars, notifyVars>> => DaemonInv'
  BY WatchStep, NotifyStep DEF DaemonInv, DaemonNext

\* No edit and no view is forgotten.
LEMMA DaemonInvIsEnough == DaemonInv => WatchersForgetNothing
  BY DEF DaemonInv, WatchInv, NothingForgotten, ClientIsTold, WatchersForgetNothing, OnTheWay, In

\* An edit is recorded, held back or on its way to the loop, unless its event
\* found the channel full; and a client that was not told is about to be.
THEOREM NothingIsForgotten == DaemonSpec => []WatchersForgetNothing
  BY DaemonInvInit, DaemonInvStep, DaemonInvIsEnough, PTL DEF DaemonSpec

-----------------------------------------------------------------------------
(* Tui.                                                                      *)

\* Threads and answers are pairs of a token and the change it is for.
Requests == Nat \X Nat

TuiTyped ==
  /\ selected \in 0..(Len(DiffLines) - 1)
  /\ show_diff \in BOOLEAN /\ selection_mode \in BOOLEAN
  /\ diff_cursor \in Nat /\ selected_atoms \subseteq Nat
  /\ token \in Nat
  /\ asking \subseteq Requests /\ answers \in Seq(Requests)

\* The cursor and the atoms picked are lines of the selected diff.
WithinDiff ==
  /\ \A a \in selected_atoms : a < line_count(selected)
  /\ line_count(selected) = 0 \/ diff_cursor < line_count(selected)

\* A request whose answer is not shown yet.
Pending(r) == r \in asking \/ In(answers, r)

\* No token is ahead of the last one given, and that one belongs to the change
\* that was asked for last.
TokensAreInOrder ==
  \A r \in Requests : Pending(r) => r[1] <= token /\ (wanted # {} /\ r[1] = token => r[2] \in wanted)

\* The last request is under way, or answered.
LastIsAnswered ==
  wanted # {} =>
    \/ \E r \in Requests : Pending(r) /\ r[1] = token
    \/ ghost_intent.by = "ai" /\ ghost_intent.change \in wanted

\* The inductive invariant.  That the last request wins needs that no other has
\* its token, whatever the order of the answers.
TuiInv == TuiTyped /\ WithinDiff /\ TokensAreInOrder /\ LastIsAnswered

\* A diff has some number of lines.
LEMMA CountIsNat == ASSUME NEW at \in 0..(Len(DiffLines) - 1) PROVE line_count(at) \in Nat
  <1>1. at + 1 \in DOMAIN DiffLines
    BY TuiAssumption
  <1>2. CASE DiffLines[at + 1] = {}
    BY <1>2 DEF line_count
  <1>3. ASSUME NEW n \in Nat, DiffLines[at + 1] = {n} PROVE line_count(at) \in Nat
    BY <1>3 DEF line_count
  <1> QED
    BY <1>1, <1>2, <1>3, TuiAssumption

\* There is a change to select, and they are finitely many.
LEMMA CountOfChanges == Cardinality(tuiChanges) = Len(DiffLines) /\ Len(DiffLines) \in Nat \ {0}
  <1>1. tuiChanges = 1..Len(DiffLines) /\ Len(DiffLines) \in Nat \ {0}
    BY TuiAssumption DEF tuiChanges
  <1>2. Cardinality(1..Len(DiffLines)) = Len(DiffLines)
    BY <1>1, FS_Interval
  <1> QED
    BY <1>1, <1>2

\* The first change is selected, and no intent is asked for.
LEMMA TuiInvInit == TuiInit => TuiInv
  <1> SUFFICES ASSUME TuiInit PROVE TuiInv
    OBVIOUS
  <1>1. 0 \in 0..(Len(DiffLines) - 1)
    BY CountOfChanges
  <1>2. line_count(selected) \in Nat
    BY <1>1, CountIsNat DEF TuiInit
  <1>3. TuiTyped
    <2>1. <<>> \in Seq(Requests)
      OBVIOUS
    <2>2. answers \in Seq(Requests) /\ asking \subseteq Requests
      BY <2>1 DEF TuiInit
    <2> QED
      BY <1>1, <2>2 DEF TuiInit, TuiTyped
  <1>4. \A r : ~Pending(r)
    BY DEF TuiInit, Pending, In
  <1> QED
    BY <1>2, <1>3, <1>4 DEF TuiInit, TuiInv, WithinDiff, TokensAreInOrder, LastIsAnswered

\* Moving through the list or the diff: no request and no answer changes.
LEMMA MoveStep ==
  ASSUME TuiInv, SelectChange \/ CloseDiff \/ ToggleSelectionMode \/ MoveCursor \/ ToggleAtom PROVE TuiInv'
  <1>1. UNCHANGED <<ghost_intent, token, asking, answers, wanted>>
    BY DEF SelectChange, CloseDiff, ToggleSelectionMode, MoveCursor, ToggleAtom
  <1>2. TokensAreInOrder' /\ LastIsAnswered'
    BY <1>1 DEF TuiInv, TokensAreInOrder, LastIsAnswered, Pending
  <1>3. line_count(selected) \in Nat
    BY CountIsNat DEF TuiInv, TuiTyped
  <1>4. CASE SelectChange
    <2>1. /\ selected' \in {(selected + 1) % Len(DiffLines), IF selected = 0 THEN Len(DiffLines) - 1 ELSE selected - 1}
          /\ diff_cursor' = 0 /\ selected_atoms' = {} /\ UNCHANGED <<show_diff, selection_mode>>
      BY <1>4, CountOfChanges DEF SelectChange, Selects
    <2>2. selected' \in 0..(Len(DiffLines) - 1)
      BY <2>1, CountOfChanges DEF TuiInv, TuiTyped
    <2>3. line_count(selected)' \in Nat
      BY <2>2, CountIsNat
    <2>4. TuiTyped'
      BY <1>1, <2>1, <2>2 DEF TuiInv, TuiTyped
    <2>5. WithinDiff'
      BY <2>1, <2>3 DEF WithinDiff
    <2> QED
      BY <1>2, <2>4, <2>5 DEF TuiInv
  <1>5. CASE CloseDiff \/ ToggleSelectionMode
    <2>1. /\ UNCHANGED <<selected, selected_atoms>> /\ diff_cursor' \in {0, diff_cursor}
          /\ show_diff' \in BOOLEAN /\ selection_mode' \in BOOLEAN
      BY <1>5 DEF CloseDiff, ToggleSelectionMode, TuiInv, TuiTyped
    <2>2. line_count(selected)' = line_count(selected)
      BY <2>1 DEF line_count
    <2>3. TuiTyped' /\ WithinDiff'
      BY <1>1, <1>3, <2>1, <2>2 DEF TuiInv, TuiTyped, WithinDiff
    <2> QED
      BY <1>2, <2>3 DEF TuiInv
  <1>6. CASE MoveCursor
    <2>1. /\ UNCHANGED <<selected, selected_atoms, show_diff, selection_mode>>
          /\ \/ line_count(selected) = 0 /\ diff_cursor' = 0
             \/ line_count(selected) # 0 /\ diff_cursor' \in
                  {(diff_cursor + 1) % line_count(selected),
                   IF diff_cursor = 0 THEN line_count(selected) - 1 ELSE diff_cursor - 1}
      BY <1>6 DEF MoveCursor
    <2>2. line_count(selected)' = line_count(selected)
      BY <2>1 DEF line_count
    <2>3. diff_cursor' \in Nat /\ (line_count(selected) = 0 \/ diff_cursor' < line_count(selected))
      BY <1>3, <2>1 DEF TuiInv, TuiTyped, WithinDiff
    <2>4. TuiTyped' /\ WithinDiff'
      BY <1>1, <2>1, <2>2, <2>3 DEF TuiInv, TuiTyped, WithinDiff
    <2> QED
      BY <1>2, <2>4 DEF TuiInv
  <1>7. CASE ToggleAtom
    <2>1. /\ UNCHANGED <<selected, diff_cursor, show_diff, selection_mode>>
          /\ line_count(selected) > 0
          /\ selected_atoms' \subseteq selected_atoms \cup {diff_cursor}
      BY <1>7 DEF ToggleAtom
    <2>2. line_count(selected)' = line_count(selected)
      BY <2>1 DEF line_count
    <2>3. TuiTyped' /\ WithinDiff'
      BY <1>1, <1>3, <2>1, <2>2 DEF TuiInv, TuiTyped, WithinDiff
    <2> QED
      BY <1>2, <2>3 DEF TuiInv
  <1> QED
    BY <1>4, <1>5, <1>6, <1>7

\* The next token is ahead of all others.
LEMMA OpenStep == ASSUME TuiInv, OpenDiff PROVE TuiInv'
  <1>1. /\ show_diff' = TRUE
        /\ UNCHANGED <<selected, selection_mode, diff_cursor, selected_atoms, ghost_intent, answers>>
    BY DEF OpenDiff
  <1>2. WithinDiff'
    BY <1>1 DEF TuiInv, WithinDiff, line_count
  <1>3. CASE UNCHANGED <<token, asking, wanted>>
    BY <1>1, <1>2, <1>3 DEF TuiInv, TuiTyped, TokensAreInOrder, LastIsAnswered, Pending
  <1>4. CASE /\ token' = token + 1
             /\ asking' = asking \cup {<<token + 1, selected>>}
             /\ wanted' = {selected}
    <2>1. <<token + 1, selected>> \in Requests /\ token \in Nat
      BY DEF TuiInv, TuiTyped, Requests
    <2>2. TuiTyped'
      BY <1>1, <1>4, <2>1 DEF TuiInv, TuiTyped
    <2>3. \A r : Pending(r)' <=> Pending(r) \/ r = <<token + 1, selected>>
      BY <1>1, <1>4 DEF Pending
    <2>4. \A r \in Requests : r[1] \in Nat
      BY DEF Requests
    <2>5. TokensAreInOrder'
      BY <1>4, <2>1, <2>3, <2>4 DEF TuiInv, TokensAreInOrder
    <2>6. LastIsAnswered'
      BY <1>4, <2>1, <2>3 DEF LastIsAnswered
    <2> QED
      BY <1>2, <2>2, <2>5, <2>6 DEF TuiInv
  <1> QED
    BY <1>3, <1>4 DEF OpenDiff

\* A thread answers.
LEMMA AnswerStep == ASSUME TuiInv, GhostAnswers PROVE TuiInv'
  <1>1. PICK a \in asking : asking' = asking \ {a} /\ answers' = Append(answers, a)
    BY DEF GhostAnswers
  <1>2. UNCHANGED <<selected, show_diff, selection_mode, diff_cursor, selected_atoms, ghost_intent, token, wanted>>
    BY DEF GhostAnswers
  <1>3. a \in Requests
    BY DEF TuiInv, TuiTyped
  <1>4. TuiTyped'
    BY <1>1, <1>2, <1>3 DEF TuiInv, TuiTyped
  <1>5. \A r : Pending(r)' <=> Pending(r)
    BY <1>1, <1>3, AppendIn DEF TuiInv, TuiTyped, Pending
  <1>6. WithinDiff'
    BY <1>2 DEF TuiInv, WithinDiff, line_count
  <1> QED
    BY <1>2, <1>4, <1>5, <1>6 DEF TuiInv, TokensAreInOrder, LastIsAnswered

\* The loop takes an answer.
LEMMA DrainStep == ASSUME TuiInv, DrainAnswer PROVE TuiInv'
  <1>1. /\ answers # <<>> /\ answers' = Tail(answers)
        /\ ghost_intent' = IF answers[1][1] = token THEN [by |-> "ai", change |-> answers[1][2]] ELSE ghost_intent
        /\ UNCHANGED <<selected, show_diff, selection_mode, diff_cursor, selected_atoms, token, asking, wanted>>
    BY DEF DrainAnswer, Takes
  <1>2. /\ answers' \in Seq(Requests) /\ answers[1] \in Requests
        /\ \A x : In(answers, x) <=> In(answers', x) \/ x = answers[1]
    BY <1>1, TailIn DEF TuiInv, TuiTyped
  <1>3. TuiTyped'
    BY <1>1, <1>2 DEF TuiInv, TuiTyped
  <1>4. /\ \A r : Pending(r)' => Pending(r)
        /\ \A r : Pending(r) => Pending(r)' \/ r = answers[1]
        /\ Pending(answers[1])
    BY <1>1, <1>2 DEF Pending
  <1>5. WithinDiff'
    BY <1>1 DEF TuiInv, WithinDiff, line_count
  <1>6. TokensAreInOrder'
    BY <1>1, <1>4 DEF TuiInv, TokensAreInOrder
  <1>7. LastIsAnswered'
    <2>1. CASE answers[1][1] = token
      BY <1>1, <1>2, <1>4, <2>1 DEF TuiInv, TokensAreInOrder, LastIsAnswered
    <2>2. CASE answers[1][1] # token
      BY <1>1, <1>4, <2>2 DEF TuiInv, LastIsAnswered
    <2> QED
      BY <2>1, <2>2
  <1> QED
    BY <1>3, <1>5, <1>6, <1>7 DEF TuiInv

\* An intent comes from the backend.
LEMMA BackendStep == ASSUME TuiInv, BackendIntent PROVE TuiInv'
  <1>1. /\ wanted' = {}
        /\ UNCHANGED <<selected, show_diff, selection_mode, diff_cursor, selected_atoms, token, asking, answers>>
    BY DEF BackendIntent
  <1>2. WithinDiff'
    BY <1>1 DEF TuiInv, WithinDiff, line_count
  <1> QED
    BY <1>1, <1>2 DEF TuiInv, TuiTyped, TokensAreInOrder, LastIsAnswered, Pending

\* Every step keeps the invariant.
LEMMA TuiInvStep == TuiInv /\ [TuiNext]_tuiVars => TuiInv'
  <1>1. TuiInv /\ UNCHANGED tuiVars => TuiInv'
    BY DEF tuiVars, TuiInv, TuiTyped, WithinDiff, line_count, TokensAreInOrder, LastIsAnswered, Pending
  <1> QED
    BY <1>1, MoveStep, OpenStep, AnswerStep, DrainStep, BackendStep DEF TuiNext

\* The last request's intent is shown.
LEMMA TuiInvIsEnough == TuiInv => IntentsAreSound
  <1> SUFFICES ASSUME TuiInv PROVE IntentsAreSound
    OBVIOUS
  <1>1. ASSUME NEW a \in selected_atoms \cup (IF line_count(selected) = 0 THEN {} ELSE {diff_cursor})
        PROVE  a < line_count(selected)
    BY DEF TuiInv, WithinDiff
  <1>2. ASSUME asking = {}, answers = <<>>, wanted # {}
        PROVE  ghost_intent.by = "ai" /\ ghost_intent.change \in wanted
    <2>1. \A r : ~Pending(r)
      BY <1>2 DEF Pending, In
    <2> QED
      BY <1>2, <2>1 DEF TuiInv, LastIsAnswered
  <1> QED
    BY <1>1, <1>2 DEF IntentsAreSound

\* The intent that is shown once every thread has answered is that of the last
\* request, and what a user picks lies in the diff that is open.
THEOREM IntentsAlwaysSound == TuiSpec => []IntentsAreSound
  BY TuiInvInit, TuiInvStep, TuiInvIsEnough, PTL DEF TuiSpec

-----------------------------------------------------------------------------
(* Keyring.                                                                  *)

\* What atomic_write is asked to write, and what a file can hold.
Files == Aliases \cup {SessionFile}
Contents == [alias : Aliases \cup {"empty", "mixed"}, key : Nat]

\* Whoever has opened the temporary file.
Opened(p) == holder[p].at \in {"write", "rename"}

\* The processes, the files and their names.
KeyringTyped ==
  /\ holder \in [Holder -> [at : {"idle", "open", "write", "rename"}, file : Files,
                            content : Contents, inode : FileNumbers \cup {0}]]
  /\ inodes \in [FileNumbers -> Contents]
  /\ names \in [Entries -> FileNumbers \cup {0}]
  /\ kept \in [Aliases -> Nat]
  /\ shared \in SUBSET Files

\* generate writes an identity under its alias, select_active_identity a selection.
Makes(c, f) ==
  /\ c.alias \in Aliases
  /\ c.key = 0 => f = SessionFile
  /\ c.key # 0 => c.alias = f

\* A process has a file while it is open, and what it is to write from the start.
WritersHaveFiles ==
  \A p \in Holder :
    /\ Opened(p) <=> holder[p].inode # 0
    /\ holder[p].at # "idle" => Makes(holder[p].content, holder[p].file)
    /\ holder[p].at = "idle" => holder[p].content = NoBytes

\* A file has one name, and no writer but those of its name.
FilesDiffer ==
  /\ \A m, n \in Entries : names[m] = names[n] /\ names[m] # 0 => m = n
  /\ \A p \in Holder, n \in Entries :
       Opened(p) /\ names[n] = holder[p].inode => n \in {Tmp(holder[p].file), Json(holder[p].file)}
  /\ \A p, q \in Holder :
       Opened(p) /\ Opened(q) /\ holder[p].inode = holder[q].inode => holder[p].file = holder[q].file

\* The only writer of a file has the temporary name for itself.
WritesAlone ==
  \A p \in Holder : Opened(p) /\ holder[p].file \notin shared =>
    /\ names[Tmp(holder[p].file)] = holder[p].inode
    /\ inodes[holder[p].inode] = IF holder[p].at = "write" THEN NoBytes ELSE holder[p].content
    /\ \A q \in Holder : Opened(q) /\ holder[q].file = holder[p].file => q = p

\* Under an alias that no two wrote at once is what generate returned last.
KeptIsThere ==
  \A f \in Files \ shared :
    /\ names[Json(f)] # 0 => inodes[names[Json(f)]] \notin {NoBytes, Mixed}
    /\ f # SessionFile =>
         /\ names[Json(f)] # 0 <=> kept[f] # 0
         /\ names[Json(f)] # 0 => inodes[names[Json(f)]] = Identity(f, kept[f])

\* What is selected, or about to be, was generated.
SelectedWasMade ==
  shared = {} => \A c \in {holder[p].content : p \in Holder} \cup {inodes[i] : i \in FileNumbers} :
    c.key = 0 /\ c.alias \in Aliases \ {SessionFile} => kept[c.alias] # 0

KeyringInv == KeyringTyped /\ WritersHaveFiles /\ FilesDiffer /\ WritesAlone /\ KeptIsThere /\ SelectedWasMade

\* alias_path and the temporary names: no two are the same.
LEMMA TmpJson ==
  ASSUME NEW f \in Files
  PROVE  /\ Tmp(f) \in Entries /\ Json(f) \in Entries
         /\ \A g \in Files : Tmp(f) # Json(g) /\ (Tmp(f) = Tmp(g) => f = g) /\ (Json(f) = Json(g) => f = g)
  BY DEF Files, Tmp, Json, Entries, Temporary

\* There is a file for every name and every holder.
LEMMA FileNumbersExist ==
  /\ FileNumbers \subseteq Nat /\ 0 \notin FileNumbers /\ IsFiniteSet(FileNumbers) /\ IsFiniteSet(Entries)
  /\ Cardinality(FileNumbers) = Cardinality(Holder) + Cardinality(Entries)
  /\ Cardinality(Holder) \in Nat /\ Cardinality(Entries) \in Nat
  <1>1. \A F : IsFiniteSet(F) => IsFiniteSet({Tmp(f) : f \in F}) /\ IsFiniteSet({Json(f) : f \in F})
    <2>1. ASSUME NEW F, IsFiniteSet(F) PROVE IsFiniteSet({Tmp(f) : f \in F})
      <3>1. [f \in F |-> Tmp(f)] \in Surjection(F, {Tmp(f) : f \in F})
        BY DEF Surjection
      <3> QED
        BY <2>1, <3>1, FS_Surjection
    <2>2. ASSUME NEW F, IsFiniteSet(F) PROVE IsFiniteSet({Json(f) : f \in F})
      <3>1. [f \in F |-> Json(f)] \in Surjection(F, {Json(f) : f \in F})
        BY DEF Surjection
      <3> QED
        BY <2>2, <3>1, FS_Surjection
    <2> QED
      BY <2>1, <2>2
  <1>2. IsFiniteSet(Entries)
    <2>1. IsFiniteSet(Aliases \cup {SessionFile})
      BY KeyringAssumption, FS_AddElement
    <2> QED
      BY <1>1, <2>1, FS_Union DEF Entries
  <1>3. Cardinality(Holder) \in Nat /\ Cardinality(Entries) \in Nat
    BY <1>2, KeyringAssumption, FS_CardinalityType
  <1>4. IsFiniteSet(FileNumbers) /\ Cardinality(FileNumbers) = Cardinality(Holder) + Cardinality(Entries)
    <2> DEFINE n == Cardinality(Holder) + Cardinality(Entries)
    <2>1. n \in Nat /\ FileNumbers = 1..n
      BY <1>3 DEF FileNumbers
    <2> HIDE DEF n
    <2>2. IsFiniteSet(1..n) /\ Cardinality(1..n) = n
      BY <2>1, FS_Interval
    <2> QED
      BY <2>1, <2>2 DEF n
  <1>5. FileNumbers \subseteq Nat /\ 0 \notin FileNumbers
    BY <1>3 DEF FileNumbers
  <1> QED
    BY <1>2, <1>3, <1>4, <1>5

\* A writer that has no file yet finds one.
LEMMA FileUnused ==
  ASSUME KeyringTyped, NEW p \in Holder, holder[p].inode = 0
  PROVE  Unused # {}
  <1> SUFFICES ASSUME \A i \in FileNumbers : i \in Used(names, holder) PROVE FALSE
    BY DEF Unused
  <1> DEFINE Keeper(i) == IF \E n \in Entries : names[n] = i
                          THEN <<"name", CHOOSE n \in Entries : names[n] = i>>
                          ELSE <<"holder", CHOOSE q \in Holder : holder[q].inode = i>>
             f == [i \in FileNumbers |-> Keeper(i)]
             A == {<<"name", n>> : n \in Entries}
             B == {<<"holder", q>> : q \in Holder \ {p}}
  <1>1. \A i \in FileNumbers :
          \/ f[i] \in A /\ names[f[i][2]] = i
          \/ f[i] \in B /\ holder[f[i][2]].inode = i
    <2> SUFFICES ASSUME NEW i \in FileNumbers
                 PROVE  \/ f[i] \in A /\ names[f[i][2]] = i
                        \/ f[i] \in B /\ holder[f[i][2]].inode = i
      OBVIOUS
    <2>1. CASE \E n \in Entries : names[n] = i
      <3> DEFINE n == CHOOSE n \in Entries : names[n] = i
      <3>1. n \in Entries /\ names[n] = i /\ f[i] = <<"name", n>>
        BY <2>1
      <3> HIDE DEF n, f
      <3> QED
        BY <3>1
    <2>2. CASE ~\E n \in Entries : names[n] = i
      <3> DEFINE q == CHOOSE q \in Holder : holder[q].inode = i
      <3>1. q \in Holder /\ holder[q].inode = i /\ f[i] = <<"holder", q>>
        BY <2>2 DEF Used
      <3>2. q # p
        BY <3>1, FileNumbersExist
      <3> HIDE DEF q, f
      <3> QED
        BY <3>1, <3>2
    <2> QED
      BY <2>1, <2>2
  <1>2. f \in [FileNumbers -> A \cup B]
    <2>1. \A i \in FileNumbers : f[i] \in A \cup B
      BY <1>1
    <2> HIDE DEF A, B, Keeper
    <2> QED
      BY <2>1
  <1>3. \A x, y \in FileNumbers : f[x] = f[y] => x = y
    <2> HIDE DEF f
    <2> QED
      BY <1>1
  <1> HIDE DEF f
  <1>4. IsFiniteSet(A) /\ Cardinality(A) <= Cardinality(Entries)
    <2>1. [n \in Entries |-> <<"name", n>>] \in Surjection(Entries, A)
      BY DEF Surjection
    <2> QED
      BY <2>1, FileNumbersExist, FS_Surjection
  <1>5. IsFiniteSet(B) /\ Cardinality(B) <= Cardinality(Holder) - 1
    <2>1. [q \in Holder \ {p} |-> <<"holder", q>>] \in Surjection(Holder \ {p}, B)
      BY DEF Surjection
    <2>2. IsFiniteSet(Holder \ {p}) /\ Cardinality(Holder \ {p}) = Cardinality(Holder) - 1
      BY KeyringAssumption, FS_RemoveElement
    <2> QED
      BY <2>1, <2>2, FS_Surjection
  <1> HIDE DEF A, B
  <1>6. IsFiniteSet(A \cup B) /\ Cardinality(A \cup B) < Cardinality(FileNumbers)
    <2>1. IsFiniteSet(A \cap B)
      BY <1>4, FS_Subset
    <2>2. Cardinality(A) \in Nat /\ Cardinality(B) \in Nat /\ Cardinality(A \cap B) \in Nat
      BY <1>4, <1>5, <2>1, FS_CardinalityType
    <2>3. IsFiniteSet(A \cup B) /\ Cardinality(A \cup B) = Cardinality(A) + Cardinality(B) - Cardinality(A \cap B)
      BY <1>4, <1>5, FS_Union
    <2> QED
      BY <1>4, <1>5, <2>2, <2>3, FileNumbersExist
  <1>7. IsFiniteSet(FileNumbers)
    BY FileNumbersExist
  <1> DEFINE T == A \cup B
  <1>8. f \in [FileNumbers -> T] /\ IsFiniteSet(T) /\ Cardinality(T) < Cardinality(FileNumbers)
    BY <1>2, <1>6
  <1> HIDE DEF T, FileNumbers
  <1> QED
    BY <1>3, <1>7, <1>8, FS_PigeonHole

\* An empty directory.
LEMMA KeyringInvInit == KeyringInit => KeyringInv
  <1> SUFFICES ASSUME KeyringInit PROVE KeyringInv
    OBVIOUS
  <1>1. /\ holder = [p \in Holder |-> NotWriting] /\ inodes = [i \in FileNumbers |-> NoBytes]
        /\ names = [n \in Entries |-> 0] /\ kept = [a \in Aliases |-> 0] /\ shared = {}
    BY DEF KeyringInit
  <1> HIDE DEF Entries, FileNumbers
  <1>2. KeyringTyped
    BY <1>1 DEF KeyringTyped, NotWriting, NoBytes, Contents, Files
  <1>3. WritersHaveFiles /\ FilesDiffer /\ WritesAlone
    BY <1>1 DEF WritersHaveFiles, FilesDiffer, WritesAlone, NotWriting, Opened
  <1>4. KeptIsThere
    BY <1>1, TmpJson DEF KeptIsThere, Files
  <1>5. SelectedWasMade
    BY <1>1, KeyringAssumption DEF SelectedWasMade, NotWriting, NoBytes
  <1> QED
    BY <1>2, <1>3, <1>4, <1>5 DEF KeyringInv

\* A command begins: only its process is new, and it has opened nothing.
LEMMA BeginsWriting ==
  ASSUME KeyringInv, NEW p \in Holder, holder[p].at = "idle",
         NEW f \in Files, NEW c \in Contents, Makes(c, f),
         c.key = 0 => c.alias = SessionFile \/ kept[c.alias] # 0 \/ shared # {},
         holder' = [holder EXCEPT ![p] = [at |-> "open", file |-> f, content |-> c, inode |-> 0]],
         UNCHANGED <<inodes, names, kept, shared>>
  PROVE  KeyringInv'
  <1> USE DEF Opened
  <1> HIDE DEF Entries, FileNumbers, Files, Contents
  <1>1. KeyringTyped'
    BY DEF KeyringInv, KeyringTyped
  <1>2. /\ \A q \in Holder \ {p} : holder'[q] = holder[q]
        /\ holder'[p] = [at |-> "open", file |-> f, content |-> c, inode |-> 0]
    BY DEF KeyringInv, KeyringTyped
  <1>3. WritersHaveFiles'
    BY <1>2 DEF KeyringInv, WritersHaveFiles, Makes
  <1>4. FilesDiffer'
    BY <1>2 DEF KeyringInv, FilesDiffer
  <1>5. WritesAlone'
    BY <1>2 DEF KeyringInv, WritesAlone
  <1>6. KeptIsThere'
    BY DEF KeyringInv, KeptIsThere
  <1>7. SelectedWasMade'
    BY <1>2 DEF KeyringInv, SelectedWasMade
  <1> QED
    BY <1>1, <1>3, <1>4, <1>5, <1>6, <1>7 DEF KeyringInv

\* generate and select_active_identity, up to the first write.
LEMMA CommandsSound ==
  ASSUME KeyringInv, NEW p \in Holder, NEW a \in Aliases, Generate(p, a) \/ Select(p, a)
  PROVE  KeyringInv'
  <1>1. CASE Generate(p, a)
    <2>1. PICK n \in 1..MaxIdentities :
            holder' = [holder EXCEPT ![p] = [at |-> "open", file |-> a, content |-> Identity(a, n), inode |-> 0]]
      BY <1>1 DEF Generate
    <2>2. n \in Nat /\ n # 0
      BY KeyringAssumption
    <2>3. Identity(a, n) \in Contents /\ Makes(Identity(a, n), a) /\ Identity(a, n).key # 0
      BY <2>2 DEF Identity, Contents, Makes
    <2>4. a \in Files
      BY DEF Files
    <2>5. holder[p].at = "idle" /\ UNCHANGED <<inodes, names, kept, shared>>
      BY <1>1 DEF Generate
    <2> HIDE DEF Files, Contents, Identity, Makes
    <2> QED
      BY <2>1, <2>3, <2>4, <2>5, BeginsWriting
  <1>2. CASE Select(p, a)
    <2> DEFINE c == Selection(a)
    <2>1. c \in Contents /\ Makes(c, SessionFile) /\ c.key = 0 /\ c.alias = a /\ SessionFile \in Files
      BY DEF Selection, Contents, Makes, Files
    <2>2. c.alias = SessionFile \/ kept[c.alias] # 0 \/ shared # {}
      <3> SUFFICES ASSUME shared = {}, a # SessionFile PROVE kept[a] # 0
        BY <2>1
      <3>1. names[Json(a)] # 0
        BY <1>2 DEF Select, Loads, IsIdentity, Parses
      <3> QED
        BY <3>1 DEF KeyringInv, KeptIsThere, Files
    <2>3. holder[p].at = "idle" /\ UNCHANGED <<inodes, names, kept, shared>>
          /\ holder' = [holder EXCEPT ![p] = [at |-> "open", file |-> SessionFile, content |-> c, inode |-> 0]]
      BY <1>2 DEF Select
    <2> HIDE DEF c, Files, Contents, Makes, SessionFile
    <2> QED
      BY <2>1, <2>2, <2>3, BeginsWriting
  <1> QED
    BY <1>1, <1>2

\* What holds of a writer and what it writes.
LEMMA WriterTyped ==
  ASSUME KeyringInv, NEW p \in Holder
  PROVE  /\ holder[p].file \in Files /\ holder[p].content \in Contents
         /\ holder[p].at \in {"idle", "open", "write", "rename"}
         /\ Opened(p) => holder[p].inode \in FileNumbers
         /\ ~Opened(p) => holder[p].inode = 0
         /\ holder[p].at # "idle" => Makes(holder[p].content, holder[p].file)
  <1> HIDE DEF Files, Contents, FileNumbers
  <1> QED
    BY FileNumbersExist DEF KeyringInv, KeyringTyped, WritersHaveFiles

\* fs::write opens the temporary file.
LEMMA OpenSound == ASSUME KeyringInv, NEW p \in Holder, OpenTmp(p) PROVE KeyringInv'
  <1> DEFINE f == holder[p].file
             t == Tmp(f)
             i == IF names[t] # 0 THEN names[t] ELSE CHOOSE j \in Unused : TRUE
  <1>1. f \in Files /\ t \in Entries
    BY WriterTyped, TmpJson
  <1>2. holder[p].at = "open" /\ holder[p].inode = 0
    BY WriterTyped DEF OpenTmp, Opened
  <1>3. i \in FileNumbers /\ (i = names[t] \/ i \in Unused)
    <2>1. names[t] \in FileNumbers \cup {0}
      <3> HIDE DEF FileNumbers, t, Entries
      <3> QED
        BY <1>1 DEF KeyringInv, KeyringTyped
    <2>2. KeyringTyped
      BY DEF KeyringInv
    <2>3. Unused # {} /\ Unused \subseteq FileNumbers
      BY <1>2, <2>2, FileUnused DEF Unused
    <2> QED
      BY <2>1, <2>3
  <1>4. /\ inodes' = [inodes EXCEPT ![i] = NoBytes]
        /\ names' = [names EXCEPT ![t] = i]
        /\ holder' = [holder EXCEPT ![p].at = "write", ![p].inode = i]
        /\ shared' = shared \cup {f : q \in {q \in Holder \ {p} : Writing(q) /\ holder[q].file = f}}
        /\ kept' = kept
    BY DEF OpenTmp
  <1> HIDE DEF i, t, f
  <1> HIDE DEF Entries, FileNumbers, Files, Contents
  <1>5. KeyringTyped'
    <2>1. shared' \in SUBSET Files
      BY <1>1, <1>4 DEF KeyringInv, KeyringTyped
    <2>2. NoBytes \in Contents
      BY DEF NoBytes, Contents
    <2> QED
      BY <1>1, <1>3, <1>4, <2>1, <2>2 DEF KeyringInv, KeyringTyped
  <1>6. /\ \A q \in Holder \ {p} : holder'[q] = holder[q]
        /\ holder'[p].at = "write" /\ holder'[p].inode = i /\ holder'[p].file = f
        /\ holder'[p].content = holder[p].content
        /\ \A n \in Entries \ {t} : names'[n] = names[n]
        /\ names'[t] = i
        /\ \A j \in FileNumbers \ {i} : inodes'[j] = inodes[j]
        /\ inodes'[i] = NoBytes
    BY <1>1, <1>3, <1>4 DEF KeyringInv, KeyringTyped, f
  <1>7. \A n \in Entries \ {t} : names[n] # i
    BY <1>1, <1>3, FileNumbersExist DEF KeyringInv, FilesDiffer, Unused, Used
  <1>8. \A q \in Holder : Opened(q) /\ holder[q].inode = i => holder[q].file = f
    <2> SUFFICES ASSUME NEW q \in Holder, Opened(q), holder[q].inode = i PROVE holder[q].file = f
      OBVIOUS
    <2>1. i = names[t]
      BY <1>3 DEF Unused, Used
    <2>2. t \in {Tmp(holder[q].file), Json(holder[q].file)}
      BY <1>1, <2>1 DEF KeyringInv, FilesDiffer
    <2> QED
      BY <1>1, <2>2, WriterTyped, TmpJson DEF t
  <1>9. WritersHaveFiles'
    BY <1>2, <1>3, <1>6, FileNumbersExist DEF KeyringInv, WritersHaveFiles, Opened, Makes, f
  <1>10. FilesDiffer'
    <2>1. \A m, n \in Entries : names'[m] = names'[n] /\ names'[m] # 0 => m = n
      BY <1>1, <1>6, <1>7 DEF KeyringInv, FilesDiffer
    <2>2. ASSUME NEW q \in Holder, NEW n \in Entries, Opened(q)', names'[n] = holder'[q].inode
          PROVE  n \in {Tmp(holder'[q].file), Json(holder'[q].file)}
      <3>1. CASE q = p
        BY <1>6, <1>7, <2>2, <3>1 DEF t
      <3>2. CASE q # p /\ n = t
        BY <1>6, <1>8, <2>2, <3>2 DEF t, Opened
      <3>3. CASE q # p /\ n # t
        BY <1>6, <2>2, <3>3 DEF KeyringInv, FilesDiffer, Opened
      <3> QED
        BY <3>1, <3>2, <3>3
    <2>3. \A q, r \in Holder : (Opened(q) /\ Opened(r))' /\ holder'[q].inode = holder'[r].inode
                                  => holder'[q].file = holder'[r].file
      BY <1>6, <1>8 DEF KeyringInv, FilesDiffer, Opened
    <2> QED
      BY <2>1, <2>2, <2>3 DEF FilesDiffer
  <1>11. \A q \in Holder \ {p} : Opened(q) /\ holder[q].file = f => f \in shared'
    BY <1>4 DEF Opened, Writing
  <1>16. shared \subseteq shared'
    BY <1>4
  <1>12. WritesAlone'
    <2> SUFFICES ASSUME NEW q \in Holder, Opened(q)', holder'[q].file \notin shared'
                 PROVE  /\ names'[Tmp(holder'[q].file)] = holder'[q].inode
                        /\ inodes'[holder'[q].inode] = IF holder'[q].at = "write" THEN NoBytes ELSE holder'[q].content
                        /\ \A r \in Holder : Opened(r)' /\ holder'[r].file = holder'[q].file => r = q
      BY DEF WritesAlone
    <2>1. CASE q = p
      BY <1>6, <1>11, <2>1 DEF t, Opened
    <2>2. CASE q # p
      <3>1. Opened(q) /\ holder[q].file # f /\ holder[q].file \notin shared
        BY <1>6, <1>11, <1>16, <2>2 DEF Opened
      <3>2. holder[q].inode # i /\ holder[q].inode \in FileNumbers
        BY <1>8, <3>1, WriterTyped
      <3>3. Tmp(holder[q].file) \in Entries \ {t}
        BY <1>1, <3>1, WriterTyped, TmpJson DEF t
      <3> QED
        BY <1>6, <2>2, <3>1, <3>2, <3>3 DEF KeyringInv, WritesAlone, Opened
    <2> QED
      BY <2>1, <2>2
  <1>13. \A g \in Files : names'[Json(g)] = names[Json(g)] /\ names[Json(g)] # i
                           /\ names[Json(g)] \in FileNumbers \cup {0}
    BY <1>1, <1>6, <1>7, TmpJson DEF t, KeyringInv, KeyringTyped
  <1>14. KeptIsThere'
    BY <1>4, <1>6, <1>13 DEF KeyringInv, KeptIsThere
  <1>15. SelectedWasMade'
    <2>1. shared' = {} => shared = {}
      BY <1>4
    <2>2. \A c \in {holder'[q].content : q \in Holder} \cup {inodes'[j] : j \in FileNumbers} :
             c = NoBytes \/ c \in {holder[q].content : q \in Holder} \cup {inodes[j] : j \in FileNumbers}
      BY <1>6
    <2>3. NoBytes.alias \notin Aliases
      BY KeyringAssumption DEF NoBytes
    <2> QED
      BY <1>4, <2>1, <2>2, <2>3 DEF KeyringInv, SelectedWasMade
  <1> QED
    BY <1>5, <1>9, <1>10, <1>12, <1>14, <1>15 DEF KeyringInv

\* Two that write the same file: their name is shared.
LEMMA OneWriter ==
  ASSUME KeyringInv, NEW p \in Holder, NEW q \in Holder, Opened(p), Opened(q),
         holder[p].inode = holder[q].inode, holder[p].file \notin shared
  PROVE  p = q
  BY DEF KeyringInv, FilesDiffer, WritesAlone

\* What a writer has open is never what an alias is loaded from.
LEMMA NotTheTarget ==
  ASSUME KeyringInv, NEW p \in Holder, Opened(p), NEW g \in Files \ shared
  PROVE  names[Json(g)] # holder[p].inode
  <1> SUFFICES ASSUME names[Json(g)] = holder[p].inode PROVE FALSE
    OBVIOUS
  <1>1. holder[p].file = g
    <2>1. Json(g) \in {Tmp(holder[p].file), Json(holder[p].file)}
      BY TmpJson DEF KeyringInv, FilesDiffer
    <2> QED
      BY <2>1, TmpJson, WriterTyped
  <1>2. names[Tmp(g)] = holder[p].inode
    BY <1>1 DEF KeyringInv, WritesAlone
  <1>3. holder[p].inode # 0
    BY WriterTyped, FileNumbersExist
  <1> QED
    BY <1>2, <1>3, TmpJson DEF KeyringInv, FilesDiffer

\* ... and fills it.
LEMMA WriteSound == ASSUME KeyringInv, NEW p \in Holder, WriteTmp(p) PROVE KeyringInv'
  <1> DEFINE i == holder[p].inode
  <1> HIDE DEF Entries, FileNumbers, Files, Contents
  <1>1. PICK c \in {holder[p].content} \cup (IF inodes[i] = NoBytes THEN {} ELSE {Mixed}) :
          inodes' = [inodes EXCEPT ![i] = c]
    BY DEF WriteTmp
  <1>2. Opened(p) /\ i \in FileNumbers /\ holder[p].at = "write"
    BY WriterTyped DEF WriteTmp, Opened
  <1>3. holder' = [holder EXCEPT ![p].at = "rename"] /\ UNCHANGED <<names, kept, shared>>
    BY DEF WriteTmp
  <1> HIDE DEF i
  <1>4. c \in Contents /\ (c = holder[p].content \/ c = Mixed)
    BY <1>1, WriterTyped DEF Mixed, Contents
  <1>5. KeyringTyped'
    BY <1>1, <1>2, <1>3, <1>4 DEF KeyringInv, KeyringTyped
  <1>6. /\ \A q \in Holder \ {p} : holder'[q] = holder[q]
        /\ holder'[p].at = "rename" /\ holder'[p].inode = i /\ holder'[p].file = holder[p].file
        /\ holder'[p].content = holder[p].content
        /\ \A j \in FileNumbers \ {i} : inodes'[j] = inodes[j]
        /\ inodes'[i] = c
    BY <1>1, <1>2, <1>3 DEF KeyringInv, KeyringTyped, i
  <1>7. \A q \in Holder : Opened(q)' <=> Opened(q)
    BY <1>2, <1>6 DEF Opened
  <1>8. WritersHaveFiles'
    BY <1>2, <1>6, <1>7 DEF KeyringInv, WritersHaveFiles, i
  <1>9. FilesDiffer'
    BY <1>2, <1>3, <1>6, <1>7 DEF KeyringInv, FilesDiffer, i
  <1>10. WritesAlone'
    <2> SUFFICES ASSUME NEW q \in Holder, Opened(q)', holder'[q].file \notin shared'
                 PROVE  /\ names'[Tmp(holder'[q].file)] = holder'[q].inode
                        /\ inodes'[holder'[q].inode] = IF holder'[q].at = "write" THEN NoBytes ELSE holder'[q].content
                        /\ \A r \in Holder : Opened(r)' /\ holder'[r].file = holder'[q].file => r = q
      BY DEF WritesAlone
    <2>1. CASE q = p
      <3>1. inodes[i] = NoBytes
        BY <1>2, <1>3, <1>6, <2>1 DEF KeyringInv, WritesAlone, i
      <3>2. c = holder[p].content
        BY <1>1, <3>1
      <3> QED
        BY <1>2, <1>3, <1>6, <1>7, <2>1, <3>2 DEF KeyringInv, WritesAlone, i
    <2>2. CASE q # p
      <3>1. Opened(q) /\ holder'[q] = holder[q] /\ holder[q].file \notin shared
        BY <1>3, <1>6, <1>7, <2>2
      <3>2. holder[q].inode # i /\ holder[q].inode \in FileNumbers
        BY <1>2, <2>2, <3>1, OneWriter, WriterTyped DEF i
      <3> QED
        BY <1>3, <1>6, <1>7, <2>2, <3>1, <3>2 DEF KeyringInv, WritesAlone
    <2> QED
      BY <2>1, <2>2
  <1>11. KeptIsThere'
    <2>1. \A g \in Files \ shared : names[Json(g)] # i /\ names[Json(g)] \in FileNumbers \cup {0}
      BY <1>2, NotTheTarget, TmpJson DEF KeyringInv, KeyringTyped, i
    <2> QED
      BY <1>3, <1>6, <2>1 DEF KeyringInv, KeptIsThere
  <1>12. SelectedWasMade'
    <2>1. \A d \in {holder'[q].content : q \in Holder} \cup {inodes'[j] : j \in FileNumbers} :
             d = Mixed \/ d \in {holder[q].content : q \in Holder} \cup {inodes[j] : j \in FileNumbers}
      BY <1>4, <1>6
    <2>2. Mixed.alias \notin Aliases
      BY KeyringAssumption DEF Mixed
    <2> QED
      BY <1>3, <2>1, <2>2 DEF KeyringInv, SelectedWasMade
  <1> QED
    BY <1>5, <1>8, <1>9, <1>10, <1>11, <1>12 DEF KeyringInv

\* What nobody names or holds is gone.
LEMMA Swept ==
  ASSUME Sweep
  PROVE  \A i \in FileNumbers : inodes'[i] = IF i \in Used(names', holder') THEN inodes[i] ELSE NoBytes
  BY DEF Sweep

\* A writer is killed, or finds nothing to rename.
LEMMA LeaveSound ==
  ASSUME KeyringInv, NEW p \in Holder, holder' = [holder EXCEPT ![p] = NotWriting],
         Sweep, UNCHANGED <<names, kept, shared>>
  PROVE  KeyringInv'
  <1> HIDE DEF Entries, FileNumbers, Files, Contents
  <1>1. /\ \A q \in Holder \ {p} : holder'[q] = holder[q]
        /\ holder'[p] = NotWriting
    BY DEF KeyringInv, KeyringTyped
  <1>2. \A j \in FileNumbers : inodes'[j] = inodes[j] \/ inodes'[j] = NoBytes
    BY Swept
  <1>3. \A n \in Entries : names[n] # 0 => names[n] \in FileNumbers /\ inodes'[names[n]] = inodes[names[n]]
    BY Swept DEF KeyringInv, KeyringTyped, Used
  <1>4. \A q \in Holder \ {p} : Opened(q) => holder[q].inode \in FileNumbers
                                             /\ inodes'[holder[q].inode] = inodes[holder[q].inode]
    BY <1>1, Swept, WriterTyped DEF Used
  <1>5. KeyringTyped'
    <2>1. NotWriting \in [at : {"idle", "open", "write", "rename"}, file : Files,
                          content : Contents, inode : FileNumbers \cup {0}]
      BY DEF NotWriting, NoBytes, Files, Contents
    <2>2. inodes' \in [FileNumbers -> Contents]
      <3>1. NoBytes \in Contents
        BY DEF NoBytes, Contents
      <3>2. inodes \in [FileNumbers -> Contents]
        BY DEF KeyringInv, KeyringTyped
      <3> QED
        BY <3>1, <3>2 DEF Sweep
    <2> QED
      BY <2>1, <2>2 DEF KeyringInv, KeyringTyped
  <1>6. ~Opened(p)'
    BY <1>1 DEF NotWriting, Opened
  <1>7. WritersHaveFiles'
    BY <1>1, <1>6 DEF KeyringInv, WritersHaveFiles, NotWriting, Opened
  <1>8. FilesDiffer'
    BY <1>1, <1>6 DEF KeyringInv, FilesDiffer, Opened
  <1>9. WritesAlone'
    BY <1>1, <1>4, <1>6 DEF KeyringInv, WritesAlone, Opened
  <1>10. KeptIsThere'
    BY <1>3, TmpJson DEF KeyringInv, KeptIsThere
  <1>11. SelectedWasMade'
    <2>1. \A c \in {holder'[q].content : q \in Holder} \cup {inodes'[j] : j \in FileNumbers} :
             c = NoBytes \/ c \in {holder[q].content : q \in Holder} \cup {inodes[j] : j \in FileNumbers}
      BY <1>1, <1>2 DEF NotWriting
    <2>2. NoBytes.alias \notin Aliases
      BY KeyringAssumption DEF NoBytes
    <2> QED
      BY <2>1, <2>2 DEF KeyringInv, SelectedWasMade
  <1> QED
    BY <1>5, <1>7, <1>8, <1>9, <1>10, <1>11 DEF KeyringInv

\* The rename: what was written gets its name.
LEMMA RenameSound == ASSUME KeyringInv, NEW p \in Holder, RenameTmp(p) PROVE KeyringInv'
  <1> DEFINE f == holder[p].file
             key == holder[p].content.key
  <1>1. CASE names[Tmp(f)] = 0
    BY <1>1, LeaveSound DEF RenameTmp
  <1>2. CASE names[Tmp(f)] # 0
    <2>1. /\ names' = [n \in Entries |-> IF n = Json(f) THEN names[Tmp(f)] ELSE IF n = Tmp(f) THEN 0 ELSE names[n]]
          /\ kept' = IF key # 0 THEN [kept EXCEPT ![f] = key] ELSE kept
          /\ holder' = [holder EXCEPT ![p] = NotWriting]
          /\ Sweep /\ shared' = shared
          /\ holder[p].at = "rename" /\ Opened(p)
      BY <1>2 DEF RenameTmp, Opened
    <2> HIDE DEF f, key
    <2> HIDE DEF Entries, FileNumbers, Files, Contents
    <2>2. /\ \A q \in Holder \ {p} : holder'[q] = holder[q]
          /\ holder'[p] = NotWriting
      BY <2>1 DEF KeyringInv, KeyringTyped
    <2>3. /\ f \in Files /\ Tmp(f) \in Entries /\ Json(f) \in Entries /\ Tmp(f) # Json(f)
          /\ Makes(holder[p].content, f) /\ holder[p].content \in Contents
      BY <2>1, WriterTyped, TmpJson DEF f
    <2>4. /\ names'[Json(f)] = names[Tmp(f)] /\ names'[Tmp(f)] = 0
          /\ \A n \in Entries \ {Tmp(f), Json(f)} : names'[n] = names[n]
      BY <2>1, <2>3
    <2>5. ~Opened(p)' /\ \A q \in Holder \ {p} : Opened(q)' <=> Opened(q)
      BY <2>2 DEF NotWriting, Opened
    <2>6. \A n \in Entries : names'[n] # 0 => names'[n] \in FileNumbers /\ inodes'[names'[n]] = inodes[names'[n]]
      <3>1. \A n \in Entries : names'[n] \in FileNumbers \cup {0}
        BY <2>1, <2>3 DEF KeyringInv, KeyringTyped
      <3> QED
        BY <2>1, <3>1, Swept DEF Used
    <2>7. \A q \in Holder \ {p} : Opened(q) => holder[q].inode \in FileNumbers
                                               /\ inodes'[holder[q].inode] = inodes[holder[q].inode]
      BY <2>1, <2>2, Swept, WriterTyped DEF Used
    <2>8. KeyringTyped'
      <3>1. NotWriting \in [at : {"idle", "open", "write", "rename"}, file : Files,
                            content : Contents, inode : FileNumbers \cup {0}]
        BY DEF NotWriting, NoBytes, Files, Contents
      <3>2. inodes' \in [FileNumbers -> Contents]
        <4>1. NoBytes \in Contents
          BY DEF NoBytes, Contents
        <4>2. inodes \in [FileNumbers -> Contents]
          BY DEF KeyringInv, KeyringTyped
        <4> QED
          BY <2>1, <4>1, <4>2 DEF Sweep
      <3>3. names' \in [Entries -> FileNumbers \cup {0}]
        BY <2>1, <2>3 DEF KeyringInv, KeyringTyped
      <3>4. key \in Nat
        BY <2>3 DEF key, Contents
      <3>5. kept' \in [Aliases -> Nat]
        BY <2>1, <3>4 DEF KeyringInv, KeyringTyped
      <3> QED
        BY <2>1, <3>1, <3>2, <3>3, <3>5 DEF KeyringInv, KeyringTyped
    <2>9. WritersHaveFiles'
      BY <2>2, <2>5 DEF KeyringInv, WritersHaveFiles, NotWriting
    <2>10. FilesDiffer'
      <3>1. \A m, n \in Entries : names'[m] = names'[n] /\ names'[m] # 0 => m = n
        BY <2>3, <2>4 DEF KeyringInv, FilesDiffer
      <3>2. ASSUME NEW q \in Holder, NEW n \in Entries, Opened(q)', names'[n] = holder'[q].inode
            PROVE  n \in {Tmp(holder'[q].file), Json(holder'[q].file)}
        <4>1. q # p /\ Opened(q) /\ holder'[q] = holder[q] /\ holder[q].inode # 0
          BY <2>2, <2>5, <3>2, WriterTyped, FileNumbersExist
        <4>2. CASE n = Json(f)
          <5>1. Tmp(f) \in {Tmp(holder[q].file), Json(holder[q].file)}
            BY <2>3, <2>4, <3>2, <4>1, <4>2 DEF KeyringInv, FilesDiffer
          <5>2. holder[q].file = f
            BY <2>3, <5>1, WriterTyped, TmpJson
          <5> QED
            BY <4>1, <4>2, <5>2
        <4>3. CASE n = Tmp(f)
          BY <2>4, <3>2, <4>1, <4>3
        <4>4. CASE n \notin {Tmp(f), Json(f)}
          BY <2>4, <3>2, <4>1, <4>4 DEF KeyringInv, FilesDiffer
        <4> QED
          BY <4>2, <4>3, <4>4
      <3>3. \A q, r \in Holder : (Opened(q) /\ Opened(r))' /\ holder'[q].inode = holder'[r].inode
                                    => holder'[q].file = holder'[r].file
        BY <2>2, <2>5 DEF KeyringInv, FilesDiffer
      <3> QED
        BY <3>1, <3>2, <3>3 DEF FilesDiffer
    <2>11. WritesAlone'
      <3> SUFFICES ASSUME NEW q \in Holder, Opened(q)', holder'[q].file \notin shared'
                   PROVE  /\ names'[Tmp(holder'[q].file)] = holder'[q].inode
                          /\ inodes'[holder'[q].inode] = IF holder'[q].at = "write" THEN NoBytes ELSE holder'[q].content
                          /\ \A r \in Holder : Opened(r)' /\ holder'[r].file = holder'[q].file => r = q
        BY DEF WritesAlone
      <3>1. q # p /\ Opened(q) /\ holder'[q] = holder[q] /\ holder[q].file \notin shared
        BY <2>1, <2>2, <2>5
      <3>2. holder[q].file # f
        BY <2>1, <3>1 DEF KeyringInv, WritesAlone, f
      <3>3. Tmp(holder[q].file) \in Entries \ {Tmp(f), Json(f)}
        BY <2>3, <3>2, WriterTyped, TmpJson
      <3> QED
        BY <2>2, <2>4, <2>5, <2>7, <3>1, <3>3 DEF KeyringInv, WritesAlone
    <2>12. KeptIsThere'
      <3> SUFFICES ASSUME NEW g \in Files \ shared
                   PROVE  /\ names'[Json(g)] # 0 => inodes'[names'[Json(g)]] \notin {NoBytes, Mixed}
                          /\ g # SessionFile =>
                               /\ names'[Json(g)] # 0 <=> kept'[g] # 0
                               /\ names'[Json(g)] # 0 => inodes'[names'[Json(g)]] = Identity(g, kept'[g])
        BY <2>1 DEF KeptIsThere
      <3>1. CASE g # f
        <4>1. Json(g) \in Entries \ {Tmp(f), Json(f)}
          BY <2>3, <3>1, TmpJson
        <4>2. kept'[g] = kept[g] \/ g = SessionFile
          BY <2>1, <3>1 DEF KeyringInv, KeyringTyped, Files
        <4> QED
          BY <2>4, <2>6, <4>1, <4>2 DEF KeyringInv, KeptIsThere
      <3>2. CASE g = f
        <4>1. names'[Json(f)] = holder[p].inode /\ inodes[holder[p].inode] = holder[p].content
          BY <2>1, <2>4, <3>2 DEF KeyringInv, WritesAlone, f
        <4>2. inodes'[names'[Json(f)]] = holder[p].content /\ names'[Json(f)] # 0
          BY <1>2, <2>3, <2>4, <2>6, <4>1 DEF f
        <4>3. holder[p].content \notin {NoBytes, Mixed}
          BY <2>3, KeyringAssumption DEF Makes, NoBytes, Mixed
        <4>4. ASSUME f # SessionFile
              PROVE  kept'[f] = key /\ key # 0 /\ holder[p].content = Identity(f, key)
          <5>1. key # 0 /\ holder[p].content.alias = f /\ f \in Aliases
            BY <2>3, <4>4 DEF Makes, key, Files
          <5>2. kept'[f] = key
            BY <2>1, <5>1 DEF KeyringInv, KeyringTyped
          <5>3. holder[p].content = Identity(f, key)
            BY <2>3, <5>1 DEF Contents, Identity, key
          <5> QED
            BY <5>1, <5>2, <5>3
        <4> QED
          BY <3>2, <4>2, <4>3, <4>4
      <3> QED
        BY <3>1, <3>2
    <2>13. SelectedWasMade'
      <3>1. \A c \in {holder'[q].content : q \in Holder} \cup {inodes'[j] : j \in FileNumbers} :
               c = NoBytes \/ c \in {holder[q].content : q \in Holder} \cup {inodes[j] : j \in FileNumbers}
        BY <2>1, <2>2, Swept DEF NotWriting
      <3>2. NoBytes.alias \notin Aliases
        BY KeyringAssumption DEF NoBytes
      <3>3. \A a \in Aliases : kept[a] # 0 => kept'[a] # 0
        BY <2>1 DEF KeyringInv, KeyringTyped
      <3> QED
        BY <2>1, <3>1, <3>2, <3>3 DEF KeyringInv, SelectedWasMade
    <2> QED
      BY <2>8, <2>9, <2>10, <2>11, <2>12, <2>13 DEF KeyringInv
  <1> QED
    BY <1>1, <1>2

\* Every step.
LEMMA KeyringInvStep == KeyringInv /\ [KeyringNext]_keyringVars => KeyringInv'
  <1> SUFFICES ASSUME KeyringInv, [KeyringNext]_keyringVars PROVE KeyringInv'
    OBVIOUS
  <1>1. CASE UNCHANGED keyringVars
    <2> HIDE DEF Entries, FileNumbers, Files, Contents
    <2> QED
      BY <1>1 DEF keyringVars, KeyringInv, KeyringTyped, WritersHaveFiles, FilesDiffer, WritesAlone, KeptIsThere,
                  SelectedWasMade, Opened
  <1>2. ASSUME NEW p \in Holder, Kill(p) PROVE KeyringInv'
    BY <1>2, LeaveSound DEF Kill
  <1> QED
    BY <1>1, <1>2, CommandsSound, OpenSound, WriteSound, RenameSound DEF KeyringNext

\* An identity generated under an alias can be loaded and is trusted, the selected one
\* can be loaded, and no file is half written, for any processes, kills and aliases,
\* as long as no two write the same file (atomic_write, IdentityManager).
THEOREM IdentitiesAlwaysKept == KeyringSpec => []IdentitiesAreKept
  <1>1. ASSUME KeyringInv PROVE IdentitiesAreKept
    <2>1. \A f \in Files \ shared : names[Json(f)] # 0 => Parses(Json(f))
      BY <1>1 DEF KeyringInv, KeptIsThere, Parses
    <2>2. ASSUME NEW f \in Aliases \ (shared \cup {SessionFile}), kept[f] # 0 \/ names[Json(f)] # 0
          PROVE  Loads(f) /\ IsIdentity(Json(f)) /\ Content(Json(f)).key = kept[f] /\ kept[f] # 0
      <3>1. names[Json(f)] # 0 /\ inodes[names[Json(f)]] = Identity(f, kept[f]) /\ Parses(Json(f)) /\ kept[f] # 0
        BY <1>1, <2>1, <2>2 DEF KeyringInv, KeptIsThere, Files
      <3> HIDE DEF Parses
      <3> QED
        BY <3>1 DEF Loads, IsIdentity, Content, Identity
    <2>3. ASSUME shared = {}, NEW a \in Aliases \ {SessionFile}, kept[a] # 0 PROVE Trusted(kept[a])
      <3>1. a \in Listed
        BY <1>1, <2>3 DEF Listed, KeyringInv, KeptIsThere, Files
      <3>2. \A b \in Listed : IsIdentity(Json(b))
        BY <2>2, <2>3 DEF Listed
      <3>3. Content(Json(a)).key = kept[a]
        BY <2>2, <2>3
      <3> QED
        BY <3>1, <3>2, <3>3 DEF Trusted
    <2>4. ASSUME shared = {}, Parses(Json(SessionFile)), ~IsIdentity(Json(SessionFile)),
                 Content(Json(SessionFile)).alias # SessionFile
          PROVE  Loads(Content(Json(SessionFile)).alias)
      <3> DEFINE c == Content(Json(SessionFile))
      <3>1. names[Json(SessionFile)] \in FileNumbers
        <4> HIDE DEF FileNumbers, Entries
        <4> QED
          BY <1>1, <2>4, TmpJson DEF Parses, KeyringInv, KeyringTyped, Files
      <3>2. c \in Contents /\ c \in {inodes[i] : i \in FileNumbers} /\ c \notin {NoBytes, Mixed}
        BY <1>1, <2>4, <3>1 DEF Parses, Content, KeyringInv, KeyringTyped
      <3>3. c.key = 0
        BY <2>4 DEF IsIdentity
      <3>4. c.alias \in Aliases
        BY <3>2, <3>3 DEF Contents, NoBytes, Mixed
      <3> HIDE DEF c
      <3>5. kept[c.alias] # 0
        BY <1>1, <2>4, <3>2, <3>3, <3>4 DEF KeyringInv, SelectedWasMade, c
      <3> QED
        BY <2>2, <2>4, <3>4, <3>5 DEF c
    <2> QED
      BY <2>1, <2>2, <2>3, <2>4 DEF IdentitiesAreKept, Files
  <1> QED
    BY <1>1, KeyringInvInit, KeyringInvStep, PTL DEF KeyringSpec
-----------------------------------------------------------------------------
(* Bisect.                                                                   *)

\* What a save, or a reset, has left to do after each of its file operations.
Save6 == <<"dropnew", "rotate", "publish", "dropbak", "finalize", "unmark">>
Save5 == <<"rotate", "publish", "dropbak", "finalize", "unmark">>
Save4 == <<"publish", "dropbak", "finalize", "unmark">>
Save3 == <<"dropbak", "finalize", "unmark">>
Save2 == <<"finalize", "unmark">>
Save1 == <<"unmark">>
Rename2 == <<"publish", "unmark">>
Reset4 == <<"mark", "dropbin", "dropbak2", "dropnew">>
Reset3 == <<"dropbin", "dropbak2", "dropnew">>
Reset2 == <<"dropbak2", "dropnew">>
Reset1 == <<"dropnew">>

\* A session that may be stored: its marks agree with the tests.
IsSession(s, bad) ==
  /\ s = [candidates |-> s.candidates, find_good |-> s.find_good, marks |-> s.marks, current |-> s.current]
  /\ s.candidates # {} /\ s.find_good \in BOOLEAN
  /\ \A x \in s.candidates : /\ s.marks[x] = "bad" => x \in bad
                             /\ s.marks[x] = "good" => x \notin bad

\* Every file is a session, or is not there.
SessionFiles ==
  /\ DOMAIN files = Paths /\ deaths \in Nat
  /\ files["marker"] \in {NoFile, NoSession}
  /\ \A p \in {"bin", "bak", "new"} : files[p] = NoFile \/ IsSession(files[p], guilty)

\* Before anybody has died: where no command is at work there is one session at
\* most besides a backup, and none besides the marker of a reset.
Settled ==
  deaths = 0 => /\ files["new"] = NoFile
                /\ files["bin"] = NoFile => files["bak"] = NoFile
                /\ files["marker"] # NoFile => files["bin"] = NoFile

\* The session a command has found is still the one to be found.
StillFound == deaths = 0 => load_state = before

\* The new session is in place; behind a marker there was none before.
Published ==
  /\ IsSession(target, guilty) /\ files["bin"] = target
  /\ deaths = 0 /\ files["marker"] # NoFile => before = NoSession

\* The marker hides whatever is left of the session.
Hidden == target = NoSession /\ files["marker"] # NoFile

\* What holds after each file operation.
Stage ==
  \/ todo = <<>> /\ Settled
  \/ todo \in {Save6, Save5, Rename2} /\ IsSession(target, guilty) /\ Settled /\ StillFound
  \/ todo = Save4 /\ IsSession(target, guilty) /\ StillFound
  \/ todo \in {Save3, Save2} /\ Published
  \/ todo = Save1 /\ Published /\ (deaths = 0 => files["new"] = NoFile)
  \/ todo = Reset4 /\ target = NoSession /\ Settled /\ StillFound
  \/ todo = Reset3 /\ Hidden
  \/ todo = Reset2 /\ Hidden /\ files["bin"] = NoFile
  \/ todo = Reset1 /\ Hidden /\ files["bin"] = NoFile /\ files["bak"] = NoFile

\* The inductive invariant.
BisectInv == SessionFiles /\ Stage

\* A session is neither of the two that stand for none.
LEMMA SessionsDiffer ==
  /\ NoSession # NoFile
  /\ \A s, bad : IsSession(s, bad) => s # NoFile /\ s # NoSession
  <1>1. NoSession.find_good = FALSE /\ NoFile.find_good = TRUE
    BY DEF NoSession, NoFile
  <1>2. NoSession.candidates = {} /\ NoFile.candidates = {}
    BY DEF NoSession, NoFile
  <1> QED
    BY <1>1, <1>2 DEF IsSession

\* The steps of a save or a reset, in turn.
LEMMA StepsInTurn ==
  /\ Head(Save6) = "dropnew" /\ Tail(Save6) = Save5 /\ Save6 # <<>>
  /\ Head(Save5) = "rotate" /\ Tail(Save5) = Save4 /\ Save5 # <<>>
  /\ Head(Save4) = "publish" /\ Tail(Save4) = Save3 /\ Save4 # <<>>
  /\ Head(Save3) = "dropbak" /\ Tail(Save3) = Save2 /\ Save3 # <<>>
  /\ Head(Save2) = "finalize" /\ Tail(Save2) = Save1 /\ Save2 # <<>>
  /\ Head(Save1) = "unmark" /\ Tail(Save1) = <<>> /\ Save1 # <<>>
  /\ Head(Rename2) = "publish" /\ Tail(Rename2) = Save1 /\ Rename2 # <<>>
  /\ Head(Reset4) = "mark" /\ Tail(Reset4) = Reset3 /\ Reset4 # <<>>
  /\ Head(Reset3) = "dropbin" /\ Tail(Reset3) = Reset2 /\ Reset3 # <<>>
  /\ Head(Reset2) = "dropbak2" /\ Tail(Reset2) = Reset1 /\ Reset2 # <<>>
  /\ Head(Reset1) = "dropnew" /\ Tail(Reset1) = <<>> /\ Reset1 # <<>>
  BY DEF Save6, Save5, Save4, Save3, Save2, Save1, Rename2, Reset4, Reset3, Reset2, Reset1

\* Which file a process reads the session from.
LoadsFrom ==
  /\ files["marker"] # NoFile => load_state = NoSession
  /\ files["marker"] = NoFile /\ files["bin"] # NoFile => load_state = files["bin"]
  /\ files["marker"] = NoFile /\ files["bin"] = NoFile /\ files["new"] # NoFile => load_state = files["new"]
  /\ files["marker"] = NoFile /\ files["bin"] = NoFile /\ files["new"] = NoFile =>
       load_state = IF files["bak"] # NoFile THEN files["bak"] ELSE NoSession

\* It is so in every state, and in the next one.
LEMMA AlwaysLoads == LoadsFrom /\ LoadsFrom'
  BY DEF LoadsFrom, load_state

\* What a process reads is a session whose marks agree with the tests, or none.
LEMMA LoadedIsSession ==
  ASSUME SessionFiles PROVE load_state = NoSession \/ IsSession(load_state, guilty)
  BY AlwaysLoads DEF SessionFiles, LoadsFrom

\* What a file operation leaves in each file.
LEMMA Effects ==
  ASSUME DOMAIN files = Paths
  PROVE  /\ \A op \in {"dropnew", "rotate", "publish", "dropbak", "finalize", "unmark", "mark", "dropbin", "dropbak2"} :
              DOMAIN Effect(op) = Paths
         /\ \A p \in Paths :
              /\ Effect("dropnew")[p] = IF p = "new" THEN NoFile ELSE files[p]
              /\ Effect("rotate")[p] = CASE p = "new" /\ files["bin"] # NoFile -> files["bin"]
                                         [] p = "bin" -> NoFile
                                         [] OTHER -> files[p]
              /\ Effect("publish")[p] = IF p = "bin" THEN target ELSE files[p]
              /\ Effect("dropbak")[p] = IF p = "bak" /\ files["new"] # NoFile THEN NoFile ELSE files[p]
              /\ Effect("finalize")[p] = CASE p = "bak" /\ files["new"] # NoFile -> files["new"]
                                           [] p = "new" -> NoFile
                                           [] OTHER -> files[p]
              /\ Effect("unmark")[p] = IF p = "marker" THEN NoFile ELSE files[p]
              /\ Effect("mark")[p] = IF p = "marker" THEN NoSession ELSE files[p]
              /\ Effect("dropbin")[p] = IF p = "bin" THEN NoFile ELSE files[p]
              /\ Effect("dropbak2")[p] = IF p = "bak" THEN NoFile ELSE files[p]
  BY DEF Effect, Paths

\* No session yet.
LEMMA BisectInvInit == BisectInit => BisectInv
  BY DEF BisectInit, BisectInv, SessionFiles, Stage, Settled, Paths

\* A command that saves a session with true marks begins.
LEMMA SaveBegins ==
  ASSUME BisectInv, NEW s, IsSession(s, guilty), Idle, Run(save_state, s)
  PROVE  BisectInv'
  <1>1. /\ todo = <<>> /\ Settled /\ target' = s /\ before' = load_state
        /\ UNCHANGED <<guilty, files, deaths>>
    BY StepsInTurn DEF BisectInv, Stage, Idle, Run
  <1>2. todo' \in {Save6, Rename2}
    BY DEF Run, save_state, Save6, Rename2
  <1>3. Settled' /\ StillFound' /\ SessionFiles'
    BY <1>1 DEF Settled, StillFound, load_state, BisectInv, SessionFiles
  <1> QED
    BY <1>1, <1>2, <1>3 DEF BisectInv, Stage

\* A range is chosen: nothing is marked.
LEMMA StartStep == ASSUME BisectInv, BisectStart PROVE BisectInv'
  <1>1. PICK range \in (SUBSET ChangeIds) \ {{}}, flip \in BOOLEAN :
          LET s == [candidates |-> range, find_good |-> flip,
                    marks |-> [x \in range |-> "untested"], current |-> 0]
              t == [s EXCEPT !.current = select_next(GraphOf(ChangeIds), s)]
          IN Run(save_state, t)
    BY DEF BisectStart
  <1> DEFINE s == [candidates |-> range, find_good |-> flip,
                   marks |-> [x \in range |-> "untested"], current |-> 0]
             c == select_next(GraphOf(ChangeIds), s)
             t == [candidates |-> range, find_good |-> flip,
                   marks |-> [x \in range |-> "untested"], current |-> c]
  <1>2. IsSession(t, guilty)
    <2>1. /\ t.candidates = range /\ t.find_good = flip /\ t.marks = [x \in range |-> "untested"]
          /\ t = [candidates |-> t.candidates, find_good |-> t.find_good, marks |-> t.marks, current |-> t.current]
      OBVIOUS
    <2> HIDE DEF t
    <2>2. ASSUME NEW x \in t.candidates PROVE t.marks[x] # "bad" /\ t.marks[x] # "good"
      <3>1. t.marks[x] = "untested"
        BY <2>1
      <3> QED
        BY <3>1
    <2>3. t.candidates # {}
      <3>1. range # {}
        OBVIOUS
      <3> QED
        BY <2>1, <3>1
    <2>4. t.find_good \in BOOLEAN
      BY <2>1, Zenon
    <2> QED
      BY <2>1, <2>2, <2>3, <2>4, Zenon DEF IsSession
  <1>3. Idle
    BY DEF BisectStart
  <1>4. Run(save_state, t)
    <2>1. Run(save_state, [s EXCEPT !.current = c])
      BY <1>1
    <2>2. [s EXCEPT !.current = c] = t
      <3> HIDE DEF c
      <3> QED
        OBVIOUS
    <2> HIDE DEF s, t, c
    <2> QED
      BY <2>1, <2>2
  <1> HIDE DEF t
  <1> QED
    BY <1>2, <1>3, <1>4, SaveBegins

\* On a graph without edges a walk does not get away from where it starts.
LEMMA NoEdges == ASSUME NEW g, NEW hs, g.edges = Empty PROVE ancestors(g, hs) = hs
  <1> DEFINE m == Cardinality(ChangeIds)
             level(L, n) == IF n = 0 THEN hs
                            ELSE LET seen == L[n - 1] IN seen \cup UNION {At(g.edges, x) : x \in seen}
             IsLevels(L) == L = [n \in 0..m |-> level(L, n)]
             K == [n \in 0..m |-> hs]
  <1>1. m \in Nat
    BY BisectAssumption, FS_CardinalityType
  <1>2. \A x : At(g.edges, x) = {}
    BY DEF At, Empty
  <1>3. \A s : s \cup UNION {At(g.edges, x) : x \in s} = s
    BY <1>2
  <1>4. \A n \in 0..m : level(K, n) = hs
    BY <1>1, <1>3
  <1>5. \E L : IsLevels(L)
    <2>1. K = [n \in 0..m |-> level(K, n)]
      <3> HIDE DEF level, m
      <3> QED
        BY <1>4
    <2> QED
      BY <2>1
  <1> DEFINE Level == CHOOSE L : IsLevels(L)
  <1>6. IsLevels(Level)
    BY <1>5
  <1>7. ancestors(g, hs) = Level[m]
    BY DEF ancestors
  <1> HIDE DEF Level
  <1> DEFINE S == {n \in 0..m : Level[n] = hs}
  <1>8. 0 \in S
    BY <1>1, <1>6
  <1>9. ASSUME NEW n \in 1..m, n - 1 \in S PROVE n \in S
    <2>1. n \in 0..m /\ n # 0
      BY <1>1
    <2>2. Level[n] = Level[n - 1] \cup UNION {At(g.edges, x) : x \in Level[n - 1]}
      BY <1>6, <2>1
    <2> QED
      BY <1>3, <1>9, <2>1, <2>2
  <1> HIDE DEF S, m
  <1>10. 0..m \subseteq S
    BY <1>1, <1>8, <1>9, UpToInduction
  <1> QED
    BY <1>1, <1>7, <1>10 DEF S

\* A mark made by a fresh process is on the change that was tested, and on no other.
LEMMA FreshSpreads == \A id, m : Spread(Fresh, id, m) = {id}
  <1>1. Fresh.edges = Empty /\ [Fresh EXCEPT !.edges = Fresh.rev].edges = Empty
    BY DEF Fresh, NoGraph
  <1> QED
    BY <1>1, NoEdges DEF Spread

\* A session with other marks and another change to test.
LEMMA SessionWith ==
  ASSUME NEW s, NEW marks, NEW current,
         s = [candidates |-> s.candidates, find_good |-> s.find_good, marks |-> s.marks, current |-> s.current]
  PROVE  [[s EXCEPT !.marks = marks] EXCEPT !.current = current] =
           [candidates |-> s.candidates, find_good |-> s.find_good, marks |-> marks, current |-> current]
  <1>1. ASSUME NEW a, NEW b, NEW c, NEW d, s = [candidates |-> a, find_good |-> b, marks |-> c, current |-> d]
        PROVE  [[s EXCEPT !.marks = marks] EXCEPT !.current = current] =
                 [candidates |-> a, find_good |-> b, marks |-> marks, current |-> current]
    <2> DEFINE t == [candidates |-> a, find_good |-> b, marks |-> marks, current |-> d]
    <2>1. [s EXCEPT !.marks = marks] = t
      BY <1>1
    <2>2. [t EXCEPT !.current = current] =
            [candidates |-> a, find_good |-> b, marks |-> marks, current |-> current]
      OBVIOUS
    <2> HIDE DEF t
    <2> QED
      BY <2>1, <2>2
  <1> DEFINE a == s.candidates
             b == s.find_good
             c == s.marks
             d == s.current
  <1>2. s = [candidates |-> a, find_good |-> b, marks |-> c, current |-> d]
    OBVIOUS
  <1> HIDE DEF a, b, c, d
  <1>3. [[s EXCEPT !.marks = marks] EXCEPT !.current = current] =
          [candidates |-> a, find_good |-> b, marks |-> marks, current |-> current]
    BY <1>1, <1>2
  <1> QED
    BY <1>3 DEF a, b

\* The user's word, swapped twice with find_good, is the result of the test.
LEMMA MarkStep == ASSUME BisectInv, BisectMark PROVE BisectInv'
  <1> DEFINE s == load_state
             said == IF (s.current \in guilty) # s.find_good THEN "bad" ELSE "good"
             m == internal_mark(s, said)
             t == mark(Fresh, s, s.current, m)
             next == select_next(Fresh, t)
             u == [t EXCEPT !.current = next]
  <1>1. /\ s # NoSession /\ Idle /\ Run(save_state, u)
    BY DEF BisectMark
  <1>2. IsSession(s, guilty)
    BY <1>1, LoadedIsSession DEF BisectInv
  <1>3. m = IF s.current \in guilty THEN "bad" ELSE "good"
    <2>1. s.find_good \in BOOLEAN
      BY <1>2 DEF IsSession
    <2>2. CASE s.find_good = TRUE /\ s.current \in guilty
      BY <2>2 DEF internal_mark, Opposite
    <2>3. CASE s.find_good = TRUE /\ s.current \notin guilty
      BY <2>3 DEF internal_mark, Opposite
    <2>4. CASE s.find_good = FALSE /\ s.current \in guilty
      BY <2>4 DEF internal_mark, Opposite
    <2>5. CASE s.find_good = FALSE /\ s.current \notin guilty
      <3>1. (s.current \in guilty) = FALSE
        BY <2>5
      <3>2. ((s.current \in guilty) # s.find_good) = (FALSE # FALSE)
        BY <2>5, <3>1, Zenon
      <3>3. said = "good"
        BY <3>2, Zenon
      <3> QED
        BY <2>5, <3>3 DEF internal_mark
    <2> QED
      BY <2>1, <2>2, <2>3, <2>4, <2>5
  <1> HIDE DEF s, m
  <1>4. t = [s EXCEPT !.marks = [x \in s.candidates |-> IF x = s.current THEN m ELSE s.marks[x]]]
    BY FreshSpreads DEF mark
  <1> HIDE DEF t, next
  <1>5. u = [candidates |-> s.candidates, find_good |-> s.find_good,
             marks |-> [x \in s.candidates |-> IF x = s.current THEN m ELSE s.marks[x]], current |-> next]
    <2>1. s = [candidates |-> s.candidates, find_good |-> s.find_good, marks |-> s.marks, current |-> s.current]
      BY <1>2 DEF IsSession
    <2> QED
      <3> DEFINE marks == [x \in s.candidates |-> IF x = s.current THEN m ELSE s.marks[x]]
      <3>1. u = [[s EXCEPT !.marks = marks] EXCEPT !.current = next]
        BY <1>4
      <3> HIDE DEF marks, u
      <3>2. u = [candidates |-> s.candidates, find_good |-> s.find_good, marks |-> marks, current |-> next]
        BY <2>1, <3>1, SessionWith
      <3> QED
        BY <3>2 DEF marks
  <1> HIDE DEF u
  <1>6. /\ u.candidates = s.candidates /\ u.find_good = s.find_good
        /\ u.marks = [x \in s.candidates |-> IF x = s.current THEN m ELSE s.marks[x]]
        /\ u = [candidates |-> u.candidates, find_good |-> u.find_good, marks |-> u.marks, current |-> u.current]
    BY <1>5
  <1>7. IsSession(u, guilty)
    BY <1>2, <1>3, <1>6 DEF IsSession
  <1> QED
    BY <1>1, <1>7, SaveBegins

\* A reset begins with a session.
LEMMA ResetStep == ASSUME BisectInv, BisectReset PROVE BisectInv'
  <1>1. /\ todo = <<>> /\ Settled /\ target' = NoSession /\ before' = load_state
        /\ UNCHANGED <<guilty, files, deaths>>
    BY StepsInTurn DEF BisectInv, Stage, BisectReset, Idle, Run
  <1>2. todo' = Reset4
    BY DEF BisectReset, Run, clear_state, Reset4
  <1>3. Settled' /\ StillFound' /\ SessionFiles'
    BY <1>1 DEF Settled, StillFound, load_state, BisectInv, SessionFiles
  <1> QED
    BY <1>1, <1>2, <1>3 DEF BisectInv, Stage

\* A command dies: what it was about, and in which order, is forgotten.
LEMMA DieStep == ASSUME BisectInv, Die PROVE BisectInv'
  <1>1. todo' = <<>> /\ deaths' = deaths + 1 /\ deaths \in Nat /\ UNCHANGED <<guilty, files>>
    BY DEF Die, BisectInv, SessionFiles
  <1>2. deaths' \in Nat /\ deaths' # 0
    BY <1>1
  <1> QED
    BY <1>1, <1>2 DEF BisectInv, SessionFiles, Stage, Settled

-----------------------------------------------------------------------------
(* Bisect: the file operations.                                              *)

\* No file operation stores anything but sessions.
LEMMA WriteKeepsFiles ==
  ASSUME BisectInv, WriteFile PROVE SessionFiles' /\ todo \in
    {Save6, Save5, Save4, Save3, Save2, Save1, Rename2, Reset4, Reset3, Reset2, Reset1}
  <1>1. todo # <<>> /\ files' = Effect(Head(todo)) /\ UNCHANGED <<guilty, deaths>>
    BY DEF WriteFile, Idle
  <1>2. todo \in {Save6, Save5, Save4, Save3, Save2, Save1, Rename2, Reset4, Reset3, Reset2, Reset1}
    BY <1>1 DEF BisectInv, Stage
  <1>3. Head(todo) = "publish" => IsSession(target, guilty)
    BY <1>2, StepsInTurn, <1>1 DEF BisectInv, Stage, Published
  <1>4. Head(todo) \in {"dropnew", "rotate", "publish", "dropbak", "finalize", "unmark", "mark", "dropbin", "dropbak2"}
    BY <1>2, StepsInTurn
  <1>5. DOMAIN files = Paths /\ "bin" \in Paths /\ "bak" \in Paths /\ "new" \in Paths /\ "marker" \in Paths
    BY DEF BisectInv, SessionFiles, Paths
  <1>6. DOMAIN files' = Paths
    BY <1>1, <1>4, <1>5, Effects
  <1>7. files'["marker"] \in {NoFile, NoSession}
    BY <1>1, <1>4, <1>5, Effects DEF BisectInv, SessionFiles
  <1>8. ASSUME NEW p \in {"bin", "bak", "new"} PROVE files'[p] \in {files[p], files["bin"], files["new"], NoFile, target}
    BY <1>1, <1>4, <1>5, Effects
  <1>9. ASSUME NEW p \in {"bin", "bak", "new"}, files'[p] = target
        PROVE  files'[p] = NoFile \/ IsSession(files'[p], guilty)
    BY <1>1, <1>3, <1>4, <1>5, <1>9, Effects DEF BisectInv, SessionFiles
  <1>10. \A p \in {"bin", "bak", "new"} : files'[p] = NoFile \/ IsSession(files'[p], guilty)
    BY <1>8, <1>9 DEF BisectInv, SessionFiles
  <1> QED
    BY <1>1, <1>2, <1>6, <1>7, <1>10 DEF BisectInv, SessionFiles

\* Each file operation leads from its stage to the next one, and the last one to
\* the session the command was to leave.
LEMMA WriteStep ==
  ASSUME BisectInv, WriteFile
  PROVE  BisectInv' /\ (todo' = <<>> => load_state' = target')
  <1>1. /\ todo # <<>> /\ files' = Effect(Head(todo)) /\ todo' = Tail(todo)
        /\ UNCHANGED <<guilty, before, target, deaths>>
    BY DEF WriteFile, Idle
  <1>2. SessionFiles /\ SessionFiles' /\ LoadsFrom /\ LoadsFrom'
    BY WriteKeepsFiles, AlwaysLoads DEF BisectInv
  <1>3. DOMAIN files = Paths /\ "bin" \in Paths /\ "bak" \in Paths /\ "new" \in Paths /\ "marker" \in Paths
    BY <1>2 DEF SessionFiles, Paths
  <1>4. target' = target /\ before' = before /\ deaths' = deaths /\ guilty' = guilty
    BY <1>1
  <1>5. CASE todo = Save6 /\ IsSession(target, guilty) /\ Settled /\ StillFound
    <2>1. todo' = Save5 /\ \A p \in Paths : files'[p] = IF p = "new" THEN NoFile ELSE files[p]
      BY <1>1, <1>3, <1>5, Effects, StepsInTurn
    <2>2. /\ files'["new"] = NoFile /\ files'["bin"] = files["bin"]
          /\ files'["bak"] = files["bak"] /\ files'["marker"] = files["marker"]
      BY <1>3, <2>1
    <2>3. Settled' /\ StillFound'
      BY <1>2, <1>4, <1>5, <2>2 DEF Settled, StillFound, LoadsFrom
    <2> QED
      BY <1>2, <1>4, <1>5, <2>1, <2>3, StepsInTurn DEF Stage, BisectInv
  <1>6. CASE todo = Save5 /\ IsSession(target, guilty) /\ Settled /\ StillFound
    <2>1. /\ todo' = Save4
          /\ \A p \in Paths : files'[p] = CASE p = "new" /\ files["bin"] # NoFile -> files["bin"]
                                         [] p = "bin" -> NoFile
                                         [] OTHER -> files[p]
      BY <1>1, <1>3, <1>6, Effects, StepsInTurn
    <2>2. /\ files'["new"] = IF files["bin"] # NoFile THEN files["bin"] ELSE files["new"]
          /\ files'["bin"] = NoFile
          /\ files'["bak"] = files["bak"] /\ files'["marker"] = files["marker"]
      BY <1>3, <2>1
    <2>3. StillFound'
      BY <1>2, <1>4, <1>6, <2>2 DEF Settled, StillFound, LoadsFrom
    <2> QED
      BY <1>2, <1>4, <1>6, <2>1, <2>3, StepsInTurn DEF Stage, BisectInv
  <1>7. CASE todo = Save4 /\ IsSession(target, guilty) /\ StillFound
    <2>1. todo' = Save3 /\ \A p \in Paths : files'[p] = IF p = "bin" THEN target ELSE files[p]
      BY <1>1, <1>3, <1>7, Effects, StepsInTurn
    <2>2. files'["bin"] = target /\ files'["marker"] = files["marker"]
      BY <1>3, <2>1
    <2>3. Published'
      BY <1>2, <1>4, <1>7, <2>2 DEF StillFound, LoadsFrom, Published
    <2> QED
      BY <1>2, <2>1, <2>3, StepsInTurn DEF Stage, BisectInv
  <1>8. CASE todo = Save3 /\ Published
    <2>1. /\ todo' = Save2
          /\ \A p \in Paths : files'[p] = IF p = "bak" /\ files["new"] # NoFile THEN NoFile ELSE files[p]
      BY <1>1, <1>3, <1>8, Effects, StepsInTurn
    <2>2. files'["bin"] = files["bin"] /\ files'["marker"] = files["marker"]
      BY <1>3, <2>1
    <2>3. Published'
      BY <1>4, <1>8, <2>2 DEF Published
    <2> QED
      BY <1>2, <2>1, <2>3, StepsInTurn DEF Stage, BisectInv
  <1>9. CASE todo = Save2 /\ Published
    <2>1. /\ todo' = Save1
          /\ \A p \in Paths : files'[p] = CASE p = "bak" /\ files["new"] # NoFile -> files["new"]
                                         [] p = "new" -> NoFile
                                         [] OTHER -> files[p]
      BY <1>1, <1>3, <1>9, Effects, StepsInTurn
    <2>2. files'["bin"] = files["bin"] /\ files'["marker"] = files["marker"] /\ files'["new"] = NoFile
      BY <1>3, <2>1
    <2>3. Published'
      BY <1>4, <1>9, <2>2 DEF Published
    <2> QED
      BY <1>2, <2>1, <2>2, <2>3, StepsInTurn DEF Stage, BisectInv
  <1>10. CASE todo = Rename2 /\ IsSession(target, guilty) /\ Settled /\ StillFound
    <2>1. todo' = Save1 /\ \A p \in Paths : files'[p] = IF p = "bin" THEN target ELSE files[p]
      BY <1>1, <1>3, <1>10, Effects, StepsInTurn
    <2>2. files'["bin"] = target /\ files'["marker"] = files["marker"] /\ files'["new"] = files["new"]
      BY <1>3, <2>1
    <2>3. Published'
      BY <1>2, <1>4, <1>10, <2>2 DEF StillFound, LoadsFrom, Published
    <2>4. deaths' = 0 => files'["new"] = NoFile
      BY <1>4, <1>10, <2>2 DEF Settled
    <2> QED
      BY <1>2, <2>1, <2>3, <2>4, StepsInTurn DEF Stage, BisectInv
  <1>11. CASE todo = Save1 /\ Published /\ (deaths = 0 => files["new"] = NoFile)
    <2>1. todo' = <<>> /\ \A p \in Paths : files'[p] = IF p = "marker" THEN NoFile ELSE files[p]
      BY <1>1, <1>3, <1>11, Effects, StepsInTurn
    <2>2. files'["bin"] = target /\ files'["marker"] = NoFile /\ files'["new"] = files["new"]
      BY <1>3, <1>11, <2>1 DEF Published
    <2>3. target # NoFile
      BY <1>11, SessionsDiffer DEF Published
    <2>4. Settled' /\ load_state' = target'
      BY <1>2, <1>4, <1>11, <2>2, <2>3 DEF Settled, LoadsFrom
    <2> QED
      BY <1>2, <2>1, <2>4 DEF Stage, BisectInv
  <1>12. CASE todo = Reset4 /\ target = NoSession
    <2>1. todo' = Reset3 /\ \A p \in Paths : files'[p] = IF p = "marker" THEN NoSession ELSE files[p]
      BY <1>1, <1>3, <1>12, Effects, StepsInTurn
    <2>2. Hidden'
      BY <1>3, <1>4, <1>12, <2>1, SessionsDiffer DEF Hidden
    <2> QED
      BY <1>2, <2>1, <2>2, StepsInTurn DEF Stage, BisectInv
  <1>13. CASE todo = Reset3 /\ Hidden
    <2>1. todo' = Reset2 /\ \A p \in Paths : files'[p] = IF p = "bin" THEN NoFile ELSE files[p]
      BY <1>1, <1>3, <1>13, Effects, StepsInTurn
    <2>2. Hidden' /\ files'["bin"] = NoFile
      BY <1>3, <1>4, <1>13, <2>1 DEF Hidden
    <2> QED
      BY <1>2, <2>1, <2>2, StepsInTurn DEF Stage, BisectInv
  <1>14. CASE todo = Reset2 /\ Hidden /\ files["bin"] = NoFile
    <2>1. todo' = Reset1 /\ \A p \in Paths : files'[p] = IF p = "bak" THEN NoFile ELSE files[p]
      BY <1>1, <1>3, <1>14, Effects, StepsInTurn
    <2>2. Hidden' /\ files'["bin"] = NoFile /\ files'["bak"] = NoFile
      BY <1>3, <1>4, <1>14, <2>1 DEF Hidden
    <2> QED
      BY <1>2, <2>1, <2>2, StepsInTurn DEF Stage, BisectInv
  <1>15. CASE todo = Reset1 /\ Hidden /\ files["bin"] = NoFile /\ files["bak"] = NoFile
    <2>1. todo' = <<>> /\ \A p \in Paths : files'[p] = IF p = "new" THEN NoFile ELSE files[p]
      BY <1>1, <1>3, <1>15, Effects, StepsInTurn
    <2>2. /\ files'["new"] = NoFile /\ files'["bin"] = NoFile /\ files'["bak"] = NoFile
          /\ files'["marker"] # NoFile /\ target' = NoSession
      BY <1>3, <1>4, <1>15, <2>1 DEF Hidden
    <2>3. Settled' /\ load_state' = target'
      BY <1>2, <2>2 DEF Settled, LoadsFrom
    <2> QED
      BY <1>2, <2>1, <2>3 DEF Stage, BisectInv
  <1>16. Stage
    BY DEF BisectInv
  <1> QED
    BY <1>1, <1>2, <1>5, <1>6, <1>7, <1>8, <1>9, <1>10, <1>11, <1>12, <1>13, <1>14, <1>15, <1>16
    DEF Stage, BisectInv

\* Every step keeps the invariant.
LEMMA BisectInvStep == BisectInv /\ [BisectNext]_bisectVars => BisectInv'
  <1>1. BisectInv /\ UNCHANGED bisectVars => BisectInv'
    BY DEF bisectVars, BisectInv, SessionFiles, Stage, Settled, StillFound, Published, Hidden, load_state
  <1> QED
    BY <1>1, StartStep, MarkStep, ResetStep, WriteStep, DieStep DEF BisectNext

\* A command that dies leaves the session that was or the one that was to be.
LEMMA DeathIsClean == BisectInv /\ Die /\ deaths' <= 1 => load_state \in {before, target}
  <1> SUFFICES ASSUME BisectInv, Die, deaths' <= 1 PROVE load_state \in {before, target}
    OBVIOUS
  <1>1. deaths = 0 /\ todo # <<>> /\ LoadsFrom /\ Stage
    BY AlwaysLoads DEF Die, Idle, BisectInv, SessionFiles
  <1>2. StillFound => load_state = before
    BY <1>1 DEF StillFound
  <1>3. Published => load_state \in {before, target}
    BY <1>1, SessionsDiffer DEF Published, LoadsFrom
  <1>4. Hidden => load_state = target
    BY <1>1 DEF Hidden, LoadsFrom
  <1> QED
    BY <1>1, <1>2, <1>3, <1>4 DEF Stage

\* No step of a session breaks it.
LEMMA SessionStep ==
  BisectInv /\ [BisectNext]_bisectVars =>
    [/\ Die /\ deaths' <= 1 => load_state \in {before, target}
     /\ todo # <<>> /\ todo' = <<>> => load_state' = target']_bisectVars
  <1> SUFFICES ASSUME BisectInv, BisectNext, todo # <<>>, todo' = <<>> PROVE load_state' = target'
    BY DeathIsClean
  <1>1. CASE WriteFile
    BY <1>1, WriteStep
  <1>2. CASE Die
    BY <1>2 DEF Die, load_state
  <1> QED
    BY <1>1, <1>2 DEF BisectNext, BisectStart, BisectMark, BisectReset, Idle

\* The marks of whatever is read agree with the tests.
LEMMA BisectInvIsEnough == BisectInv => MarksAreTrue
  BY LoadedIsSession DEF BisectInv, MarksAreTrue, IsSession, NoSession

\* bisect: the session survives a command that dies between any two of its file
\* operations, a command that does not die leaves what it meant to, and no mark
\* contradicts the tests, with find_good and without (bisect.rs, save_state,
\* clear_state, and core.rs, bisect_mark_current).
THEOREM SessionAlwaysSafe == BisectSpec => SessionIsSafe
  <1>1. BisectSpec => []BisectInv
    BY BisectInvInit, BisectInvStep, PTL DEF BisectSpec
  <1> QED
    BY <1>1, SessionStep, BisectInvIsEnough, PTL DEF BisectSpec, SessionIsSafe, SessionSurvivesDeath
===============================================================================
