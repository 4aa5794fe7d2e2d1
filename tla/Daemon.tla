-------------------------------- MODULE Daemon --------------------------------
(* The two loops that watch a working directory: the autosnapshot loop of      *)
(* `arc watch`, which records what was edited once the edits pause and parse,   *)
(* and the loop of the arc-daemon process that tells its client that something  *)
(* changed.  Each has a watcher and a bounded channel of its own.              *)
EXTENDS Naturals, Sequences, FiniteSets

CONSTANTS
  Watched,        \* the files that are edited
  ChannelSize,    \* events the autosnapshot channel holds
  MaxEdits        \* bound on the edits of a behaviour, and on `raised'

Metadata == "metadata.redb"     \* lies under the directory that is watched

VARIABLES
  saved,           \* file -> [edit, parses]: its last edit, and whether the grammar accepts it
  events,         \* raised by the file system and not yet given to the callback
  channel,        \* taken by the callback and not yet received
  loop,           \* where the autosnapshot loop is
  pending_paths,
  transient,      \* the paths of the last attempt that did not parse
  read,           \* path -> the edit that was hashed, for the record being made
  recorded,       \* history: file -> the last edit that a record covers
  lost,           \* history: files with an event dropped since the last one received
  raised,         \* events for the notifier not yet given to its callback
  signal,         \* its channel holds one
  notifier,       \* where it is
  stale           \* history: a change of which the client was not told
watchVars == <<saved, events, channel, loop, pending_paths, transient, read, recorded, lost>>
notifyVars == <<raised, signal, notifier, stale>>

Edits == {saved[f].edit : f \in Watched}
LastEdit == CHOOSE n \in Edits : \A m \in Edits : m <= n

WatchInit ==
  /\ saved = [f \in Watched |-> [edit |-> 0, parses |-> TRUE]]
  \* The watcher is started before the metadata store is opened, which writes.
  /\ events = <<Metadata>> /\ channel = <<>>
  /\ loop = "waiting" /\ pending_paths = {} /\ transient = {} /\ read = <<>>
  /\ recorded = [f \in Watched |-> 0] /\ lost = {}

\* Someone saves a file.
Save(f, parses) ==
  /\ LastEdit < MaxEdits
  /\ saved' = [saved EXCEPT ![f] = [edit |-> LastEdit + 1, parses |-> parses]]
  /\ events' = Append(events, f)
  /\ UNCHANGED <<channel, loop, pending_paths, transient, read, recorded, lost>>

-----------------------------------------------------------------------------
(* arc watch.                                                                *)

\* The callback: try_send, and an event that finds the channel full is dropped.
Callback ==
  /\ events # <<>> /\ events' = Tail(events)
  /\ IF Len(channel) < ChannelSize
     THEN channel' = Append(channel, Head(events)) /\ UNCHANGED lost
     ELSE lost' = lost \cup {Head(events)} /\ UNCHANGED channel
  /\ UNCHANGED <<saved, loop, pending_paths, transient, read, recorded>>

\* The first event, or one more inside the debounce window, which restarts it.
Receive ==
  /\ loop \in {"waiting", "debounce"} /\ channel # <<>>
  /\ channel' = Tail(channel)
  /\ pending_paths' = pending_paths \cup {Head(channel)}
  /\ lost' = lost \ {Head(channel)}
  /\ loop' = "debounce"
  /\ UNCHANGED <<saved, events, transient, read, recorded>>

\* Mutant of Attempt: what was held back before is not tried again.
AttemptNew == pending_paths

Attempt == pending_paths \cup transient

\* The window passes without an event.
Fire ==
  /\ loop = "debounce" /\ channel = <<>>
  /\ loop' = "gate" /\ pending_paths' = Attempt
  /\ UNCHANGED <<saved, events, channel, transient, read, recorded, lost>>

\* Every file is parsed; one error holds them all back.
Gate ==
  /\ loop = "gate"
  /\ IF \E f \in pending_paths \cap Watched : ~saved[f].parses
     THEN transient' = pending_paths /\ pending_paths' = {} /\ loop' = "waiting"
     ELSE loop' = "hash" /\ UNCHANGED <<transient, pending_paths>>
  /\ UNCHANGED <<saved, events, channel, read, recorded, lost>>

\* The files are read again, one by one, for the record's hash.
Hash(f) ==
  /\ loop = "hash" /\ f \in (pending_paths \cap Watched) \ DOMAIN read
  /\ read' = [g \in DOMAIN read \cup {f} |-> IF g = f THEN saved[f].edit ELSE read[g]]
  /\ UNCHANGED <<saved, events, channel, loop, pending_paths, transient, recorded, lost>>

\* put_op_record, whose own write the watcher hears; or it fails and the loop ends.
PutRecord ==
  /\ loop = "hash" /\ DOMAIN read = pending_paths \cap Watched
  /\ \/ /\ recorded' = [f \in Watched |-> IF f \in DOMAIN read THEN read[f] ELSE recorded[f]]
        /\ transient' = {} /\ pending_paths' = {} /\ loop' = "waiting"
        /\ events' = Append(events, Metadata)
     \/ loop' = "ended" /\ UNCHANGED <<recorded, transient, pending_paths, events>>
  /\ read' = <<>>
  /\ UNCHANGED <<saved, channel, lost>>

WatchNext ==
  \/ \E f \in Watched, parses \in BOOLEAN : Save(f, parses)
  \/ Callback \/ Receive \/ Fire \/ Gate \/ (\E f \in Watched : Hash(f)) \/ PutRecord

-----------------------------------------------------------------------------
(* arc-daemon's notifications.                                               *)

NotifyInit == raised = 0 /\ signal = FALSE /\ notifier = "waiting" /\ stale = FALSE

\* Something changes in the directory.
Change ==
  /\ raised < MaxEdits
  /\ raised' = raised + 1 /\ stale' = TRUE
  /\ UNCHANGED <<signal, notifier>>

\* A channel of one: a signal that is already there stands for this one too.
Signal ==
  /\ raised > 0 /\ raised' = raised - 1
  /\ signal' = TRUE
  /\ UNCHANGED <<notifier, stale>>

Wake ==
  /\ notifier \in {"waiting", "debounce"} /\ signal
  /\ signal' = FALSE /\ notifier' = "debounce"
  /\ UNCHANGED <<raised, stale>>

\* 100 ms without a signal.
Pause ==
  /\ notifier = "debounce" /\ ~signal
  /\ notifier' = "tell"
  /\ UNCHANGED <<raised, signal, stale>>

\* arc/stateChanged and arc/fileDecorationsChanged; the client reads the files anew.
Notify ==
  /\ notifier = "tell"
  /\ notifier' = "waiting" /\ stale' = FALSE
  /\ UNCHANGED <<raised, signal>>

NotifyNext == Change \/ Signal \/ Wake \/ Pause \/ Notify

\* The two loops have nothing in common but the directory.
DaemonInit == WatchInit /\ NotifyInit
DaemonNext == (WatchNext /\ UNCHANGED notifyVars) \/ (NotifyNext /\ UNCHANGED watchVars)
DaemonSpec == DaemonInit /\ [][DaemonNext]_<<watchVars, notifyVars>>

-----------------------------------------------------------------------------
\* No edit is forgotten: its last version is in a record, or its path is held
\* back, or an event of it is still on the way; the only exception is an event
\* that found the channel full (watcher.rs:130 holds that to be harmless).  And
\* a client that was not told of a change is about to be.
WatchersForgetNothing ==
  /\ loop # "ended" =>
       \A f \in Watched \ lost :
         \/ recorded[f] = saved[f].edit
         \/ f \in pending_paths \cup transient
         \/ \E i \in DOMAIN events : events[i] = f
         \/ \E i \in DOMAIN channel : channel[i] = f
  /\ stale => raised > 0 \/ signal \/ notifier # "waiting"
===============================================================================
