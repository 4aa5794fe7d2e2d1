-------------------------------- MODULE Sync --------------------------------
(* Clients push to and pull from a hub, by its path or over HTTP.  Changes    *)
(* are content addressed: what a change is holds everywhere, and a repository *)
(* has it or not.  Each change holds one item, whose bytes are a blob; the     *)
(* changes of the clients never conflict (Merge has those that do).  Blobs go  *)
(* over in one step each (BlobIntake has the detail of PUT), and a command is  *)
(* a process of its own.  A push over HTTP is unsigned (the fallback): the     *)
(* server does not take the signed envelope.                                   *)
EXTENDS Naturals, FiniteSets, SequencesExt

CONSTANTS
  Clients, Hub, None,
  Authors,      \* of the changes that clients make
  Transports,   \* "path", "http"
  MaxSnaps, MaxCommands, MaxKills, MaxChanges \* bounds

ASSUME SyncAssumption ==
  /\ MaxChanges \in Nat
  /\ Hub \notin Clients

VARIABLES
  change,       \* id -> [deps, author, origin]: what is in a change
  store,        \* repository -> the changes in its store
  blobs,        \* repository -> the blobs in its store, named by their origin
  view,         \* repository -> the heads of the view that is synchronised
  proc,         \* client -> the command it runs
  post,         \* client -> its POST on the server, which goes on without it
  last,         \* client -> history: how its last command ended
  interrupted,  \* history: repositories a sync has left half written
  acked,        \* history: changes whose push was acknowledged, with no other under way
  direct,       \* history: heads that were pushed other than over HTTP
  snaps, commands, kills

counters == <<snaps, commands, kills>>
history == <<last, interrupted, acked, direct>>
stores == <<change, store, blobs, view>>
syncVars == <<stores, proc, post, history, counters>>

Repos == Clients \cup {Hub}
Ids == DOMAIN change

-----------------------------------------------------------------------------
(* Walks over the changes.                                                   *)

\* What a walk from hs reaches that goes from x to leads[x], where it can.
Reached(hs, leads) ==
  LET Level[n \in 0..MaxChanges] ==
        IF n = 0 THEN hs
        ELSE LET s == Level[n - 1] IN s \cup UNION {leads[x] : x \in s \cap DOMAIN leads}
  IN Level[MaxChanges]

\* ancestors_inclusive, in a graph of the changes known.
ancestors(known, hs) == Reached(hs, [x \in known |-> change[x].deps])

\* hydrate_heads: what is in the graph already is not followed further.  {the
\* graph}, or {} if a change is not in the store.
hydrate_heads(r, graph, hs) ==
  LET reached == Reached(hs \ graph, [x \in store[r] |-> change[x].deps \ graph])
  IN IF reached \subseteq store[r] THEN {graph \cup reached} ELSE {}

\* materialize_heads: the replay needs every change, and the bytes of its item.
Materializes(r, graph, hs) ==
  LET order == ancestors(graph, hs)
  IN order \subseteq graph /\ {change[x].origin : x \in order} \subseteq blobs[r]

\* push: what the remote lacks, from the heads down to the cut, heads first.
\* {the delta}, or {} if a change is not in the local store.
push_delta(c, cut) ==
  LET delta == Reached(view[c], [x \in store[c] |-> IF x \in cut THEN {} ELSE change[x].deps]) \ cut
      Height(x) == Cardinality(ancestors(Ids, {x}))
  IN IF delta \subseteq store[c]
     THEN {q \in SetToSeqs(delta) : \A i, j \in DOMAIN q : Height(q[i]) < Height(q[j]) => j < i}
     ELSE {}

-----------------------------------------------------------------------------
Idle == [at |-> "idle"]

SyncInit ==
  /\ change = [x \in {} |-> {}]
  /\ store = [r \in Repos |-> {}] /\ blobs = store /\ view = store
  /\ proc = [c \in Clients |-> Idle]
  /\ post = [c \in Clients |-> None]
  /\ last = [c \in Clients |-> [command |-> "none", result |-> "ok", work |-> {}]]
  /\ interrupted = {} /\ acked = {} /\ direct = {}
  /\ snaps = 0 /\ commands = 0 /\ kills = 0

Fresh == {Cardinality(Ids) + 1} \cap 1..MaxChanges

With(id, d, a, o) == [x \in Ids \cup {id} |-> IF x = id THEN [deps |-> d, author |-> a, origin |-> o] ELSE change[x]]

\* snap, of a change that adds an item.
Snap(c) ==
  /\ proc[c] = Idle /\ snaps < MaxSnaps
  /\ \E g \in hydrate_heads(c, {}, view[c]) : Materializes(c, g, view[c])
  /\ \E id \in Fresh, a \in Authors :
       /\ change' = With(id, view[c], a, id)
       /\ store' = [store EXCEPT ![c] = @ \cup {id}]
       /\ blobs' = [blobs EXCEPT ![c] = @ \cup {id}]
       /\ view' = [view EXCEPT ![c] = {id}]
  /\ snaps' = snaps + 1
  /\ UNCHANGED <<proc, post, history, commands, kills>>

\* The command ends; if it failed after it began to write, r is half written.
End(c, result, r) ==
  /\ proc' = [proc EXCEPT ![c] = Idle]
  /\ last' = [last EXCEPT ![c] = [command |-> proc[c].command, result |-> result, work |-> proc[c].work]]
  /\ interrupted' = IF result = "ok" THEN interrupted ELSE interrupted \cup r

-----------------------------------------------------------------------------
(* fetch_local, bfs_fetch_changes: a walk from the heads that stops at what   *)
(* the store has.                                                            *)

Fetching(command, via, hs, work, graph) ==
  [at |-> "fetch", command |-> command, via |-> via, heads |-> hs, work |-> work,
   graph |-> graph, queue |-> CHOOSE q \in SetToSeqs(hs) : TRUE, seen |-> {}]

\* pull: the view of the hub is read, and its changes are fetched.
Pull(c) ==
  /\ proc[c] = Idle /\ post[c] = None /\ commands < MaxCommands
  /\ view[Hub] # {}
  /\ \E via \in Transports : proc' = [proc EXCEPT ![c] = Fetching("pull", via, view[Hub], {}, {})]
  /\ commands' = commands + 1
  /\ UNCHANGED <<stores, post, history, snaps, kills>>

\* A change that is in the store joins the graph, and is not followed.
Fetched(c, id) ==
  [proc[c] EXCEPT !.queue = Tail(@), !.seen = @ \cup {id}, !.graph = @ \cup ({id} \cap store[c])]

\* The change is written before its blob, and before what it depends on.
FetchChange(c) ==
  /\ proc[c].at = "fetch" /\ proc[c].queue # <<>>
  /\ LET id == Head(proc[c].queue)
     IN IF id \in proc[c].seen \cup store[c]
        THEN proc' = [proc EXCEPT ![c] = Fetched(c, id)] /\ UNCHANGED <<store, last, interrupted>>
        ELSE IF id \notin store[Hub]
        THEN End(c, "failed", {c}) /\ UNCHANGED store
        ELSE /\ store' = [store EXCEPT ![c] = @ \cup {id}]
             /\ proc' = [proc EXCEPT ![c].at = "blob"]
             /\ UNCHANGED <<last, interrupted>>
  /\ UNCHANGED <<change, blobs, view, post, acked, direct, counters>>

\* The blob, which by path may be missing; then the dependencies are queued.
FetchBlob(c) ==
  /\ proc[c].at = "blob"
  /\ LET id == Head(proc[c].queue)
         b == {change[id].origin} \ blobs[c]
     IN IF proc[c].via = "http" /\ ~(b \subseteq blobs[Hub])
        THEN End(c, "failed", {c}) /\ UNCHANGED blobs
        ELSE /\ blobs' = [blobs EXCEPT ![c] = @ \cup (b \cap blobs[Hub])]
             /\ \E q \in SetToSeqs(change[id].deps \ proc[c].seen) :
                  proc' = [proc EXCEPT ![c].at = "fetch", ![c].queue = Tail(@) \o q,
                                       ![c].seen = @ \cup {id}, ![c].graph = @ \cup {id}]
             /\ UNCHANGED <<last, interrupted>>
  /\ UNCHANGED <<change, store, view, post, acked, direct, counters>>

\* merge_heads, of what was fetched: the view is moved before the new state is
\* known to materialize.
MergeHeads(c) ==
  /\ proc[c].at = "fetch" /\ proc[c].queue = <<>> /\ proc[c].command = "pull"
  /\ LET both == view[c] \cup proc[c].heads
         g1 == hydrate_heads(c, proc[c].graph, view[c])
         g == UNION {hydrate_heads(c, h, proc[c].heads) : h \in g1}
         moves == \E h \in g : /\ Materializes(c, h, view[c])
                               /\ ancestors(h, view[c]) \cap ancestors(h, proc[c].heads) \subseteq h
                               /\ ancestors(h, both) \subseteq h
     IN /\ view' = IF moves THEN [view EXCEPT ![c] = both] ELSE view
        /\ End(c, IF moves /\ \E h \in g : Materializes(c, h, both) THEN "ok" ELSE "failed", {})
  /\ UNCHANGED <<change, store, blobs, post, acked, direct, counters>>

-----------------------------------------------------------------------------
(* push.                                                                     *)

\* What the client's view holds, in terms of the items.
Work(c) == {change[x].origin : x \in ancestors(Ids, view[c])}

\* The view of the hub is read, and the delta gathered: by path down to what the
\* hub has, over HTTP down to the hub's heads.
Push(c) ==
  /\ proc[c] = Idle /\ post[c] = None /\ commands < MaxCommands
  /\ view[c] # {}
  /\ \E via \in Transports :
       \E delta \in push_delta(c, IF via = "path" THEN store[Hub] ELSE view[Hub]) :
         proc' = [proc EXCEPT ![c] = [at |-> "send", command |-> "push", via |-> via, heads |-> view[c],
                                      queue |-> delta, remote |-> view[Hub], work |-> Work(c)]]
  /\ commands' = commands + 1
  /\ UNCHANGED <<stores, post, history, snaps, kills>>

\* push_local: each change, and then its blob, goes straight into the hub's store.
SendChange(c) ==
  /\ proc[c].at = "send" /\ proc[c].via = "path" /\ proc[c].queue # <<>>
  /\ store' = [store EXCEPT ![Hub] = @ \cup {Head(proc[c].queue)}]
  /\ proc' = [proc EXCEPT ![c].at = "sendblob"]
  /\ UNCHANGED <<change, blobs, view, post, history, counters>>

SendBlob(c) ==
  /\ proc[c].at = "sendblob"
  /\ LET b == {change[Head(proc[c].queue)].origin} \ blobs[Hub]
     IN IF b \subseteq blobs[c]
        THEN /\ blobs' = [blobs EXCEPT ![Hub] = @ \cup b]
             /\ proc' = [proc EXCEPT ![c].at = "send", ![c].queue = Tail(@)]
             /\ UNCHANGED <<last, interrupted>>
        ELSE End(c, "failed", {Hub}) /\ UNCHANGED blobs
  /\ UNCHANGED <<change, store, view, post, acked, direct, counters>>

\* Pushes that have read the view of the hub, and will write it.
Loaded(c) ==
  \/ proc[c].at \in {"send", "sendblob"} /\ proc[c].via = "path"
  \/ post[c] # None /\ post[c].at = "loaded"

\* An acknowledged push that no other overlaps.
Acknowledge(c, hs) == acked' = IF \E d \in Clients \ {c} : Loaded(d) THEN acked ELSE acked \cup hs

\* Mutant of Union: the view becomes that of the last to push.
UnionLast(existing, hs) == hs

Union(existing, hs) == existing \cup hs

\* push_local: the union of the heads as they were read, without a lock.
PushView(c) ==
  /\ proc[c].at = "send" /\ proc[c].via = "path" /\ proc[c].queue = <<>>
  /\ view' = [view EXCEPT ![Hub] = Union(proc[c].remote, proc[c].heads)]
  /\ Acknowledge(c, proc[c].heads)
  /\ direct' = direct \cup proc[c].heads
  /\ End(c, "ok", {})
  /\ UNCHANGED <<change, store, blobs, post, counters>>

\* push_http: the blobs are uploaded, and the delta is posted.
Post(c) ==
  /\ proc[c].at = "send" /\ proc[c].via = "http"
  /\ LET wanted == {change[x].origin : x \in ToSet(proc[c].queue)}
     IN IF wanted \subseteq blobs[c]
        THEN /\ blobs' = [blobs EXCEPT ![Hub] = @ \cup wanted]
             /\ post' = [post EXCEPT ![c] = [at |-> "write", todo |-> Reverse(proc[c].queue), heads |-> proc[c].heads,
                                             map |-> [x \in {} |-> x], existing |-> {}]]
             /\ proc' = [proc EXCEPT ![c].at = "wait"]
             /\ UNCHANGED <<last, interrupted>>
        ELSE End(c, "failed", {}) /\ UNCHANGED <<blobs, post>>
  /\ UNCHANGED <<change, store, view, acked, direct, counters>>

-----------------------------------------------------------------------------
(* post_sync, the server's handler: the blobs are there (Post); the changes   *)
(* are written from the roots up, then the view is read, and written.        *)

Renamed(m, s) == {IF x \in DOMAIN m THEN m[x] ELSE x : x \in s}

\* Mutant of Collapses: only the changes of transient authors are collapsed.
CollapsesTransient(m, id) == change[id].author = "transient"

\* The cascade: a change whose dependency was rewritten is rewritten too.
Collapses(m, id) == change[id].author = "transient" \/ Renamed(m, change[id].deps) # change[id].deps

\* Mutant of WriteOrder: the payload is written as it came, heads first.
WriteOrderSent(todo) == Len(todo)

\* Kahn's order: the first of the changes that are left has all of its
\* dependencies in the payload written.
WriteOrder(todo) == 1

\* A collapsed change is signed by the server; what it is, is its content.
Canonical(m, id) ==
  LET d == Renamed(m, change[id].deps)
      same == {x \in Ids : change[x] = [deps |-> d, author |-> "server", origin |-> change[id].origin]}
  IN IF same # {} THEN same ELSE Fresh

WriteChange(c) ==
  /\ post[c] # None /\ post[c].at = "write" /\ post[c].todo # <<>>
  /\ LET i == WriteOrder(post[c].todo)
         id == post[c].todo[i]
         m == post[c].map
         rest == RemoveAt(post[c].todo, i)
     IN IF Collapses(m, id)
        THEN \E n \in Canonical(m, id) :
               /\ change' = IF n \in Ids THEN change
                            ELSE With(n, Renamed(m, change[id].deps), "server", change[id].origin)
               /\ store' = [store EXCEPT ![Hub] = @ \cup {id, n}]
               /\ post' = [post EXCEPT ![c].todo = rest, ![c].map = [x \in DOMAIN m \cup {id} |-> IF x = id THEN n ELSE m[x]]]
        ELSE /\ store' = [store EXCEPT ![Hub] = @ \cup {id}]
             /\ post' = [post EXCEPT ![c].todo = rest]
             /\ UNCHANGED change
  /\ UNCHANGED <<blobs, view, proc, history, counters>>

LoadView(c) ==
  /\ post[c] # None /\ post[c].at = "write" /\ post[c].todo = <<>>
  /\ post' = [post EXCEPT ![c].at = "loaded", ![c].existing = view[Hub]]
  /\ UNCHANGED <<stores, proc, history, counters>>

Answer(existing, all) == all

\* The view is saved, and the client that still waits is answered: if anything
\* was collapsed, it fetches the canonical changes.
SaveView(c) ==
  /\ post[c] # None /\ post[c].at = "loaded"
  /\ LET mapped == Renamed(post[c].map, post[c].heads)
         all == Union(post[c].existing, mapped)
     IN /\ view' = [view EXCEPT ![Hub] = all]
        /\ Acknowledge(c, mapped)
        /\ IF proc[c].at # "wait" THEN UNCHANGED <<proc, last, interrupted>>
           ELSE IF DOMAIN post[c].map = {} THEN End(c, "ok", {})
           ELSE /\ proc' = [proc EXCEPT ![c] = Fetching("push", "http", Answer(post[c].existing, all), proc[c].work, {})]
                /\ UNCHANGED <<last, interrupted>>
  /\ post' = [post EXCEPT ![c] = None]
  /\ UNCHANGED <<change, store, blobs, direct, counters>>

\* gc, with the graph that the fetch has filled: the changes stay, the blobs of
\* what is not in the graph go.
Gc(c, graph) == blobs[c] \cap {change[x].origin : x \in graph}

\* After a collapse, the client's view becomes the server's, and gc runs.
AdoptCollapse(c) ==
  /\ proc[c].at = "fetch" /\ proc[c].queue = <<>> /\ proc[c].command = "push"
  /\ view' = [view EXCEPT ![c] = proc[c].heads]
  /\ blobs' = [blobs EXCEPT ![c] = Gc(c, proc[c].graph)]
  /\ End(c, "ok", {})
  /\ UNCHANGED <<change, store, post, acked, direct, counters>>

\* The client is killed, or loses the connection.
Kill(c) ==
  /\ proc[c] # Idle /\ kills < MaxKills
  /\ kills' = kills + 1
  /\ End(c, "killed", IF proc[c].at \in {"fetch", "blob"} THEN {c}
                      ELSE IF proc[c].via = "path" THEN {Hub} ELSE {})
  /\ UNCHANGED <<stores, post, acked, direct, snaps, commands>>

\* The server is killed: the requests it serves are gone.
KillServer ==
  /\ kills < MaxKills /\ \E c \in Clients : post[c] # None
  /\ kills' = kills + 1
  /\ post' = [c \in Clients |-> None]
  /\ proc' = [c \in Clients |-> IF proc[c].at = "wait" THEN Idle ELSE proc[c]]
  /\ last' = [c \in Clients |-> IF proc[c].at = "wait" THEN [last[c] EXCEPT !.command = "push", !.result = "failed"] ELSE last[c]]
  /\ UNCHANGED <<stores, interrupted, acked, direct, snaps, commands>>

SyncNext ==
  \/ \E c \in Clients :
       \/ Snap(c) \/ Pull(c) \/ FetchChange(c) \/ FetchBlob(c) \/ MergeHeads(c)
       \/ Push(c) \/ SendChange(c) \/ SendBlob(c) \/ PushView(c) \/ Post(c)
       \/ WriteChange(c) \/ LoadView(c) \/ SaveView(c) \/ AdoptCollapse(c) \/ Kill(c)
  \/ KillServer

SyncSpec == SyncInit /\ [][SyncNext]_syncVars

-----------------------------------------------------------------------------
(* Properties.                                                               *)

\* The cut-point assumption of fetch and push: a repository that no interrupted
\* sync has left half written, and where none is under way, has with every
\* change all that it depends on.
StoresAreClosed ==
  \A r \in Repos \ interrupted :
    (\A c \in Clients : proc[c].at \in {"idle", "wait"} /\ (r = Hub => post[c] = None)) =>
      UNION {change[x].deps : x \in store[r]} \subseteq store[r]

\* A push that was acknowledged while no other had the hub's view loaded is
\* in the hub's view for good.
AckedPushIsKept == acked \subseteq ancestors(Ids, view[Hub])

\* Over HTTP no change of a transient author becomes part of the hub's history.
NoTransientPublished ==
  \A x \in ancestors(Ids, view[Hub]) \ ancestors(Ids, direct) : change[x].author # "transient"

\* After a push the client's view still has all its work, whoever it is signed
\* by now (push_http, sync_resp.rewritten_map).
PushKeepsTheWork ==
  \A c \in Clients :
    (proc[c] = Idle /\ last[c].command = "push" /\ last[c].result = "ok") => last[c].work \subseteq Work(c)

\* A push that was acknowledged loses nothing at either end.
PushesAreKept == AckedPushIsKept /\ PushKeepsTheWork

\* After a push the repository is fully consistent (sync.rs:514): where no sync
\* was ever interrupted, the bytes of all the work in the view are there.
PushKeepsTheBytes ==
  \A c \in Clients :
    (interrupted = {} /\ kills = 0 /\ last[c].command = "push" /\ last[c].result = "ok") =>
      Work(c) \subseteq blobs[c]

\* pull fetches and merges: between repositories that were never interrupted,
\* and while no process is killed, it succeeds.
PullCompletes ==
  \A c \in Clients :
    (last[c].command = "pull" /\ interrupted = {} /\ kills = 0) => last[c].result = "ok"
=============================================================================
