------------------------------ MODULE NativeSync ------------------------------
(* The native transport beside the other two: a client opens a connection,    *)
(* a task of the server serves it, and each goes on alone when the other is    *)
(* gone.  A client sends its heads (sync_remote), or asks for those of the     *)
(* hub and then for what it lacks (NativeSyncClient).  What a client sends in   *)
(* a row is one step: a connection that is lost delivers a part of it.          *)
EXTENDS Sync

CONSTANTS
  MaxConnections, \* sessions the server runs at a time
  MaxFrames       \* changes the server takes in a session

ASSUME NativeAssumption == None # "ok"

VARIABLE sess     \* connection -> its two ends, in the order of the connects

nativeVars == <<syncVars, sess>>

Eof == 0 \* the empty frame
Sessions == DOMAIN sess
Over(n) == sess[n].at \in {"served", "refused", "failed"}
Running(n) == ~Over(n) /\ sess[n].at # "queued"

-----------------------------------------------------------------------------
(* The client.                                                               *)

\* reachable_set: what is not in the store is not followed.
reachable_set(c, hs) == ancestors(store[c], hs)

\* compute_missing_hashes: the same from the heads of the other, without the first.
compute_missing_hashes(c, remote) == reachable_set(c, remote) \ reachable_set(c, view[c])

\* collect_required_closure, in an order of the walk: heads first.
closure_orders(c, heads) ==
  LET reached == ancestors(store[c], heads)
  IN IF reached \subseteq store[c]
     THEN {q \in SetToSeqs(reached) :
             \A i \in DOMAIN q : q[i] \in heads \/ \E j \in 1..(i - 1) : q[i] \in change[q[j]].deps}
     ELSE {}

\* open_framed and the handshake request.  A client without the token is one
\* the server refuses.
Connect(c, hung, what, head, missing, token) ==
  /\ sess' = Append(hung, [client |-> c, what |-> what, head |-> head, token |-> token, at |-> "queued",
                           wire |-> <<>>, open |-> TRUE, reply |-> None, frames |-> 0, told |-> None,
                           torn |-> FALSE, alone |-> \A n \in Sessions : Over(n)])
  /\ proc' = [proc EXCEPT ![c] = [at |-> "native", command |-> what, work |-> {},
                                  session |-> Len(sess) + 1, missing |-> missing]]

\* sync_remote_from_repo; the head is the only one of the view.
SendHeads(c) ==
  /\ proc[c] = Idle /\ commands < MaxCommands
  /\ \E h \in view[c], token \in BOOLEAN : view[c] = {h} /\ Connect(c, sess, "send", {h}, {}, token)
  /\ commands' = commands + 1
  /\ UNCHANGED <<stores, post, history, snaps, kills>>

\* sync_native_with_semantic_gate: the exchange of the frontiers.
Exchange(c) ==
  /\ proc[c] = Idle /\ commands < MaxCommands
  /\ Connect(c, sess, "exchange", {}, {}, TRUE)
  /\ commands' = commands + 1
  /\ UNCHANGED <<stores, post, history, snaps, kills>>

\* The client hangs up with the frames it has still sent; it was told the result.
Leave(c, frames, result) ==
  LET n == proc[c].session
  IN /\ sess' = [sess EXCEPT ![n].open = FALSE, ![n].told = result,
                            ![n].wire = IF Over(n) THEN <<>> ELSE @ \o frames]
     /\ End(c, result, {})

Reply(c) == sess[proc[c].session].reply

\* stream_required_changes, and the end of the stream; success is announced
\* when it is sent.
Stream(c) ==
  /\ proc[c].at = "native" /\ proc[c].command = "send" /\ Reply(c) # None
  /\ CASE Reply(c).status # 0 -> Leave(c, <<>>, "failed")
       [] Reply(c).status = 0 /\ Reply(c).required = {} -> Leave(c, <<>>, "ok")
       [] OTHER -> LET orders == closure_orders(c, Reply(c).required)
                   IN IF orders = {} THEN Leave(c, <<>>, "failed")
                      ELSE \E q \in orders : Leave(c, q \o <<Eof>>, "ok")
  /\ UNCHANGED <<stores, post, acked, direct, counters>>

\* The frontier is in: nothing is missing, or a second connection asks for it.
Compare(c) ==
  /\ proc[c].at = "native" /\ proc[c].command = "exchange" /\ Reply(c) # None
  /\ LET missing == compute_missing_hashes(c, Reply(c).frontier)
         n == proc[c].session
     IN IF missing = {}
        THEN Leave(c, <<>>, "ok")
        ELSE /\ Connect(c, [sess EXCEPT ![n].open = FALSE], "fetch", {}, missing, TRUE)
             /\ UNCHANGED <<last, interrupted>>
  /\ UNCHANGED <<stores, post, acked, direct, counters>>

\* fetch_cas_blocks: the request.
Want(c) ==
  /\ proc[c].at = "native" /\ proc[c].command = "fetch" /\ Reply(c) # None
  /\ "blocks" \notin DOMAIN Reply(c)
  /\ sess' = [sess EXCEPT ![proc[c].session].wire = IF @ = <<>> THEN <<[want |-> proc[c].missing]>> ELSE @]
  /\ sess' # sess
  /\ UNCHANGED <<stores, proc, post, history, counters>>

\* The hash of a block is the hash of its bytes; the identity of a change is
\* that of what it says, without its signature.
blake3(id) == MaxChanges + id

\* fetch_cas_blocks: the answer.  The first block that comes fails the check,
\* and the answer of a session that is over lacks what was asked for.
Fetch(c) ==
  /\ proc[c].at = "native" /\ proc[c].command = "fetch" /\ Reply(c) # None
  /\ Over(proc[c].session) \/ "blocks" \in DOMAIN Reply(c)
  /\ LET blocks == IF "blocks" \in DOMAIN Reply(c) THEN Reply(c).blocks ELSE {}
         sound == {b \in blocks : blake3(b) = b}
     IN Leave(c, <<>>, IF proc[c].missing \subseteq sound THEN "ok" ELSE "failed")
  /\ UNCHANGED <<stores, post, acked, direct, counters>>

\* The handshake answer does not come in time, or never.
GiveUp(c) ==
  /\ proc[c].at = "native" /\ Reply(c) = None
  /\ Leave(c, <<>>, "failed")
  /\ UNCHANGED <<stores, post, acked, direct, counters>>

-----------------------------------------------------------------------------
(* The server.                                                               *)

Step(n, at) == sess' = [sess EXCEPT ![n].at = at]

\* serve_with_listener: a permit is taken after the connection.
Accept(n) ==
  /\ sess[n].at = "queued"
  /\ \A m \in 1..(n - 1) : sess[m].at # "queued"
  /\ Cardinality({m \in Sessions : Running(m)}) < MaxConnections
  /\ Step(n, "hello")
  /\ UNCHANGED syncVars

\* compute_required_hashes: the heads, whatever of their history is there.
compute_required_hashes(hs) == hs \ store[Hub]

\* negotiate_capabilities, of the clients this code has.
ServerCapabilities == {"PayloadStreamV1", "KeepAlive", "TypedChangeId"}
RequiredCapabilities == {"PayloadStreamV1", "TypedChangeId"}

\* is_authorized_peer goes before the capabilities.
status(n) ==
  CASE ~sess[n].token -> 2
    [] ~(RequiredCapabilities \subseteq ServerCapabilities) -> 3
    [] OTHER -> 0

compute_local_frontier == view[Hub]

\* handle_connection up to its answer, which a client that is gone may still take.
Hello(n) ==
  /\ sess[n].at = "hello"
  /\ LET ok == status(n) = 0
         required == IF ok THEN compute_required_hashes(sess[n].head) ELSE {}
         reply == [status |-> status(n), required |-> required, frontier |-> compute_local_frontier]
         next == CASE ~ok -> "refused" [] ok /\ required # {} -> "ingest" [] OTHER -> "wants"
     IN \/ sess' = [sess EXCEPT ![n].at = next, ![n].reply = reply]
        \/ ~sess[n].open /\ Step(n, "failed")
  /\ UNCHANGED syncVars

\* Mutant of ensure_dependency_closure_present: the heads alone are looked for.
ensure_heads_present(hs) == hs \subseteq store[Hub]

\* ensure_dependency_closure_present.
ensure_dependency_closure_present(hs) == ancestors(store[Hub], hs) \subseteq store[Hub]

\* ingest_payload_stream: a frame is a change or the end of the stream.
Ingest(n) ==
  /\ sess[n].at = "ingest" /\ sess[n].wire # <<>>
  /\ LET frame == Head(sess[n].wire)
         rest == [sess EXCEPT ![n].wire = Tail(@)]
         taken == IF sess[n].reply.required \subseteq store[Hub] THEN "wants" ELSE "failed"
     IN CASE frame = Eof -> sess' = [rest EXCEPT ![n].at = taken] /\ UNCHANGED <<store, interrupted>>
          [] frame # Eof /\ sess[n].frames < MaxFrames ->
               /\ store' = [store EXCEPT ![Hub] = @ \cup {frame}]
               /\ sess' = [rest EXCEPT ![n].frames = @ + 1]
               /\ interrupted' = interrupted \cup {Hub}
          [] OTHER -> sess' = [rest EXCEPT ![n].at = "failed", ![n].torn = TRUE] /\ UNCHANGED <<store, interrupted>>
  /\ UNCHANGED <<change, blobs, view, proc, post, last, acked, direct, counters>>

\* The stream ends before its end, or stays away for too long.
IngestFails(n) ==
  /\ sess[n].at = "ingest" /\ sess[n].wire = <<>>
  /\ sess' = [sess EXCEPT ![n].at = "failed", ![n].torn = TRUE]
  /\ UNCHANGED syncVars

\* maybe_stream_requested_blocks: nobody asks, or not in time, or a block that
\* is asked for is not there.
Wants(n) ==
  /\ sess[n].at = "wants"
  /\ IF sess[n].wire = <<>> THEN Step(n, "persist")
     ELSE LET wanted == Head(sess[n].wire).want
          IN IF wanted \subseteq store[Hub]
             THEN sess' = [sess EXCEPT ![n].at = "persist", ![n].wire = <<>>,
                                       ![n].reply = [blocks |-> wanted] @@ @]
             ELSE Step(n, "failed")
  /\ UNCHANGED syncVars

\* persist_view_heads: the heads that were asked for replace those of the view.
PersistHeads(n) ==
  /\ sess[n].at = "persist"
  /\ IF ensure_dependency_closure_present(sess[n].head)
     THEN /\ Step(n, "served")
          /\ view' = IF sess[n].head = {} THEN view ELSE [view EXCEPT ![Hub] = sess[n].head]
          /\ direct' = direct \cup sess[n].head
     ELSE Step(n, "failed") /\ UNCHANGED <<view, direct>>
  /\ UNCHANGED <<change, store, blobs, proc, post, last, interrupted, acked, counters>>

-----------------------------------------------------------------------------
\* A connection is lost, with a part of what was sent on it.
Lose(n) ==
  /\ kills < MaxKills /\ ~Over(n)
  /\ \E k \in 0..Len(sess[n].wire) :
       sess' = [sess EXCEPT ![n].wire = SubSeq(@, 1, k), ![n].open = FALSE, ![n].torn = TRUE,
                            ![n].told = IF sess[n].open THEN "failed" ELSE @]
  /\ LET c == sess[n].client
     IN IF sess[n].open THEN End(c, "failed", {}) ELSE UNCHANGED <<proc, last, interrupted>>
  /\ kills' = kills + 1
  /\ UNCHANGED <<stores, post, acked, direct, snaps, commands>>

\* The server is killed and started again: every session is over.
Restart ==
  /\ kills < MaxKills /\ \E n \in Sessions : Running(n)
  /\ sess' = [n \in Sessions |->
                IF ~Over(n)
                THEN [sess[n] EXCEPT !.at = "failed", !.wire = <<>>, !.torn = TRUE,
                                     !.told = IF @ = None THEN "failed" ELSE @] ELSE sess[n]]
  /\ proc' = [c \in Clients |-> IF proc[c].at = "native" /\ sess'[proc[c].session].torn THEN Idle ELSE proc[c]]
  /\ kills' = kills + 1
  /\ UNCHANGED <<stores, post, history, snaps, commands>>

NativeInit == SyncInit /\ sess = <<>>

NativeNext ==
  \/ \E c \in Clients :
       \/ Snap(c) /\ UNCHANGED sess
       \/ SendHeads(c) \/ Exchange(c) \/ Stream(c) \/ Compare(c) \/ Want(c) \/ Fetch(c) \/ GiveUp(c)
  \/ \E n \in Sessions :
       Accept(n) \/ Hello(n) \/ Ingest(n) \/ IngestFails(n) \/ Wants(n) \/ PersistHeads(n) \/ Lose(n)
  \/ Restart

NativeSpec == NativeInit /\ [][NativeNext]_nativeVars

-----------------------------------------------------------------------------
(* Properties.                                                               *)

\* Heads that a session has saved have all their history on the server, whatever
\* other sessions were cut off before or wrote meanwhile.
ServedHeadsAreClosed ==
  \A n \in Sessions : sess[n].at = "served" => ancestors(store[Hub], sess[n].head) \subseteq store[Hub]

\* A client that was told of success has its heads served once its session is
\* over, if no session has ever been cut off and none was under way when it began.
SuccessIsServed ==
  \A n \in Sessions :
    (sess[n].what = "send" /\ sess[n].told = "ok" /\ Over(n) /\ sess[n].alone
     /\ \A m \in Sessions : ~sess[m].torn) => sess[n].at = "served"

\* What the native transport promises.
NativeSyncIsSound == ServedHeadsAreClosed /\ SuccessIsServed

\* A frontier that the server has is fetched, unless something is lost.
NativeFetchSucceeds ==
  \A n \in Sessions : (sess[n].what = "fetch" /\ kills = 0 /\ ~sess[n].torn) => sess[n].told # "failed"
=============================================================================
