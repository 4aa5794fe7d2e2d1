------------------------------- MODULE MCSync -------------------------------
(* Two clients and a hub, by path and over HTTP, or over the native           *)
(* transport.                                                                 *)
EXTENDS NativeSync, TLC

CONSTANTS A, B
VARIABLE part

MaxNativeCommands == 2
Swapped == Permutations(Clients)

Init == NativeInit /\ part \in {"push", "native"}

Next ==
  /\ UNCHANGED part
  /\ \/ part = "push" /\ SyncNext /\ UNCHANGED sess
     \/ part = "native" /\ NativeNext /\ commands' <= MaxNativeCommands
        /\ \A x \in DOMAIN change' : change'[x].author = "human"

Spec == Init /\ [][Next]_<<nativeVars, part>>
=============================================================================
