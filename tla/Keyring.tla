-------------------------------- MODULE Keyring --------------------------------
(* The identity directory, used by several processes: identities are generated,  *)
(* loaded and selected.  A file holds what was written to it, and every write goes *)
(* to a temporary file beside the target, of the same name for every writer.       *)
EXTENDS Naturals, FiniteSets

CONSTANTS
  Holder,        \* the processes
  Aliases,       \* that they use; "session" is a valid one
  MaxIdentities  \* bound on the identities that are made

\* Finitely many of each; no alias has the name of what is not a file's bytes.
ASSUME KeyringAssumption ==
  /\ IsFiniteSet(Holder) /\ IsFiniteSet(Aliases) /\ Aliases \cap {"empty", "mixed"} = {}
  /\ MaxIdentities \in Nat

VARIABLES
  holder,     \* process -> [at, file, content, inode]
  inodes,     \* file of the disk -> what it holds, [alias, key]
  names,      \* name -> the file it names, 0 for none
  kept,       \* history: alias -> the key that generate returned last, 0 for none
  shared      \* history: names that two processes were writing at once
keyringVars == <<holder, inodes, names, kept, shared>>

\* alias_path and session_file: one directory for both.
SessionFile == "session"
Temporary == "tmp"

\* Mutant of Tmp: the target is written in place.
TmpInPlace(file) == <<file, "json">>

Tmp(file) == <<file, Temporary>>
Json(file) == <<file, "json">>
Entries == {Tmp(f) : f \in Aliases \cup {SessionFile}} \cup {Json(f) : f \in Aliases \cup {SessionFile}}

\* What a file can hold; `Mixed' is what two writers at once can leave.
Identity(alias, n) == [alias |-> alias, key |-> n]
Selection(alias) == [alias |-> alias, key |-> 0]
NoBytes == [alias |-> "empty", key |-> 0]
Mixed == [alias |-> "mixed", key |-> 0]

\* A file as serde reads it: an identity, or the session's selection.
Parses(name) == names[name] # 0 /\ inodes[names[name]] \notin {NoBytes, Mixed}
Content(name) == inodes[names[name]]
IsIdentity(name) == Parses(name) /\ Content(name).key # 0

NotWriting == [at |-> "idle", file |-> SessionFile, content |-> NoBytes, inode |-> 0]
FileNumbers == 1..(Cardinality(Holder) + Cardinality(Entries))

KeyringInit ==
  /\ holder = [p \in Holder |-> NotWriting]
  /\ inodes = [i \in FileNumbers |-> NoBytes] /\ names = [n \in Entries |-> 0]
  /\ kept = [a \in Aliases |-> 0] /\ shared = {}

Used(nm, hd) == {nm[n] : n \in Entries} \cup {hd[p].inode : p \in Holder}
Unused == FileNumbers \ Used(names, holder)
\* A file that nothing names and nobody holds open is gone.
Sweep == \E used \in {Used(names', holder')} :
  inodes' = [i \in FileNumbers |-> IF i \in used THEN inodes[i] ELSE NoBytes]

KeysMade == {holder[p].content.key : p \in Holder} \cup {kept[a] : a \in Aliases}
            \cup {inodes[i].key : i \in FileNumbers \ Unused}

\* generate: refused if the alias has a file; then the key is derived.
Generate(p, alias) ==
  /\ holder[p].at = "idle" /\ names[Json(alias)] = 0
  /\ \E n \in 1..MaxIdentities :
       /\ n \notin KeysMade
       /\ holder' = [holder EXCEPT ![p] = [at |-> "open", file |-> alias, content |-> Identity(alias, n), inode |-> 0]]
  /\ UNCHANGED <<inodes, names, kept, shared>>

\* load: the file must hold the identity of that alias.
Loads(alias) == IsIdentity(Json(alias)) /\ Content(Json(alias)).alias = alias

\* select_active_identity: what can be loaded is noted in the session file.
Select(p, alias) ==
  /\ holder[p].at = "idle" /\ Loads(alias)
  /\ holder' = [holder EXCEPT ![p] = [at |-> "open", file |-> SessionFile, content |-> Selection(alias), inode |-> 0]]
  /\ UNCHANGED <<inodes, names, kept, shared>>

Writing(q) == holder[q].at \in {"open", "write", "rename"}

\* fs::write opens: a new file, or the one of that name cut to nothing.
OpenTmp(p) ==
  /\ holder[p].at = "open"
  /\ LET t == Tmp(holder[p].file)
         i == IF names[t] # 0 THEN names[t] ELSE CHOOSE j \in Unused : TRUE
     IN /\ inodes' = [inodes EXCEPT ![i] = NoBytes]
        /\ names' = [names EXCEPT ![t] = i]
        /\ holder' = [holder EXCEPT ![p].at = "write", ![p].inode = i]
  /\ shared' = shared \cup {holder[p].file : q \in {q \in Holder \ {p} : Writing(q) /\ holder[q].file = holder[p].file}}
  /\ UNCHANGED kept

\* ... and writes from the start, over whatever another writer has put there.
WriteTmp(p) ==
  /\ holder[p].at = "write"
  /\ \E c \in {holder[p].content} \cup (IF inodes[holder[p].inode] = NoBytes THEN {} ELSE {Mixed}) :
       inodes' = [inodes EXCEPT ![holder[p].inode] = c]
  /\ holder' = [holder EXCEPT ![p].at = "rename"]
  /\ UNCHANGED <<names, kept, shared>>

\* The temporary name is renamed, whichever file it names; if there is none, an error.
RenameTmp(p) ==
  /\ holder[p].at = "rename"
  /\ LET f == holder[p].file IN
     IF names[Tmp(f)] # 0
     THEN /\ names' = [n \in Entries |-> IF n = Json(f) THEN names[Tmp(f)] ELSE IF n = Tmp(f) THEN 0 ELSE names[n]]
          /\ kept' = IF holder[p].content.key # 0 THEN [kept EXCEPT ![f] = holder[p].content.key] ELSE kept
     ELSE UNCHANGED <<names, kept>>
  /\ holder' = [holder EXCEPT ![p] = NotWriting]
  /\ Sweep
  /\ UNCHANGED shared

\* The process is killed; what it wrote stays under the temporary name.
Kill(p) ==
  /\ Writing(p)
  /\ holder' = [holder EXCEPT ![p] = NotWriting]
  /\ UNCHANGED <<names, kept, shared>>
  /\ Sweep

KeyringNext ==
  \E p \in Holder :
    \/ \E a \in Aliases : Generate(p, a) \/ Select(p, a)
    \/ OpenTmp(p) \/ WriteTmp(p) \/ RenameTmp(p) \/ Kill(p)

KeyringSpec == KeyringInit /\ [][KeyringNext]_keyringVars

\* list_aliases, and is_trusted_local_sponsor over them, which gives up at the
\* first file that cannot be read.
Listed == {a \in Aliases \ {SessionFile} : names[Json(a)] # 0}
Trusted(k) ==
  /\ \A a \in Listed : IsIdentity(Json(a))
  /\ \E a \in Listed : Content(Json(a)).key = k

\* The identity that was generated last under an alias can be loaded from then on,
\* whatever writer is killed at whatever point, and its key is trusted; the selected
\* identity can be loaded too; and no reader finds half a file.  It is not so for a
\* file that two processes write at once, nor for the alias "session", which
\* select_active_identity overwrites.  (generate looks for the file long before it
\* writes it: of two that overlap the second may replace the first's key.)
IdentitiesAreKept ==
  /\ \A a \in Aliases \ (shared \cup {SessionFile}) : kept[a] # 0 => Loads(a) /\ Content(Json(a)).key = kept[a]
  /\ \A f \in (Aliases \cup {SessionFile}) \ shared : names[Json(f)] # 0 => Parses(Json(f))
  /\ shared = {} =>
       /\ \A a \in Aliases \ {SessionFile} : kept[a] # 0 => Trusted(kept[a])
       /\ Parses(Json(SessionFile)) /\ ~IsIdentity(Json(SessionFile)) =>
            LET a == Content(Json(SessionFile)).alias IN a # SessionFile => Loads(a)
===============================================================================
