---------------------------- MODULE RepositoryProofs ----------------------------
(* Theorems about Repository, for any processes, commands and crashes: no         *)
(* reference leads nowhere, a view without rewritten history can be checked out,  *)
(* commands that take the lock exclude each other; and, where their hypotheses    *)
(* hold, the bytes of every file in a view are kept, undo takes back what was     *)
(* done last, redo repeats it, and a clean working directory follows the view.    *)
EXTENDS Repository, Induction, FiniteSetTheorems, SequenceTheorems

-----------------------------------------------------------------------------
(* Plans: what their writes need and make known.                             *)

IsSeq(s) == s \in Seq(Range(s))

\* What a write makes known: a change that is stored, ids that are redirected.
Adds(w) == IF w.w = "change" THEN {w.id} ELSE IF w.w = "epoch" THEN w.ids ELSE {}
Moves(w) == IF w.w = "epoch" THEN w.ids ELSE {}
Added(q) == UNION {Adds(q[i]) : i \in 1..Len(q)}
Moved(q) == UNION {Moves(q[i]) : i \in 1..Len(q)}
AddedBefore(q, i) == UNION {Adds(q[j]) : j \in 1..(i - 1)}
MovedBefore(q, i) == UNION {Moves(q[j]) : j \in 1..(i - 1)}

OpLeads(o, K) == o.view \in View /\ o.before \subseteq K /\ o.after \subseteq K

\* What a command does when the working directory cannot be written.
FallsBack(q, K) ==
  /\ IsSeq(q)
  /\ \A i \in 1..Len(q) :
       \/ q[i].w = "view" /\ q[i].view \in View /\ q[i].heads \subseteq K
       \/ q[i].w = "wd" /\ q[i].undo = <<>>

Leads(w, ch, N, K, E) ==
  /\ w.w = "change" => w.id \in DOMAIN ch /\ ch[w.id].deps \subseteq K
  /\ w.w = "epoch" => w.ids \subseteq DOMAIN ch
  /\ w.w = "view" => w.view \in View /\ w.heads \subseteq K
  /\ w.w = "head" => w.view \in N
  /\ w.w = "append" => OpLeads(w.op, K)
  /\ w.w = "redo" => IsSeq(w.stack) /\ \A i \in 1..Len(w.stack) : OpLeads(w.stack[i], K)
  /\ w.w = "unstore" => w.id \in E
  /\ w.w = "wd" => FallsBack(w.undo, K)

Backed(q, ch, N, K, E) ==
  /\ IsSeq(q)
  /\ \A i \in 1..Len(q) : Leads(q[i], ch, N, K \cup AddedBefore(q, i), E \cup MovedBefore(q, i))

\* A plan that may begin where K is known and E redirected, and that has then made
\* L known and F redirected.
Takes(q, ch, N, K, E, L, F) ==
  /\ Backed(q, ch, N, K, E)
  /\ L \subseteq K \cup Added(q) /\ F \subseteq E \cup Moved(q)

Extends(new, ch) == DOMAIN ch \subseteq DOMAIN new /\ \A x \in DOMAIN ch : new[x] = ch[x]

\* A sequence of anything is one of what it holds.
LEMMA SeqHasRange ==
  ASSUME NEW S, NEW s \in Seq(S) PROVE IsSeq(s)
  BY DEF IsSeq, Range

\* The elements of two sequences put together (the plans are built with \o).
LEMMA ConcatSeq ==
  ASSUME NEW a, IsSeq(a), NEW b, IsSeq(b)
  PROVE  /\ IsSeq(a \o b) /\ Len(a) \in Nat /\ Len(b) \in Nat /\ Len(a \o b) = Len(a) + Len(b)
         /\ \A i \in 1..Len(a) : (a \o b)[i] = a[i]
         /\ \A i \in 1..Len(b) : (a \o b)[Len(a) + i] = b[i]
         /\ \A i \in 1..(Len(a) + Len(b)) : i \in 1..Len(a) \/ (i - Len(a) \in 1..Len(b) /\ i = Len(a) + (i - Len(a)))
  <1> DEFINE S == Range(a) \cup Range(b)
  <1>1. a \in Seq(S) /\ b \in Seq(S)
    BY DEF IsSeq
  <1> HIDE DEF S
  <1>2. a \o b \in Seq(S)
    BY <1>1
  <1>3. IsSeq(a \o b)
    BY <1>2, SeqHasRange
  <1> QED
    BY <1>1, <1>3

\* A write that may be done may be done later, when more is there.
LEMMA LeadsOn ==
  ASSUME NEW w, NEW ch, NEW N, NEW K, NEW E, Leads(w, ch, N, K, E),
         NEW new, NEW M, NEW L, NEW F, Extends(new, ch), N \subseteq M, K \subseteq L, E \subseteq F
  PROVE  Leads(w, new, M, L, F)
  <1>1. \A o : OpLeads(o, K) => OpLeads(o, L)
    BY DEF OpLeads
  <1>2. \A q : FallsBack(q, K) => FallsBack(q, L)
    BY DEF FallsBack
  <1> QED
    BY <1>1, <1>2 DEF Leads, Extends

\* So may a plan.
LEMMA BackedOn ==
  ASSUME NEW q, NEW ch, NEW N, NEW K, NEW E, Backed(q, ch, N, K, E),
         NEW new, NEW M, NEW L, NEW F, Extends(new, ch), N \subseteq M, K \subseteq L, E \subseteq F
  PROVE  Backed(q, new, M, L, F)
  <1>1. ASSUME NEW i \in 1..Len(q)
        PROVE  Leads(q[i], new, M, L \cup AddedBefore(q, i), F \cup MovedBefore(q, i))
    <2> DEFINE A == AddedBefore(q, i)
               B == MovedBefore(q, i)
    <2>1. Leads(q[i], ch, N, K \cup A, E \cup B)
      BY DEF Backed
    <2> HIDE DEF A, B
    <2>2. K \cup A \subseteq L \cup A /\ E \cup B \subseteq F \cup B
      OBVIOUS
    <2>3. Leads(q[i], new, M, L \cup A, F \cup B)
      BY <2>1, <2>2, LeadsOn
    <2> QED
      BY <2>3 DEF A, B
  <1> QED
    BY <1>1 DEF Backed

\* Content that nothing was added to.
LEMMA ExtendsItself == ASSUME NEW ch PROVE Extends(ch, ch)
  BY DEF Extends

\* One plan after the other.
LEMMA TakesBoth ==
  ASSUME NEW a, NEW b, NEW ch, NEW N, NEW K, NEW E, NEW L, NEW F, NEW G, NEW H,
         Takes(a, ch, N, K, E, L, F), Takes(b, ch, N, L, F, G, H)
  PROVE  Takes(a \o b, ch, N, K, E, G, H)
  <1> DEFINE q == a \o b
  <1>1. IsSeq(a) /\ IsSeq(b)
    BY DEF Takes, Backed
  <1>2. /\ IsSeq(q) /\ Len(a) \in Nat /\ Len(b) \in Nat /\ Len(q) = Len(a) + Len(b)
        /\ \A i \in 1..Len(a) : q[i] = a[i]
        /\ \A i \in 1..Len(b) : q[Len(a) + i] = b[i]
        /\ \A i \in 1..(Len(a) + Len(b)) : i \in 1..Len(a) \/ (i - Len(a) \in 1..Len(b) /\ i = Len(a) + (i - Len(a)))
    BY <1>1, ConcatSeq
  <1> HIDE DEF q
  <1>3. Added(a) \cup Added(b) \subseteq Added(q) /\ Moved(a) \cup Moved(b) \subseteq Moved(q)
    <2>1. ASSUME NEW i \in 1..Len(a) PROVE i \in 1..Len(q) /\ q[i] = a[i]
      BY <1>2
    <2>2. ASSUME NEW i \in 1..Len(b) PROVE Len(a) + i \in 1..Len(q) /\ q[Len(a) + i] = b[i]
      BY <1>2
    <2>3. Added(a) \subseteq Added(q) /\ Moved(a) \subseteq Moved(q)
      BY <2>1 DEF Added, Moved
    <2>4. Added(b) \subseteq Added(q) /\ Moved(b) \subseteq Moved(q)
      BY <2>2 DEF Added, Moved
    <2> QED
      BY <2>3, <2>4
  <1>4. G \subseteq K \cup Added(q) /\ H \subseteq E \cup Moved(q)
    <2>1. L \subseteq K \cup Added(a) /\ F \subseteq E \cup Moved(a)
      BY DEF Takes
    <2>2. G \subseteq L \cup Added(b) /\ H \subseteq F \cup Moved(b)
      BY DEF Takes
    <2> QED
      BY <1>3, <2>1, <2>2, Zenon
  <1>5. ASSUME NEW i \in 1..Len(q)
        PROVE  Leads(q[i], ch, N, K \cup AddedBefore(q, i), E \cup MovedBefore(q, i))
    <2>1. CASE i \in 1..Len(a)
      <3>1. AddedBefore(q, i) = AddedBefore(a, i) /\ MovedBefore(q, i) = MovedBefore(a, i)
        <4>1. \A j \in 1..(i - 1) : q[j] = a[j]
          BY <1>2, <2>1
        <4> QED
          BY <4>1 DEF AddedBefore, MovedBefore
      <3>2. Leads(a[i], ch, N, K \cup AddedBefore(a, i), E \cup MovedBefore(a, i))
        BY <2>1 DEF Takes, Backed
      <3> QED
        BY <1>2, <2>1, <3>1, <3>2
    <2>2. CASE i - Len(a) \in 1..Len(b)
      <3> DEFINE k == i - Len(a)
      <3>1. k \in 1..Len(b) /\ i = Len(a) + k /\ k \in Int
        BY <1>2, <2>2
      <3> HIDE DEF k
      <3>2. q[i] = b[k]
        BY <1>2, <3>1
      <3>3. Added(a) \subseteq AddedBefore(q, i) /\ Moved(a) \subseteq MovedBefore(q, i)
        <4>1. ASSUME NEW j \in 1..Len(a) PROVE j \in 1..(i - 1) /\ q[j] = a[j]
          BY <1>2, <3>1
        <4> QED
          BY <4>1 DEF Added, Moved, AddedBefore, MovedBefore
      <3>4. AddedBefore(b, k) \subseteq AddedBefore(q, i) /\ MovedBefore(b, k) \subseteq MovedBefore(q, i)
        <4>1. ASSUME NEW j \in 1..(k - 1) PROVE Len(a) + j \in 1..(i - 1) /\ q[Len(a) + j] = b[j]
          <5>1. j \in 1..Len(b) /\ j < k
            BY <1>2, <3>1
          <5>2. Len(a) + j < i /\ Len(a) + j >= 1 /\ Len(a) + j \in Int
            BY <1>2, <3>1, <5>1
          <5> QED
            BY <1>2, <5>1, <5>2
        <4> QED
          BY <4>1 DEF AddedBefore, MovedBefore
      <3>5. Leads(b[k], ch, N, L \cup AddedBefore(b, k), F \cup MovedBefore(b, k))
        BY <3>1 DEF Takes, Backed
      <3>6. /\ L \cup AddedBefore(b, k) \subseteq K \cup AddedBefore(q, i)
            /\ F \cup MovedBefore(b, k) \subseteq E \cup MovedBefore(q, i)
        BY <3>3, <3>4 DEF Takes
      <3>7. Leads(b[k], ch, N, K \cup AddedBefore(q, i), E \cup MovedBefore(q, i))
        BY <3>5, <3>6, LeadsOn, ExtendsItself
      <3> QED
        BY <3>2, <3>7
    <2> QED
      BY <1>2, <2>1, <2>2
  <1>6. Takes(q, ch, N, K, E, G, H)
    BY <1>2, <1>4, <1>5 DEF Takes, Backed
  <1> QED
    BY <1>6 DEF q

\* A plan of one write.
LEMMA OneWrite ==
  ASSUME NEW w, NEW ch, NEW N, NEW K, NEW E, Leads(w, ch, N, K, E)
  PROVE  Takes(<<w>>, ch, N, K, E, K \cup Adds(w), E \cup Moves(w))
  <1>1. IsSeq(<<w>>) /\ Len(<<w>>) = 1 /\ <<w>>[1] = w
    BY DEF IsSeq, Range
  <1>2. AddedBefore(<<w>>, 1) = {} /\ MovedBefore(<<w>>, 1) = {}
    BY DEF AddedBefore, MovedBefore
  <1>3. Backed(<<w>>, ch, N, K, E)
    BY <1>1, <1>2 DEF Backed
  <1>4. Added(<<w>>) = Adds(w) /\ Moved(<<w>>) = Moves(w)
    BY <1>1 DEF Added, Moved
  <1> QED
    BY <1>3, <1>4 DEF Takes

\* A plan of no write.
LEMMA NoWrite ==
  ASSUME NEW ch, NEW N, NEW K, NEW E
  PROVE  Takes(<<>>, ch, N, K, E, K, E)
  BY DEF Takes, Backed, IsSeq, Range

\* The first write of a plan is done.
LEMMA FirstWrite ==
  ASSUME NEW q, NEW ch, NEW N, NEW K, NEW E, Backed(q, ch, N, K, E), q # <<>>
  PROVE  /\ Leads(Head(q), ch, N, K, E)
         /\ Backed(Tail(q), ch, N, K \cup Adds(Head(q)), E \cup Moves(Head(q)))
  <1>1. q \in Seq(Range(q)) /\ Len(q) \in Nat /\ Len(q) >= 1 /\ Head(q) = q[1]
    BY DEF Backed, IsSeq
  <1> DEFINE t == Tail(q)
  <1>2. IsSeq(t) /\ Len(t) = Len(q) - 1 /\ \A i \in 1..Len(t) : t[i] = q[i + 1]
    <2>1. t \in Seq(Range(q))
      BY <1>1
    <2>2. IsSeq(t)
      BY <2>1, SeqHasRange
    <2> QED
      BY <1>1, <2>2
  <1> HIDE DEF t
  <1>3. Leads(q[1], ch, N, K, E)
    <2>1. AddedBefore(q, 1) = {} /\ MovedBefore(q, 1) = {}
      BY DEF AddedBefore, MovedBefore
    <2>2. K \cup AddedBefore(q, 1) = K /\ E \cup MovedBefore(q, 1) = E
      BY <2>1
    <2>4. 1 \in 1..Len(q)
      BY <1>1
    <2>3. Leads(q[1], ch, N, K \cup AddedBefore(q, 1), E \cup MovedBefore(q, 1))
      BY <2>4, Zenon DEF Backed
    <2> QED
      BY <2>2, <2>3
  <1>4. ASSUME NEW i \in 1..Len(t)
        PROVE  Leads(t[i], ch, N, (K \cup Adds(q[1])) \cup AddedBefore(t, i), (E \cup Moves(q[1])) \cup MovedBefore(t, i))
    <2> DEFINE m == i + 1
    <2>5. m \in 1..Len(q)
      BY <1>1, <1>2
    <2>6. Leads(q[m], ch, N, K \cup AddedBefore(q, m), E \cup MovedBefore(q, m))
      <3> HIDE DEF m
      <3> QED
        BY <2>5 DEF Backed
    <2>1. Leads(q[i + 1], ch, N, K \cup AddedBefore(q, i + 1), E \cup MovedBefore(q, i + 1))
      BY <2>6
    <2>2. /\ AddedBefore(q, i + 1) \subseteq Adds(q[1]) \cup AddedBefore(t, i)
          /\ MovedBefore(q, i + 1) \subseteq Moves(q[1]) \cup MovedBefore(t, i)
      <3>1. ASSUME NEW j \in 1..((i + 1) - 1) PROVE j = 1 \/ (j - 1 \in 1..(i - 1) /\ t[j - 1] = q[j])
        BY <1>1, <1>2
      <3> QED
        BY <3>1 DEF AddedBefore, MovedBefore
    <2>3. /\ K \cup AddedBefore(q, i + 1) \subseteq (K \cup Adds(q[1])) \cup AddedBefore(t, i)
          /\ E \cup MovedBefore(q, i + 1) \subseteq (E \cup Moves(q[1])) \cup MovedBefore(t, i)
      BY <2>2
    <2>4. Leads(q[i + 1], ch, N, (K \cup Adds(q[1])) \cup AddedBefore(t, i), (E \cup Moves(q[1])) \cup MovedBefore(t, i))
      BY <2>1, <2>3, LeadsOn, ExtendsItself
    <2> QED
      BY <1>2, <2>4
  <1>5. Backed(t, ch, N, K \cup Adds(q[1]), E \cup Moves(q[1]))
    BY <1>2, <1>4 DEF Backed
  <1> QED
    BY <1>1, <1>3, <1>5 DEF t

-----------------------------------------------------------------------------
(* The writes and parts of the commands' plans.                              *)

\* One write as a plan: what it needs and what it makes known.
LEMMA Writes ==
  ASSUME NEW ch, NEW N, NEW K, NEW E
  PROVE  /\ \A v : Takes(write_blob(v), ch, N, K, E, K, E)
         /\ \A id \in DOMAIN ch : ch[id].deps \subseteq K => Takes(write_change(id), ch, N, K, E, K \cup {id}, E)
         /\ \A v \in View : \A hs : hs \subseteq K => Takes(save_view(v, hs), ch, N, K, E, K, E)
         /\ \A v \in N : Takes(set_head(v), ch, N, K, E, K, E)
         /\ \A ids, to : ids \subseteq DOMAIN ch => Takes(set_epoch(ids, to), ch, N, K, E, K \cup ids, E \cup ids)
         /\ Takes(pop, ch, N, K, E, K, E)
         /\ \A o : OpLeads(o, K) => Takes(append(o), ch, N, K, E, K, E)
         /\ \A s : IsSeq(s) /\ (\A i \in 1..Len(s) : OpLeads(s[i], K)) => Takes(save_redo(s), ch, N, K, E, K, E)
         /\ \A x \in E : Takes(remove_change(x), ch, N, K, E, K, E)
         /\ \A vs : Takes(remove_blobs(vs), ch, N, K, E, K, E)
         /\ Takes(remove_file, ch, N, K, E, K, E)
         /\ Takes(hang, ch, N, K, E, K, E)
         /\ \A t, q : FallsBack(q, K) => Takes(write_state(t, q), ch, N, K, E, K, E)
  <1>0. ASSUME NEW w, Leads(w, ch, N, K, E), Adds(w) = {}, Moves(w) = {}
        PROVE  Takes(<<w>>, ch, N, K, E, K, E)
    <2>1. K \cup Adds(w) = K /\ E \cup Moves(w) = E
      BY <1>0
    <2>2. Takes(<<w>>, ch, N, K, E, K \cup Adds(w), E \cup Moves(w))
      BY <1>0, OneWrite
    <2> QED
      BY <2>1, <2>2
  <1>1. ASSUME NEW v PROVE Takes(write_blob(v), ch, N, K, E, K, E)
    <2> DEFINE w == [w |-> "blob", v |-> v]
    <2>1. Leads(w, ch, N, K, E) /\ Adds(w) = {} /\ Moves(w) = {}
      BY DEF Leads, Adds, Moves
    <2> HIDE DEF w
    <2>2. Takes(<<w>>, ch, N, K, E, K, E) /\ Takes(<<>>, ch, N, K, E, K, E)
      BY <2>1, <1>0, NoWrite
    <2> QED
      BY <2>2 DEF write_blob, w
  <1>2. ASSUME NEW id \in DOMAIN ch, ch[id].deps \subseteq K
        PROVE  Takes(write_change(id), ch, N, K, E, K \cup {id}, E)
    <2> DEFINE w == [w |-> "change", id |-> id]
    <2>1. Leads(w, ch, N, K, E) /\ Adds(w) = {id} /\ Moves(w) = {}
      BY <1>2 DEF Leads, Adds, Moves
    <2> HIDE DEF w
    <2>2. Takes(<<w>>, ch, N, K, E, K \cup Adds(w), E \cup Moves(w))
      BY <2>1, OneWrite
    <2>3. K \cup Adds(w) = K \cup {id} /\ E \cup Moves(w) = E
      BY <2>1
    <2> QED
      BY <2>2, <2>3 DEF write_change, w
  <1>3. ASSUME NEW v \in View, NEW hs, hs \subseteq K
        PROVE  Takes(save_view(v, hs), ch, N, K, E, K, E)
    <2> DEFINE w == [w |-> "view", view |-> v, heads |-> hs]
    <2>1. Leads(w, ch, N, K, E) /\ Adds(w) = {} /\ Moves(w) = {}
      BY <1>3 DEF Leads, Adds, Moves
    <2> HIDE DEF w
    <2>2. Takes(<<w>>, ch, N, K, E, K, E)
      BY <2>1, <1>0
    <2> QED
      BY <2>2 DEF save_view, w
  <1>4. ASSUME NEW v \in N PROVE Takes(set_head(v), ch, N, K, E, K, E)
    <2> DEFINE w == [w |-> "head", view |-> v]
    <2>1. Leads(w, ch, N, K, E) /\ Adds(w) = {} /\ Moves(w) = {}
      BY DEF Leads, Adds, Moves
    <2> HIDE DEF w
    <2>2. Takes(<<w>>, ch, N, K, E, K, E)
      BY <2>1, <1>0
    <2> QED
      BY <2>2 DEF set_head, w
  <1>5. ASSUME NEW ids, NEW to, ids \subseteq DOMAIN ch
        PROVE  Takes(set_epoch(ids, to), ch, N, K, E, K \cup ids, E \cup ids)
    <2> DEFINE w == [w |-> "epoch", ids |-> ids, to |-> to]
    <2>1. Leads(w, ch, N, K, E) /\ Adds(w) = ids /\ Moves(w) = ids
      BY <1>5 DEF Leads, Adds, Moves
    <2> HIDE DEF w
    <2>2. Takes(<<w>>, ch, N, K, E, K \cup Adds(w), E \cup Moves(w))
      BY <2>1, OneWrite
    <2> QED
      BY <2>1, <2>2 DEF set_epoch, w
  <1>6. Takes(pop, ch, N, K, E, K, E)
    <2> DEFINE w == [w |-> "pop"]
    <2>1. Leads(w, ch, N, K, E) /\ Adds(w) = {} /\ Moves(w) = {}
      BY DEF Leads, Adds, Moves
    <2> HIDE DEF w
    <2>2. Takes(<<w>>, ch, N, K, E, K, E)
      BY <2>1, <1>0
    <2> QED
      BY <2>2 DEF pop, w
  <1>7. ASSUME NEW o, OpLeads(o, K) PROVE Takes(append(o), ch, N, K, E, K, E)
    <2> DEFINE w == [w |-> "append", op |-> o]
    <2>1. Leads(w, ch, N, K, E) /\ Adds(w) = {} /\ Moves(w) = {}
      BY <1>7 DEF Leads, Adds, Moves
    <2> HIDE DEF w
    <2>2. Takes(<<w>>, ch, N, K, E, K, E)
      BY <2>1, <1>0
    <2> QED
      BY <2>2 DEF append, w
  <1>8. ASSUME NEW s, IsSeq(s), \A i \in 1..Len(s) : OpLeads(s[i], K)
        PROVE  Takes(save_redo(s), ch, N, K, E, K, E)
    <2> DEFINE w == [w |-> "redo", stack |-> s]
    <2>1. Leads(w, ch, N, K, E) /\ Adds(w) = {} /\ Moves(w) = {}
      BY <1>8 DEF Leads, Adds, Moves
    <2> HIDE DEF w
    <2>2. Takes(<<w>>, ch, N, K, E, K, E)
      BY <2>1, <1>0
    <2> QED
      BY <2>2 DEF save_redo, w
  <1>9. ASSUME NEW x \in E PROVE Takes(remove_change(x), ch, N, K, E, K, E)
    <2> DEFINE w == [w |-> "unstore", id |-> x]
    <2>1. Leads(w, ch, N, K, E) /\ Adds(w) = {} /\ Moves(w) = {}
      BY DEF Leads, Adds, Moves
    <2> HIDE DEF w
    <2>2. Takes(<<w>>, ch, N, K, E, K, E)
      BY <2>1, <1>0
    <2> QED
      BY <2>2 DEF remove_change, w
  <1>10. ASSUME NEW vs PROVE Takes(remove_blobs(vs), ch, N, K, E, K, E)
    <2> DEFINE w == [w |-> "gc", keep |-> vs]
    <2>1. Leads(w, ch, N, K, E) /\ Adds(w) = {} /\ Moves(w) = {}
      BY DEF Leads, Adds, Moves
    <2> HIDE DEF w
    <2>2. Takes(<<w>>, ch, N, K, E, K, E)
      BY <2>1, <1>0
    <2> QED
      BY <2>2 DEF remove_blobs, w
  <1>11. Takes(remove_file, ch, N, K, E, K, E)
    <2> DEFINE w == [w |-> "rmblob"]
    <2>1. Leads(w, ch, N, K, E) /\ Adds(w) = {} /\ Moves(w) = {}
      BY DEF Leads, Adds, Moves
    <2> HIDE DEF w
    <2>2. Takes(<<w>>, ch, N, K, E, K, E)
      BY <2>1, <1>0
    <2> QED
      BY <2>2 DEF remove_file, w
  <1>12. Takes(hang, ch, N, K, E, K, E)
    <2> DEFINE w == [w |-> "hang"]
    <2>1. Leads(w, ch, N, K, E) /\ Adds(w) = {} /\ Moves(w) = {}
      BY DEF Leads, Adds, Moves
    <2> HIDE DEF w
    <2>2. Takes(<<w>>, ch, N, K, E, K, E)
      BY <2>1, <1>0
    <2> QED
      BY <2>2 DEF hang, w
  <1>13. ASSUME NEW t, NEW q, FallsBack(q, K) PROVE Takes(write_state(t, q), ch, N, K, E, K, E)
    <2> DEFINE w == [w |-> "wd", tree |-> t, undo |-> q]
    <2>1. Leads(w, ch, N, K, E) /\ Adds(w) = {} /\ Moves(w) = {}
      BY <1>13 DEF Leads, Adds, Moves
    <2> HIDE DEF w
    <2>2. Takes(<<w>>, ch, N, K, E, K, E)
      BY <2>1, <1>0
    <2> QED
      BY <2>2 DEF write_state, w
  <1> QED
    BY <1>1, <1>2, <1>3, <1>4, <1>5, <1>6, <1>7, <1>8, <1>9, <1>10, <1>11, <1>12, <1>13

\* log_operation records an operation whose heads are known.
LEMMA LogsOperation ==
  ASSUME NEW ch, NEW N, NEW K, NEW E, NEW v \in View, NEW before, NEW after,
         before \subseteq K, after \subseteq K
  PROVE  Takes(log_operation(v, before, after), ch, N, K, E, K, E)
  <1> DEFINE o == Op(v, before, after)
             a == save_redo(<<>>)
             b == append(o)
  <1>1. OpLeads(o, K)
    BY DEF OpLeads, Op
  <1>2. IsSeq(<<>>) /\ \A i \in 1..Len(<<>>) : OpLeads(<<>>[i], K)
    BY DEF IsSeq, Range
  <1> HIDE DEF o
  <1>3. Takes(a, ch, N, K, E, K, E) /\ Takes(b, ch, N, K, E, K, E)
    BY <1>1, <1>2, Writes
  <1> HIDE DEF a, b
  <1>4. Takes(a \o b, ch, N, K, E, K, E)
    BY <1>3, TakesBoth
  <1> QED
    BY <1>4 DEF log_operation, a, b, o

\* The rest of a command that may fail or hang when it looks at some heads.
LEMMA ThenTakes ==
  ASSUME NEW ch, NEW N, NEW K, NEW E, NEW hs, NEW rest, Takes(rest, ch, N, K, E, K, E)
  PROVE  Takes(Then(hs, rest), ch, N, K, E, K, E)
  <1>1. checkout(hs) \in {"ok", "error", "hang"}
    <2>1. hydrate_heads(hs) \in {"ok", "error", "hang"}
      BY Zenon DEF hydrate_heads
    <2> QED
      BY <2>1 DEF checkout
  <1>2. Takes(<<>>, ch, N, K, E, K, E) /\ Takes(hang, ch, N, K, E, K, E)
    BY NoWrite, Writes
  <1>3. CASE checkout(hs) = "ok"
    BY <1>3 DEF Then
  <1>4. CASE checkout(hs) = "error"
    BY <1>2, <1>4 DEF Then
  <1>5. CASE checkout(hs) = "hang"
    BY <1>2, <1>5 DEF Then
  <1> QED
    BY <1>1, <1>3, <1>4, <1>5

\* A rollback that puts known heads back.
LEMMA RollsBack ==
  ASSUME NEW K, NEW v \in View, NEW hs, hs \subseteq K, NEW t
  PROVE  FallsBack(save_view(v, hs) \o write_state(t, <<>>), K)
  BY DEF FallsBack, save_view, write_state, IsSeq, Range

\* No rollback at all, as most commands have it.
LEMMA NoRollback ==
  ASSUME NEW K PROVE FallsBack(<<>>, K)
  BY DEF FallsBack, IsSeq, Range

-----------------------------------------------------------------------------
(* Plans in any order: compact's views and deletions.                         *)

\* f has what FlattenSeq makes of the first sequences of ss.
IsFlat(f, n, ss) == f = [i \in 1..n |-> IF i = 1 THEN ss[i] ELSE f[i - 1] \o ss[i]]

\* FlattenSeq's function exists.
LEMMA FlatExists ==
  ASSUME NEW n \in Nat, NEW ss
  PROVE  \E f : IsFlat(f, n, ss)
  <1> DEFINE S == {k \in Nat : \E f : IsFlat(f, k, ss)}
  <1>1. 0 \in S
    <2> DEFINE f == [i \in 1..0 |-> ss]
    <2>1. f = [i \in 1..0 |-> IF i = 1 THEN ss[i] ELSE f[i - 1] \o ss[i]]
      OBVIOUS
    <2> HIDE DEF f
    <2> QED
      BY <2>1 DEF IsFlat
  <1>2. ASSUME NEW k \in Nat, k \in S PROVE k + 1 \in S
    <2>1. PICK f : IsFlat(f, k, ss)
      BY <1>2
    <2> DEFINE g == [i \in 1..(k + 1) |-> IF i = k + 1 THEN (IF k = 0 THEN ss[i] ELSE f[k] \o ss[i]) ELSE f[i]]
               step(i) == IF i = 1 THEN ss[i] ELSE g[i - 1] \o ss[i]
    <2>2. ASSUME NEW i \in 1..(k + 1) PROVE g[i] = step(i)
      <3>1. CASE i = k + 1 /\ k = 0
        BY <3>1
      <3>2. CASE i = k + 1 /\ k # 0
        <4>1. i - 1 = k /\ i # 1 /\ k \in 1..(k + 1) /\ k # k + 1
          BY <3>2
        <4>2. g[k] = f[k] /\ g[i] = f[k] \o ss[i]
          BY <3>2, <4>1
        <4> QED
          BY <4>1, <4>2
      <3>3. CASE i \in 2..k
        <4>1. i - 1 \in 1..(k + 1) /\ i - 1 # k + 1 /\ i # k + 1 /\ i \in 1..k /\ i # 1
          BY <3>3
        <4>2. g[i] = f[i] /\ g[i - 1] = f[i - 1]
          BY <4>1
        <4>3. f[i] = f[i - 1] \o ss[i]
          BY <2>1, <4>1, Zenon DEF IsFlat
        <4> QED
          BY <4>1, <4>2, <4>3
      <3>4. CASE i = 1 /\ k # 0
        <4>1. i \in 1..k /\ i # k + 1 /\ i = 1
          BY <3>4
        <4>2. f[i] = ss[i]
          BY <2>1, <4>1, Zenon DEF IsFlat
        <4> QED
          BY <4>1, <4>2
      <3> QED
        BY <3>1, <3>2, <3>3, <3>4
    <2>3. g = [i \in 1..(k + 1) |-> g[i]]
      BY Zenon
    <2>4. g = [i \in 1..(k + 1) |-> step(i)]
      <3> HIDE DEF g, step
      <3> QED
        BY <2>2, <2>3, Zenon
    <2> HIDE DEF g
    <2>5. IsFlat(g, k + 1, ss)
      BY <2>4 DEF IsFlat
    <2> QED
      BY <2>5
  <1> HIDE DEF S
  <1>3. Nat \subseteq S
    BY <1>1, <1>2, NatSetInduction
  <1> QED
    BY <1>3 DEF S

\* Plans that need nothing of each other, one after the other.
LEMMA FlattenedTakes ==
  ASSUME NEW ss, Len(ss) \in Nat, Len(ss) = 0 => ss = <<>>,
         NEW ch, NEW N, NEW K, NEW E, \A i \in 1..Len(ss) : Takes(ss[i], ch, N, K, E, K, E)
  PROVE  Takes(FlattenSeq(ss), ch, N, K, E, K, E)
  <1>1. CASE Len(ss) = 0
    <2>1. FlattenSeq(ss) = <<>>
      BY <1>1 DEF FlattenSeq
    <2> QED
      BY <2>1, NoWrite
  <1>2. CASE Len(ss) # 0
    <2> DEFINE f == CHOOSE f : f = [i \in 1..Len(ss) |-> IF i = 1 THEN ss[i] ELSE f[i - 1] \o ss[i]]
               S == {k \in Nat : k = 0 \/ Takes(f[k], ch, N, K, E, K, E)}
    <2>1. FlattenSeq(ss) = f[Len(ss)]
      BY <1>2, Zenon DEF FlattenSeq
    <2>2. \E g : IsFlat(g, Len(ss), ss)
      BY FlatExists
    <2>3. f = [i \in 1..Len(ss) |-> IF i = 1 THEN ss[i] ELSE f[i - 1] \o ss[i]]
      BY <2>2, Zenon DEF IsFlat
    <2> HIDE DEF f
    <2>4. ASSUME NEW k \in 1..Len(ss) PROVE f[k] = IF k = 1 THEN ss[k] ELSE f[k - 1] \o ss[k]
      BY <2>3, Zenon
    <2>5. ASSUME NEW k \in 1..Len(ss), k - 1 \in S PROVE k \in S
      <3>1. Takes(ss[k], ch, N, K, E, K, E)
        OBVIOUS
      <3>2. CASE k = 1
        <4>1. f[k] = ss[k]
          BY <2>4, <3>2
        <4> QED
          BY <3>1, <4>1
      <3>3. CASE k # 1
        <4> DEFINE a == f[k - 1]
                   b == ss[k]
        <4>1. Takes(a, ch, N, K, E, K, E)
          BY <2>5, <3>3
        <4>2. f[k] = a \o b
          BY <2>4, <3>3
        <4> HIDE DEF a
        <4>3. Takes(a \o b, ch, N, K, E, K, E)
          BY <3>1, <4>1, TakesBoth
        <4>4. Takes(f[k], ch, N, K, E, K, E)
          BY <4>2, <4>3
        <4> HIDE DEF b
        <4> QED
          BY <4>4
      <3> QED
        BY <3>2, <3>3
    <2>6. 0 \in S
      OBVIOUS
    <2> HIDE DEF S
    <2>7. 0..Len(ss) \subseteq S
      BY <2>5, <2>6, UpToInduction
    <2>8. Takes(f[Len(ss)], ch, N, K, E, K, E)
      <3>1. Len(ss) \in S
        BY <2>7
      <3> QED
        BY <1>2, <3>1 DEF S
    <2> QED
      BY <2>1, <2>8
  <1> QED
    BY <1>1, <1>2

\* The elements of a finite set, in some order.
LEMMA SetInSequence ==
  ASSUME NEW S, IsFiniteSet(S)
  PROVE  SetToSeq(S) \in Seq(S)
  <1>1. Cardinality(S) \in Nat /\ \E f : ExistsBijection(1..Cardinality(S), S)
    BY FS_CardinalityType
  <1>2. PICK f \in Bijection(1..Cardinality(S), S) : TRUE
    BY <1>1 DEF ExistsBijection
  <1>3. f \in [1..Cardinality(S) -> S] /\ IsInjective(f)
    BY <1>2 DEF Bijection, Injection, IsInjective
  <1>4. SetToSeq(S) \in [1..Cardinality(S) -> S]
    BY <1>3 DEF SetToSeq
  <1> QED
    BY <1>1, <1>4

\* So, in whatever order a set of such plans is taken.
LEMMA AllTake ==
  ASSUME NEW S, IsFiniteSet(S),
         NEW ch, NEW N, NEW K, NEW E, \A q \in S : Takes(q, ch, N, K, E, K, E)
  PROVE  Takes(FlattenSeq(SetToSeq(S)), ch, N, K, E, K, E)
  <1> DEFINE ss == SetToSeq(S)
  <1>1. ss \in Seq(S)
    BY SetInSequence
  <1> HIDE DEF ss
  <1>2. Len(ss) \in Nat /\ (Len(ss) = 0 => ss = <<>>) /\ \A i \in 1..Len(ss) : ss[i] \in S
    BY <1>1
  <1>3. \A i \in 1..Len(ss) : Takes(ss[i], ch, N, K, E, K, E)
    BY <1>2
  <1>4. Takes(FlattenSeq(ss), ch, N, K, E, K, E)
    BY <1>2, <1>3, FlattenedTakes
  <1> QED
    BY <1>4 DEF ss

-----------------------------------------------------------------------------
(* The invariant.                                                             *)

\* What a reference leads to: a stored change, or one the epoch map redirects.
Found == store \cup DOMAIN epoch

\* What there is leads to something.
Rooted ==
  /\ IsSeq(content)
  /\ Found \subseteq Ids
  /\ views \in [View -> (SUBSET Found) \cup {None}]
  /\ head \in Named
  /\ \A x \in store : deps(x) \subseteq Found
  /\ IsSeq(oplog) /\ \A i \in 1..Len(oplog) : OpLeads(oplog[i], Found)
  /\ IsSeq(redo) /\ \A i \in 1..Len(redo) : OpLeads(redo[i], Found)

\* What is left of every command can be done, in its order.
Plans ==
  /\ todo = [p \in Proc |-> todo[p]]
  /\ \A p \in Proc : Backed(todo[p], content, Named, Found, DOMAIN epoch)

IInv == Rooted /\ Plans

\* Every change comes from a command, so that there are no more than commands.
Counted == Len(content) <= issued /\ issued \in 0..MaxCommands

\* What the plans of the others count on is still there after a step.
Grows ==
  /\ Extends(content', content) /\ Named \subseteq Named'
  /\ Found \subseteq Found' /\ DOMAIN epoch \subseteq DOMAIN epoch'

\* One process gets another plan; the others' plans may go on, for what they count on is still there.
LEMMA PlansGoOn ==
  ASSUME Plans, Grows, NEW p \in Proc, NEW q, todo' = [todo EXCEPT ![p] = q],
         Backed(q, content', Named', Found', DOMAIN epoch')
  PROVE  Plans'
  <1>1. ASSUME NEW r \in Proc
        PROVE  Backed(todo'[r], content', Named', Found', DOMAIN epoch')
    <2>1. CASE r = p
      BY <2>1 DEF Plans
    <2>2. CASE r # p
      <3>1. todo'[r] = todo[r]
        BY <2>2 DEF Plans
      <3>2. Backed(todo[r], content, Named, Found, DOMAIN epoch)
        BY DEF Plans
      <3>3. Backed(todo[r], content', Named', Found', DOMAIN epoch')
        BY <3>2, BackedOn DEF Grows
      <3> QED
        BY <3>1, <3>3
    <2> QED
      BY <2>1, <2>2
  <1>2. todo' = [r \in Proc |-> todo'[r]]
    BY DEF Plans
  <1> QED
    BY <1>1, <1>2 DEF Plans

\* The first write of a plan is done and has made known what it should.
LEMMA PlansProceed ==
  ASSUME Plans, Grows, NEW p \in Proc, todo[p] # <<>>, Done(p),
         Adds(Head(todo[p])) \subseteq Found', Moves(Head(todo[p])) \subseteq DOMAIN epoch'
  PROVE  Plans'
  <1> DEFINE w == Head(todo[p])
             q == Tail(todo[p])
  <1>1. Backed(todo[p], content, Named, Found, DOMAIN epoch)
    BY DEF Plans
  <1>2. Backed(q, content, Named, Found \cup Adds(w), DOMAIN epoch \cup Moves(w))
    BY <1>1, FirstWrite
  <1>3. Found \cup Adds(w) \subseteq Found' /\ DOMAIN epoch \cup Moves(w) \subseteq DOMAIN epoch'
    BY DEF Grows
  <1> HIDE DEF w
  <1>4. todo' = [todo EXCEPT ![p] = q]
    BY DEF Done, Plans
  <1> HIDE DEF q
  <1>5. Backed(q, content', Named', Found', DOMAIN epoch')
    BY <1>2, <1>3, BackedOn DEF Grows
  <1> QED
    BY <1>4, <1>5, PlansGoOn

\* The write at hand finds what it needs.
LEMMA WriteLeads ==
  ASSUME IInv, NEW p \in Proc, todo[p] # <<>>
  PROVE  /\ Leads(Head(todo[p]), content, Named, Found, DOMAIN epoch)
         /\ Backed(Tail(todo[p]), content, Named, Found \cup Adds(Head(todo[p])), DOMAIN epoch \cup Moves(Head(todo[p])))
  <1>1. Backed(todo[p], content, Named, Found, DOMAIN epoch)
    BY DEF IInv, Plans
  <1> QED
    BY <1>1, FirstWrite

\* Nothing that is referred to, or refers to something, changes.
LEMMA RootedStays ==
  ASSUME Rooted, UNCHANGED <<content, store, views, head, epoch, oplog, redo>>
  PROVE  Rooted' /\ Grows
  BY DEF Rooted, Found, Named, Ids, deps, Grows, Extends

\* Change::new.
LEMMA Learned ==
  ASSUME IsSeq(content), NEW c, Learn(c)
  PROVE  /\ IsSeq(content') /\ Extends(content', content)
         /\ IdOf(c) \in DOMAIN content' /\ content'[IdOf(c)] = c
  <1>1. CASE Known(c)
    <2>1. content' = content
      BY <1>1 DEF Learn
    <2>2. IdOf(c) \in Ids /\ content[IdOf(c)] = c
      BY <1>1 DEF IdOf, Known
    <2> QED
      BY <2>1, <2>2 DEF Extends, Ids
  <1>2. CASE ~Known(c)
    <2>1. content' = Append(content, c) /\ IdOf(c) = Len(content) + 1
      BY <1>2 DEF Learn, IdOf
    <2> DEFINE S == Range(content) \cup {c}
    <2>2. content \in Seq(S) /\ c \in S
      BY DEF IsSeq
    <2> HIDE DEF S
    <2>3. content' \in Seq(S) /\ Len(content') = Len(content) + 1 /\ Len(content) \in Nat
      BY <2>1, <2>2
    <2>4. content'[Len(content) + 1] = c /\ \A i \in 1..Len(content) : content'[i] = content[i]
      BY <2>1, <2>2
    <2>5. DOMAIN content = 1..Len(content) /\ DOMAIN content' = 1..(Len(content) + 1)
      BY <2>2, <2>3
    <2>6. IsSeq(content')
      BY <2>3, SeqHasRange
    <2> QED
      BY <2>1, <2>3, <2>4, <2>5, <2>6 DEF Extends
  <1> QED
    BY <1>1, <1>2

\* A command begins with a plan that may begin where the repository stands.
LEMMA BeginSound ==
  ASSUME IInv, NEW p \in Proc, NEW c, NEW q, Begin(p, c, q),
         IsSeq(content'), Extends(content', content), NEW L, NEW F,
         Takes(q, content', Named, Found, DOMAIN epoch, L, F)
  PROVE  IInv'
  <1>1. UNCHANGED <<store, views, head, epoch, oplog, redo>> /\ todo' = [todo EXCEPT ![p] = q]
    BY DEF Begin
  <1>2. Grows /\ Named' = Named /\ Found' = Found
    BY <1>1 DEF Grows, Named, Found
  <1>3. Backed(q, content', Named', Found', DOMAIN epoch')
    BY <1>1, <1>2 DEF Takes
  <1>4. Plans'
    BY <1>1, <1>2, <1>3, PlansGoOn DEF IInv
  <1>5. Rooted'
    <2>1. Ids \subseteq Ids' /\ \A x \in Ids : deps(x)' = deps(x)
      BY DEF Extends, Ids, deps
    <2>2. \A x \in store' : deps(x)' \subseteq Found'
      BY <1>1, <1>2, <2>1 DEF IInv, Rooted, Found
    <2> QED
      BY <1>1, <1>2, <2>1, <2>2 DEF IInv, Rooted
  <1> QED
    BY <1>4, <1>5 DEF IInv

\* The rollback of a write that failed.
LEMMA RollbackBacked ==
  ASSUME NEW q, NEW ch, NEW N, NEW K, NEW E, FallsBack(q, K)
  PROVE  Backed(q, ch, N, K, E)
  <1>1. ASSUME NEW i \in 1..Len(q)
        PROVE  Leads(q[i], ch, N, K \cup AddedBefore(q, i), E \cup MovedBefore(q, i))
    <2>1. Leads(q[i], ch, N, K, E)
      <3>1. CASE q[i].w = "view" /\ q[i].view \in View /\ q[i].heads \subseteq K
        BY <3>1 DEF Leads
      <3>2. CASE q[i].w = "wd" /\ q[i].undo = <<>>
        BY <3>2, NoRollback DEF Leads
      <3> QED
        BY <3>1, <3>2 DEF FallsBack
    <2> DEFINE L == K \cup AddedBefore(q, i)
               F == E \cup MovedBefore(q, i)
    <2>2. K \subseteq L /\ E \subseteq F
      OBVIOUS
    <2> HIDE DEF L, F
    <2>3. Leads(q[i], ch, N, L, F)
      BY <2>1, <2>2, LeadsOn, ExtendsItself
    <2> QED
      BY <2>3 DEF L, F
  <1> QED
    BY <1>1 DEF Backed, FallsBack

\* The empty repository.
LEMMA InitSound == Init => IInv
  <1> SUFFICES ASSUME Init PROVE IInv
    OBVIOUS
  <1> USE RepositoryAssumption DEF Init
  <1>1. IsSeq(<<>>) /\ Len(<<>>) = 0 /\ DOMAIN <<>> = {}
    BY DEF IsSeq, Range
  <1>2. Found = {} /\ Ids = {}
    BY <1>1 DEF Found, Ids
  <1>3. {} # None
    BY Zenon
  <1>4. head \in Named /\ views \in [View -> (SUBSET Found) \cup {None}]
    <2>1. head \in View /\ views[head] = {}
      OBVIOUS
    <2>2. views \in [View -> (SUBSET Found) \cup {None}]
      BY <1>2
    <2> QED
      BY <1>3, <2>1, <2>2 DEF Named
  <1>5. Rooted
    <2>1. IsSeq(content) /\ IsSeq(oplog) /\ IsSeq(redo) /\ Len(oplog) = 0 /\ Len(redo) = 0 /\ store = {}
      BY <1>1
    <2> QED
      BY <1>2, <1>4, <2>1 DEF Rooted
  <1>6. ASSUME NEW p \in Proc PROVE Backed(todo[p], content, Named, Found, DOMAIN epoch)
    <2>1. todo[p] = <<>>
      OBVIOUS
    <2>2. Takes(<<>>, content, Named, Found, DOMAIN epoch, Found, DOMAIN epoch)
      BY NoWrite
    <2> QED
      BY <2>1, <2>2 DEF Takes
  <1>7. todo = [p \in Proc |-> todo[p]]
    OBVIOUS
  <1> QED
    BY <1>5, <1>6, <1>7 DEF IInv, Plans

-----------------------------------------------------------------------------
(* The writes.                                                                *)

\* Writes to blobs and files only.
LEMMA OtherWriteSound ==
  ASSUME IInv, NEW p \in Proc, todo[p] # <<>>, Head(todo[p]).w \notin {"change", "epoch"},
         UNCHANGED <<content, store, views, head, epoch, oplog, redo>>, Done(p)
  PROVE  IInv'
  <1>1. Rooted' /\ Grows
    BY RootedStays DEF IInv
  <1>2. Adds(Head(todo[p])) = {} /\ Moves(Head(todo[p])) = {}
    BY DEF Adds, Moves
  <1>3. Plans'
    BY <1>1, <1>2, PlansProceed DEF IInv
  <1> QED
    BY <1>1, <1>3 DEF IInv

\* A step that replaces a plan by one that may begin at any time.
LEMMA PlanReplaced ==
  ASSUME IInv, NEW p \in Proc, NEW q, todo' = [todo EXCEPT ![p] = q],
         Backed(q, content, Named, Found, DOMAIN epoch),
         UNCHANGED <<content, store, views, head, epoch, oplog, redo>>
  PROVE  IInv'
  <1>1. Rooted' /\ Grows
    BY RootedStays DEF IInv
  <1>2. Backed(q, content', Named', Found', DOMAIN epoch')
    BY <1>1, BackedOn DEF Grows
  <1>3. Plans'
    BY <1>1, <1>2, PlansGoOn DEF IInv
  <1> QED
    BY <1>1, <1>3 DEF IInv

\* A command that fails is left with nothing to do.
LEMMA EmptyPlan == ASSUME NEW ch, NEW N, NEW K, NEW E PROVE Backed(<<>>, ch, N, K, E)
  BY NoWrite DEF Takes

\* write_blob_atoms: skipped, begun, or an error.
LEMMA WriteBlobSound == ASSUME IInv, NEW p \in Proc, WriteBlob(p) PROVE IInv'
  <1>1. todo[p] # <<>> /\ Head(todo[p]).w = "blob"
    BY DEF WriteBlob, Doing
  <1>2. UNCHANGED <<content, store, views, head, epoch, oplog, redo>>
    BY DEF WriteBlob, unmoved
  <1>3. CASE Done(p)
    BY <1>1, <1>2, <1>3, OtherWriteSound
  <1>4. CASE todo' = [todo EXCEPT ![p] = <<>>]
    BY <1>2, <1>4, EmptyPlan, PlanReplaced
  <1>5. CASE todo' = [todo EXCEPT ![p] = <<[w |-> "fill", v |-> Head(todo[p]).v, bytes |-> wd.blob]>> \o Tail(@)]
    <2> DEFINE w == [w |-> "fill", v |-> Head(todo[p]).v, bytes |-> wd.blob]
               t == Tail(todo[p])
    <2>1. todo' = [todo EXCEPT ![p] = <<w>> \o t]
      BY <1>5 DEF IInv, Plans
    <2>2. Leads(w, content, Named, Found, DOMAIN epoch) /\ Adds(w) = {} /\ Moves(w) = {}
      BY DEF Leads, Adds, Moves
    <2>3. Adds(Head(todo[p])) = {} /\ Moves(Head(todo[p])) = {}
      BY <1>1 DEF Adds, Moves
    <2>4. Backed(t, content, Named, Found \cup Adds(Head(todo[p])), DOMAIN epoch \cup Moves(Head(todo[p])))
      BY <1>1, WriteLeads
    <2>5. Found \cup Adds(Head(todo[p])) = Found /\ DOMAIN epoch \cup Moves(Head(todo[p])) = DOMAIN epoch
      BY <2>3
    <2> HIDE DEF w, t
    <2>6. Found \cup Adds(w) = Found /\ DOMAIN epoch \cup Moves(w) = DOMAIN epoch
      BY <2>2
    <2>7. Takes(<<w>>, content, Named, Found, DOMAIN epoch, Found, DOMAIN epoch)
      BY <2>2, <2>6, OneWrite
    <2>8. Takes(t, content, Named, Found, DOMAIN epoch, Found, DOMAIN epoch)
      BY <2>4, <2>5 DEF Takes
    <2> DEFINE q == <<w>> \o t
    <2>9. Takes(q, content, Named, Found, DOMAIN epoch, Found, DOMAIN epoch)
      BY <2>7, <2>8, TakesBoth
    <2>10. todo' = [todo EXCEPT ![p] = q]
      BY <2>1
    <2> HIDE DEF q
    <2> QED
      BY <1>2, <2>9, <2>10, PlanReplaced DEF Takes
  <1> QED
    BY <1>3, <1>4, <1>5 DEF WriteBlob

\* ... and its bytes.
LEMMA FillBlobSound == ASSUME IInv, NEW p \in Proc, FillBlob(p) PROVE IInv'
  BY OtherWriteSound DEF FillBlob, Doing, unmoved

\* gc deletes blobs, and no change.
LEMMA RemoveBlobsSound == ASSUME IInv, NEW p \in Proc, RemoveBlobs(p) PROVE IInv'
  BY OtherWriteSound DEF RemoveBlobs, Doing, unmoved

\* undo removes a file of the working directory.
LEMMA RemoveFileSound == ASSUME IInv, NEW p \in Proc, RemoveFile(p) PROVE IInv'
  BY OtherWriteSound DEF RemoveFile, Doing, unmoved

\* write_state_to_working_dir: if it fails, the command's rollback is its plan.
LEMMA WriteStateSound == ASSUME IInv, NEW p \in Proc, WriteState(p) PROVE IInv'
  <1>1. todo[p] # <<>> /\ Head(todo[p]).w = "wd"
    BY DEF WriteState, Doing
  <1>2. UNCHANGED <<content, store, views, head, epoch, oplog, redo>>
    BY DEF WriteState, unmoved
  <1>3. CASE Done(p)
    BY <1>1, <1>2, <1>3, OtherWriteSound
  <1>4. CASE todo' = [todo EXCEPT ![p] = Head(@).undo]
    <2> DEFINE q == Head(todo[p]).undo
    <2>1. todo' = [todo EXCEPT ![p] = q]
      BY <1>4 DEF IInv, Plans
    <2>2. FallsBack(q, Found)
      BY <1>1, WriteLeads DEF Leads
    <2> HIDE DEF q
    <2>3. Backed(q, content, Named, Found, DOMAIN epoch)
      BY <2>2, RollbackBacked
    <2> QED
      BY <1>2, <2>1, <2>3, PlanReplaced
  <1> QED
    BY <1>3, <1>4 DEF WriteState

\* A killed process leaves what it wrote, a part of its plan.
LEMMA CrashSound == ASSUME IInv, NEW p \in Proc, Crash(p) PROVE IInv'
  BY EmptyPlan, PlanReplaced DEF Crash

\* A step that leaves plans and repository alone.
LEMMA RestSound ==
  ASSUME IInv, UNCHANGED <<content, store, views, head, epoch, oplog, redo, todo>> PROVE IInv'
  BY DEF IInv, Rooted, Plans, Found, Named, Ids, deps

\* A change is stored, with what it depends on there before it.
LEMMA WriteChangeSound == ASSUME IInv, NEW p \in Proc, WriteChange(p) PROVE IInv'
  <1> DEFINE w == Head(todo[p])
  <1>1. todo[p] # <<>> /\ w.w = "change" /\ store' = store \cup {w.id} /\ Done(p)
    BY DEF WriteChange, Doing
  <1>2. UNCHANGED <<content, views, head, epoch, oplog, redo>>
    BY DEF WriteChange, unmoved
  <1>3. w.id \in DOMAIN content /\ content[w.id].deps \subseteq Found
    BY <1>1, WriteLeads DEF Leads
  <1>4. Adds(w) = {w.id} /\ Moves(w) = {}
    BY <1>1 DEF Adds, Moves
  <1> HIDE DEF w
  <1>5. Found' = Found \cup {w.id}
    BY <1>1, <1>2 DEF Found
  <1>6. Grows
    BY <1>2, <1>5 DEF Grows, Extends, Named
  <1>7. Rooted'
    <2>1. \A o : OpLeads(o, Found) => OpLeads(o, Found')
      BY <1>5 DEF OpLeads
    <2>2. views' \in [View -> (SUBSET Found') \cup {None}]
      BY <1>2, <1>5 DEF IInv, Rooted
    <2>3. head' \in Named'
      BY <1>2 DEF IInv, Rooted, Named
    <2>4. IsSeq(content') /\ Found' \subseteq Ids'
      BY <1>2, <1>3, <1>5 DEF IInv, Rooted, Ids
    <2>5. \A x \in store' : deps(x)' \subseteq Found'
      BY <1>1, <1>2, <1>3, <1>5 DEF IInv, Rooted, deps
    <2>6. IsSeq(oplog') /\ \A i \in 1..Len(oplog') : OpLeads(oplog'[i], Found')
      BY <1>2, <2>1 DEF IInv, Rooted
    <2>7. IsSeq(redo') /\ \A i \in 1..Len(redo') : OpLeads(redo'[i], Found')
      BY <1>2, <2>1 DEF IInv, Rooted
    <2> QED
      BY <2>2, <2>3, <2>4, <2>5, <2>6, <2>7 DEF Rooted
  <1>8. Plans'
    <2>1. Adds(Head(todo[p])) \subseteq Found' /\ Moves(Head(todo[p])) \subseteq DOMAIN epoch'
      BY <1>4, <1>5 DEF w
    <2> QED
      BY <1>1, <1>6, <2>1, PlansProceed DEF IInv
  <1> QED
    BY <1>7, <1>8 DEF IInv

\* Changes are redirected.
LEMMA SetEpochSound == ASSUME IInv, NEW p \in Proc, SetEpoch(p) PROVE IInv'
  <1> DEFINE w == Head(todo[p])
  <1>1. todo[p] # <<>> /\ w.w = "epoch" /\ DOMAIN epoch' = DOMAIN epoch \cup w.ids /\ Done(p)
    BY DEF SetEpoch, Doing
  <1>2. UNCHANGED <<content, store, views, head, oplog, redo>>
    BY DEF SetEpoch, unmoved
  <1>3. w.ids \subseteq DOMAIN content
    BY <1>1, WriteLeads DEF Leads
  <1>4. Adds(w) = w.ids /\ Moves(w) = w.ids
    BY <1>1 DEF Adds, Moves
  <1> HIDE DEF w
  <1>5. Found' = Found \cup w.ids
    BY <1>1, <1>2 DEF Found
  <1>6. Grows
    BY <1>1, <1>2, <1>5 DEF Grows, Extends, Named
  <1>7. Rooted'
    <2>1. \A o : OpLeads(o, Found) => OpLeads(o, Found')
      BY <1>5 DEF OpLeads
    <2>2. views' \in [View -> (SUBSET Found') \cup {None}]
      BY <1>2, <1>5 DEF IInv, Rooted
    <2>3. head' \in Named'
      BY <1>2 DEF IInv, Rooted, Named
    <2>4. IsSeq(content') /\ Found' \subseteq Ids'
      BY <1>2, <1>3, <1>5 DEF IInv, Rooted, Ids
    <2>5. \A x \in store' : deps(x)' \subseteq Found'
      BY <1>2, <1>5 DEF IInv, Rooted, deps
    <2>6. IsSeq(oplog') /\ \A i \in 1..Len(oplog') : OpLeads(oplog'[i], Found')
      BY <1>2, <2>1 DEF IInv, Rooted
    <2>7. IsSeq(redo') /\ \A i \in 1..Len(redo') : OpLeads(redo'[i], Found')
      BY <1>2, <2>1 DEF IInv, Rooted
    <2> QED
      BY <2>2, <2>3, <2>4, <2>5, <2>6, <2>7 DEF Rooted
  <1>8. Plans'
    <2>1. Adds(Head(todo[p])) \subseteq Found' /\ Moves(Head(todo[p])) \subseteq DOMAIN epoch'
      BY <1>1, <1>4, <1>5 DEF w
    <2> QED
      BY <1>1, <1>6, <2>1, PlansProceed DEF IInv
  <1> QED
    BY <1>7, <1>8 DEF IInv

\* A change is deleted that was redirected before.
LEMMA RemoveChangeSound == ASSUME IInv, NEW p \in Proc, RemoveChange(p) PROVE IInv'
  <1> DEFINE w == Head(todo[p])
  <1>1. todo[p] # <<>> /\ w.w = "unstore" /\ store' = store \ {w.id} /\ Done(p)
    BY DEF RemoveChange, Doing
  <1>2. UNCHANGED <<content, views, head, epoch, oplog, redo>>
    BY DEF RemoveChange, unmoved
  <1>3. w.id \in DOMAIN epoch
    BY <1>1, WriteLeads DEF Leads
  <1>4. Adds(w) = {} /\ Moves(w) = {}
    BY <1>1 DEF Adds, Moves
  <1> HIDE DEF w
  <1>5. Found' = Found
    BY <1>1, <1>2, <1>3 DEF Found
  <1>6. Grows
    BY <1>2, <1>5 DEF Grows, Extends, Named
  <1>7. Rooted'
    <2>1. \A x \in store' : deps(x)' \subseteq Found'
      BY <1>1, <1>2, <1>5 DEF IInv, Rooted, deps
    <2> QED
      BY <1>2, <1>5, <2>1 DEF IInv, Rooted, Named, Ids
  <1>8. Plans'
    <2>1. Adds(Head(todo[p])) \subseteq Found' /\ Moves(Head(todo[p])) \subseteq DOMAIN epoch'
      BY <1>4 DEF w
    <2> QED
      BY <1>1, <1>6, <2>1, PlansProceed DEF IInv
  <1> QED
    BY <1>7, <1>8 DEF IInv

\* Heads are no name for "no view".
LEMMA HeadsAreSome ==
  ASSUME Rooted, Counted, NEW hs, hs \subseteq Found
  PROVE  hs # None
  <1>1. Len(content) \in Nat /\ DOMAIN content = 1..Len(content)
    BY DEF Rooted, IsSeq
  <1>2. 1..Len(content) \subseteq 1..MaxCommands
    BY <1>1, RepositoryAssumption DEF Counted
  <1>3. Found \subseteq 1..MaxCommands
    BY <1>1, <1>2 DEF Rooted, Ids
  <1> QED
    BY <1>3, RepositoryAssumption

\* A view gets heads that are there.
LEMMA SaveViewSound == ASSUME IInv, Counted, NEW p \in Proc, SaveView(p) PROVE IInv'
  <1> DEFINE w == Head(todo[p])
  <1>1. todo[p] # <<>> /\ w.w = "view" /\ views' = [views EXCEPT ![w.view] = w.heads] /\ Done(p)
    BY DEF SaveView, Doing
  <1>2. UNCHANGED <<content, store, head, epoch, oplog, redo>>
    BY DEF SaveView, unmoved
  <1>3. w.view \in View /\ w.heads \subseteq Found
    BY <1>1, WriteLeads DEF Leads
  <1>4. Adds(w) = {} /\ Moves(w) = {}
    BY <1>1 DEF Adds, Moves
  <1> HIDE DEF w
  <1>5. Found' = Found
    BY <1>2 DEF Found
  <1>6. w.heads # None
    BY <1>3, HeadsAreSome DEF IInv
  <1>7. views \in [View -> (SUBSET Found) \cup {None}]
    BY DEF IInv, Rooted
  <1>8. views' \in [View -> (SUBSET Found) \cup {None}] /\ Named \subseteq Named'
    BY <1>1, <1>3, <1>6, <1>7 DEF Named
  <1>9. Grows
    BY <1>2, <1>5, <1>8 DEF Grows, Extends
  <1>10. Rooted'
    BY <1>2, <1>5, <1>8 DEF IInv, Rooted, Ids, deps
  <1>11. Plans'
    <2>1. Adds(Head(todo[p])) \subseteq Found' /\ Moves(Head(todo[p])) \subseteq DOMAIN epoch'
      BY <1>4 DEF w
    <2> QED
      BY <1>1, <1>9, <2>1, PlansProceed DEF IInv
  <1> QED
    BY <1>10, <1>11 DEF IInv

\* HEAD gets a view that exists.
LEMMA SetHeadSound == ASSUME IInv, NEW p \in Proc, SetHead(p) PROVE IInv'
  <1> DEFINE w == Head(todo[p])
  <1>1. todo[p] # <<>> /\ w.w = "head" /\ head' = w.view /\ Done(p)
    BY DEF SetHead, Doing
  <1>2. UNCHANGED <<content, store, views, epoch, oplog, redo>>
    BY DEF SetHead
  <1>3. w.view \in Named
    BY <1>1, WriteLeads DEF Leads
  <1>4. Adds(w) = {} /\ Moves(w) = {}
    BY <1>1 DEF Adds, Moves
  <1> HIDE DEF w
  <1>5. Found' = Found /\ Named' = Named
    BY <1>2 DEF Found, Named
  <1>6. Grows
    BY <1>2, <1>5 DEF Grows, Extends
  <1>7. Rooted'
    BY <1>1, <1>2, <1>3, <1>5 DEF IInv, Rooted, Ids, deps
  <1>8. Plans'
    <2>1. Adds(Head(todo[p])) \subseteq Found' /\ Moves(Head(todo[p])) \subseteq DOMAIN epoch'
      BY <1>4 DEF w
    <2> QED
      BY <1>1, <1>6, <2>1, PlansProceed DEF IInv
  <1> QED
    BY <1>7, <1>8 DEF IInv

\* Writes to the operation log and the redo stack.
LEMMA LogWriteSound ==
  ASSUME IInv, NEW p \in Proc, todo[p] # <<>>, Done(p), Head(todo[p]).w \notin {"change", "epoch"},
         UNCHANGED <<content, store, views, head, epoch>>,
         IsSeq(oplog'), \A i \in 1..Len(oplog') : OpLeads(oplog'[i], Found),
         IsSeq(redo'), \A i \in 1..Len(redo') : OpLeads(redo'[i], Found)
  PROVE  IInv'
  <1>1. Found' = Found /\ Named' = Named
    BY DEF Found, Named
  <1>2. Grows
    BY <1>1 DEF Grows, Extends
  <1>3. Rooted'
    BY <1>1 DEF IInv, Rooted, Ids, deps
  <1>4. Adds(Head(todo[p])) = {} /\ Moves(Head(todo[p])) = {}
    BY DEF Adds, Moves
  <1>5. Plans'
    BY <1>2, <1>4, PlansProceed DEF IInv
  <1> QED
    BY <1>3, <1>5 DEF IInv

\* Dropping the last operation.
LEMMA FrontOps ==
  ASSUME NEW s, IsSeq(s), NEW K, \A i \in 1..Len(s) : OpLeads(s[i], K)
  PROVE  IsSeq(Front(s)) /\ \A i \in 1..Len(Front(s)) : OpLeads(Front(s)[i], K)
  <1>1. s \in Seq(Range(s)) /\ Len(s) \in Nat
    BY DEF IsSeq
  <1>2. CASE s = <<>>
    <2>1. Front(s) = <<>>
      BY <1>2 DEF Front
    <2> QED
      BY <2>1 DEF IsSeq, Range
  <1>3. CASE s # <<>>
    <2> DEFINE S == Range(s)
               n == Len(s) - 1
    <2>1. n \in 0..Len(s) /\ \A i \in 1..n : i \in 1..Len(s) /\ s[i] \in S
      BY <1>1, <1>3
    <2> HIDE DEF S
    <2>5. s \in Seq(S) /\ n \in Int /\ n >= 0 /\ n <= Len(s) /\ Len(s) \in Nat
      BY <1>1, <2>1 DEF S
    <2> HIDE DEF n
    <2>2. SubSeq(s, 1, n) \in Seq(S)
      BY <2>1, <2>5
    <2>3. Len(SubSeq(s, 1, n)) = n /\ \A i \in 1..n : SubSeq(s, 1, n)[i] = s[i]
      BY <2>1, <2>5
    <2>4. IsSeq(SubSeq(s, 1, n))
      BY <2>2, SeqHasRange
    <2> QED
      BY <2>1, <2>3, <2>4 DEF Front, n
  <1> QED
    BY <1>2, <1>3

\* Adding an operation that leads to something.
LEMMA AppendOps ==
  ASSUME NEW s, IsSeq(s), NEW K, \A i \in 1..Len(s) : OpLeads(s[i], K), NEW o, OpLeads(o, K)
  PROVE  IsSeq(Append(s, o)) /\ \A i \in 1..Len(Append(s, o)) : OpLeads(Append(s, o)[i], K)
  <1> DEFINE S == Range(s) \cup {o}
  <1>1. s \in Seq(S) /\ o \in S
    BY DEF IsSeq
  <1> HIDE DEF S
  <1>2. /\ Append(s, o) \in Seq(S) /\ Len(Append(s, o)) = Len(s) + 1 /\ Len(s) \in Nat
        /\ Append(s, o)[Len(s) + 1] = o /\ \A i \in 1..Len(s) : Append(s, o)[i] = s[i]
    BY <1>1
  <1>3. IsSeq(Append(s, o))
    BY <1>2, SeqHasRange
  <1>4. \A i \in 1..(Len(s) + 1) : i \in 1..Len(s) \/ i = Len(s) + 1
    BY <1>2
  <1> QED
    BY <1>2, <1>3, <1>4

\* undo pops the log.
LEMMA PopOpSound == ASSUME IInv, NEW p \in Proc, PopOp(p) PROVE IInv'
  <1>1. IsSeq(oplog') /\ \A i \in 1..Len(oplog') : OpLeads(oplog'[i], Found)
    BY FrontOps DEF PopOp, IInv, Rooted
  <1>2. IsSeq(redo') /\ \A i \in 1..Len(redo') : OpLeads(redo'[i], Found)
    BY DEF PopOp, IInv, Rooted
  <1> QED
    BY <1>1, <1>2, LogWriteSound DEF PopOp, Doing, unmoved

\* An operation is logged.
LEMMA AppendOpSound == ASSUME IInv, NEW p \in Proc, AppendOp(p) PROVE IInv'
  <1>1. OpLeads(Head(todo[p]).op, Found)
    BY WriteLeads DEF AppendOp, Doing, Leads
  <1>2. IsSeq(oplog') /\ \A i \in 1..Len(oplog') : OpLeads(oplog'[i], Found)
    BY <1>1, AppendOps DEF AppendOp, IInv, Rooted
  <1>3. IsSeq(redo') /\ \A i \in 1..Len(redo') : OpLeads(redo'[i], Found)
    BY DEF AppendOp, IInv, Rooted
  <1> QED
    BY <1>2, <1>3, LogWriteSound DEF AppendOp, Doing, unmoved

\* The redo stack is written.
LEMMA SaveRedoSound == ASSUME IInv, NEW p \in Proc, SaveRedo(p) PROVE IInv'
  <1>1. IsSeq(redo') /\ \A i \in 1..Len(redo') : OpLeads(redo'[i], Found)
    BY WriteLeads DEF SaveRedo, Doing, Leads
  <1>2. IsSeq(oplog') /\ \A i \in 1..Len(oplog') : OpLeads(oplog'[i], Found)
    BY DEF SaveRedo, IInv, Rooted
  <1> QED
    BY <1>1, <1>2, LogWriteSound DEF SaveRedo, Doing, unmoved

\* What one process writes, another's view of it or a kill changes nothing else.
LEMMA WriteSound == ASSUME IInv, Counted, NEW p \in Proc, Write(p) PROVE IInv'
  <1>1. ASSUME Hang(p) PROVE IInv'
    BY <1>1, RestSound DEF Hang
  <1>2. ASSUME Exit(p) PROVE IInv'
    BY <1>2, RestSound DEF Exit
  <1> QED
    BY <1>1, <1>2, WriteBlobSound, FillBlobSound, WriteChangeSound, SaveViewSound, SetHeadSound,
       SetEpochSound, PopOpSound, AppendOpSound, SaveRedoSound, RemoveChangeSound, RemoveBlobsSound,
       RemoveFileSound, WriteStateSound DEF Write

\* The user's files lead nowhere.
LEMMA EditSound == ASSUME IInv, Edit PROVE IInv'
  BY RestSound DEF Edit

-----------------------------------------------------------------------------
(* The commands.                                                              *)

\* What the plan of a command that begins now may start from.
Ready(q) == \E L, F : Takes(q, content', Named, Found, DOMAIN epoch, L, F)

\* A command that starts from what there is and the content it has learned.
LEMMA ReadySound ==
  ASSUME IInv, NEW p \in Proc, NEW c, NEW q, Begin(p, c, q), Ready(q),
         IsSeq(content'), Extends(content', content)
  PROVE  IInv'
  BY BeginSound DEF Ready

\* A command that makes no change.
LEMMA ReadySame ==
  ASSUME IInv, NEW p \in Proc, NEW c, NEW q, Begin(p, c, q), Ready(q), content' = content
  PROVE  IInv'
  BY ReadySound, ExtendsItself DEF IInv, Rooted

\* The heads of the view at hand lead to something, and so does what they depend on.
LEMMA TipFound ==
  ASSUME IInv
  PROVE  /\ head \in View /\ Tip \subseteq Found /\ \A x \in Tip \cap store : deps(x) \subseteq Found
         /\ \A v \in Named : v \in View /\ views[v] \subseteq Found
  BY DEF IInv, Rooted, Named, Tip

\* commit_change: blobs, change, view, log.
LEMMA CommitSound ==
  ASSUME IInv, NEW p \in Proc, NEW c, NEW d, d \subseteq Found, NEW atoms, NEW intent,
         Commit(p, c, d, atoms, intent)
  PROVE  IInv'
  <1> DEFINE change == NewChange(d, atoms, intent)
             id == IdOf(change)
             K == Found
             L == K \cup {id}
             E == DOMAIN epoch
             one == write_blob(atoms.blob)
             two == write_change(id)
             three == save_view(head, {id})
             four == log_operation(head, Tip, {id})
  <1>1. Learn(change) /\ Begin(p, c, one \o two \o three \o four)
    BY DEF Commit
  <1>2. change.deps = d
    BY DEF NewChange
  <1>3. /\ IsSeq(content') /\ Extends(content', content)
        /\ id \in DOMAIN content' /\ content'[id].deps \subseteq K
    <2> HIDE DEF change
    <2>1. IsSeq(content') /\ Extends(content', content) /\ id \in DOMAIN content' /\ content'[id] = change
      BY <1>1, Learned DEF IInv, Rooted
    <2> QED
      BY <1>2, <2>1
  <1>4. head \in View /\ Tip \subseteq K
    BY TipFound
  <1> HIDE DEF id, K, E, one, two, three, four
  <1>5. K \subseteq L /\ {id} \subseteq L /\ Tip \subseteq L
    BY <1>4
  <1>6. Takes(one, content', Named, K, E, K, E)
    BY Writes DEF one
  <1>7. Takes(two, content', Named, K, E, L, E)
    BY <1>3, Writes DEF two
  <1>8. Takes(three, content', Named, L, E, L, E)
    <2> HIDE DEF L
    <2> QED
      BY <1>4, <1>5, Writes DEF three
  <1>9. Takes(four, content', Named, L, E, L, E)
    <2> HIDE DEF L
    <2> QED
      BY <1>4, <1>5, LogsOperation DEF four
  <1> HIDE DEF L
  <1>10. Takes(one \o two, content', Named, K, E, L, E)
    BY <1>6, <1>7, TakesBoth
  <1> DEFINE a == one \o two
             b == a \o three
  <1>11. Takes(b, content', Named, K, E, L, E)
    <2> HIDE DEF a
    <2> QED
      BY <1>8, <1>10, TakesBoth DEF a
  <1>12. Takes(b \o four, content', Named, K, E, L, E)
    <2> HIDE DEF b
    <2> QED
      BY <1>9, <1>11, TakesBoth
  <1>13. Ready(b \o four)
    BY <1>12 DEF Ready, K, E
  <1> QED
    BY <1>1, <1>3, <1>13, ReadySound

\* snap and snapshot.
LEMMA SnapSound == ASSUME IInv, NEW p \in Proc, Snap(p) PROVE IInv'
  <1>1. Tip \subseteq Found
    BY TipFound
  <1>2. \E atoms, intent : Commit(p, "snap", Tip, atoms, intent)
    BY DEF Snap
  <1> QED
    BY <1>1, <1>2, CommitSound

\* fork_empty_snapshot.
LEMMA ForkSound == ASSUME IInv, NEW p \in Proc, Fork(p) PROVE IInv'
  <1>1. Tip \subseteq Found
    BY TipFound
  <1>2. \E atoms, intent : Commit(p, "fork", Tip, atoms, intent)
    BY DEF Fork
  <1> QED
    BY <1>1, <1>2, CommitSound

\* finalize_snapshot: the head again, on what it depends on.
LEMMA FinalizeSound == ASSUME IInv, NEW p \in Proc, Finalize(p) PROVE IInv'
  <1> DEFINE K == Found
             E == DOMAIN epoch
  <1>1. PICK old \in Tip, intent \in Intent :
          LET change == NewChange(deps(old), content[old].atoms, intent)
              id == IdOf(change)
          IN  /\ Learn(change)
              /\ Begin(p, "finalize", write_change(id) \o save_view(head, {id}) \o log_operation(head, Tip, {id}))
    BY DEF Finalize
  <1> DEFINE change == NewChange(deps(old), content[old].atoms, intent)
             id == IdOf(change)
             L == K \cup {id}
             two == write_change(id)
             three == save_view(head, {id})
             four == log_operation(head, Tip, {id})
  <1>2. Learn(change) /\ Begin(p, "finalize", two \o three \o four)
    BY <1>1
  <1>3. old \in store
    BY DEF Finalize, GraphOf
  <1>4. head \in View /\ Tip \subseteq K /\ deps(old) \subseteq K
    BY <1>3, TipFound
  <1>5. change.deps = deps(old)
    BY DEF NewChange
  <1>6. /\ IsSeq(content') /\ Extends(content', content)
        /\ id \in DOMAIN content' /\ content'[id].deps \subseteq K
    <2> HIDE DEF change, K
    <2>1. IsSeq(content') /\ Extends(content', content) /\ id \in DOMAIN content' /\ content'[id] = change
      BY <1>2, Learned DEF IInv, Rooted
    <2> QED
      BY <1>4, <1>5, <2>1
  <1> HIDE DEF id, K, E, two, three, four
  <1>7. K \subseteq L /\ {id} \subseteq L /\ Tip \subseteq L
    BY <1>4
  <1>8. Takes(two, content', Named, K, E, L, E)
    BY <1>6, Writes DEF two
  <1>9. Takes(three, content', Named, L, E, L, E)
    <2> HIDE DEF L
    <2> QED
      BY <1>4, <1>7, Writes DEF three
  <1>10. Takes(four, content', Named, L, E, L, E)
    <2> HIDE DEF L
    <2> QED
      BY <1>4, <1>7, LogsOperation DEF four
  <1> HIDE DEF L
  <1> DEFINE a == two \o three
  <1>11. Takes(a, content', Named, K, E, L, E)
    BY <1>8, <1>9, TakesBoth
  <1>12. Takes(a \o four, content', Named, K, E, L, E)
    <2> HIDE DEF a
    <2> QED
      BY <1>10, <1>11, TakesBoth
  <1>13. Ready(a \o four)
    BY <1>12 DEF Ready, K, E
  <1> QED
    BY <1>2, <1>6, <1>13, ReadySound

\* amend: the rewritten head is redirected before anything names the new one.
LEMMA AmendSound == ASSUME IInv, NEW p \in Proc, Amend(p) PROVE IInv'
  <1> DEFINE K == Found
             E == DOMAIN epoch
  <1>1. PICK old \in Tip \cap store, message \in Intent \cup {Keep} :
          LET atoms == delta(TreeOf(deps(old)))
              intent == IF message = Keep THEN content[old].intent ELSE message
              change == NewChange(deps(old), atoms, intent)
              id == IdOf(change)
              tree == apply_change(TreeOf(deps(old)), atoms)
          IN  /\ Learn(change)
              /\ Begin(p, "amend",
                       write_blob(atoms.blob) \o write_change(id)
                       \o set_epoch({old}, id) \o log_operation(head, Tip, {id})
                       \o save_view(head, {id}) \o write_state(tree, <<>>))
    BY Zenon DEF Amend
  <1> DEFINE atoms == delta(TreeOf(deps(old)))
             intent == IF message = Keep THEN content[old].intent ELSE message
             change == NewChange(deps(old), atoms, intent)
             id == IdOf(change)
             tree == apply_change(TreeOf(deps(old)), atoms)
             L == K \cup {id}
             M == L \cup {old}
             F == E \cup {old}
             one == write_blob(atoms.blob)
             two == write_change(id)
             three == set_epoch({old}, id)
             four == log_operation(head, Tip, {id})
             five == save_view(head, {id})
             six == write_state(tree, <<>>)
             q2 == one \o two
             q3 == q2 \o three
             q4 == q3 \o four
             q5 == q4 \o five
             q6 == q5 \o six
  <1>2. Learn(change) /\ Begin(p, "amend", q6)
    BY <1>1, Zenon
  <1>3. head \in View /\ Tip \subseteq K /\ deps(old) \subseteq K
    BY TipFound
  <1>4. change.deps = deps(old)
    BY DEF NewChange
  <1>5. /\ IsSeq(content') /\ Extends(content', content)
        /\ id \in DOMAIN content' /\ content'[id].deps \subseteq K
    <2> HIDE DEF change, K, q6
    <2>1. IsSeq(content') /\ Extends(content', content) /\ id \in DOMAIN content' /\ content'[id] = change
      BY <1>2, Learned DEF IInv, Rooted
    <2> QED
      BY <1>3, <1>4, <2>1
  <1>6. {old} \subseteq DOMAIN content'
    BY <1>3, <1>5 DEF Extends, IInv, Rooted, Ids
  <1> HIDE DEF atoms, intent, id, tree, K, E, one, two, three, four, five, six
  <1>7. K \subseteq L /\ L \subseteq M /\ {id} \subseteq M /\ Tip \subseteq M
    BY <1>3
  <1>8. M = L \cup {old} /\ F = E \cup {old}
    OBVIOUS
  <1>9. Takes(one, content', Named, K, E, K, E)
    BY Writes DEF one
  <1>10. Takes(two, content', Named, K, E, L, E)
    BY <1>5, Writes DEF two
  <1> HIDE DEF L
  <1>11. Takes(three, content', Named, L, E, M, F)
    BY <1>6, Writes DEF three
  <1> HIDE DEF M, F
  <1>12. Takes(four, content', Named, M, F, M, F)
    BY <1>3, <1>7, LogsOperation DEF four
  <1>13. Takes(five, content', Named, M, F, M, F)
    BY <1>3, <1>7, Writes DEF five
  <1>14. Takes(six, content', Named, M, F, M, F)
    BY NoRollback, Writes DEF six
  <1> HIDE DEF q2, q3, q4, q5, q6
  <1>15. Takes(q2, content', Named, K, E, L, E)
    BY <1>9, <1>10, TakesBoth DEF q2
  <1>16. Takes(q3, content', Named, K, E, M, F)
    BY <1>11, <1>15, TakesBoth DEF q3
  <1>17. Takes(q4, content', Named, K, E, M, F)
    BY <1>12, <1>16, TakesBoth DEF q4
  <1>18. Takes(q5, content', Named, K, E, M, F)
    BY <1>13, <1>17, TakesBoth DEF q5
  <1>19. Takes(q6, content', Named, K, E, M, F)
    BY <1>14, <1>18, TakesBoth DEF q6
  <1>20. Ready(q6)
    BY <1>19 DEF Ready, K, E
  <1> QED
    BY <1>2, <1>5, <1>20, ReadySound

\* A recorded operation leads to something.
LEMMA LastLeads ==
  ASSUME NEW s, IsSeq(s), NEW K, \A i \in 1..Len(s) : OpLeads(s[i], K), s # <<>>
  PROVE  OpLeads(Last(s), K)
  <1>1. Len(s) \in 1..Len(s)
    BY DEF IsSeq
  <1> QED
    BY <1>1 DEF Last

\* undo.
LEMMA UndoSound == ASSUME IInv, NEW p \in Proc, Undo(p) PROVE IInv'
  <1> DEFINE K == Found
             E == DOMAIN epoch
             op == Last(oplog)
             now == views[op.view]
             drop == IF TreeOf(now).blob # Absent /\ TreeOf(op.before).blob = Absent
                     THEN remove_file ELSE <<>>
             write == write_state(TreeOf(op.before), <<>>)
             redone == push_redo(op)
             d1 == drop \o write
             d2 == d1 \o redone
             d3 == Then(op.before, d2)
             save == save_view(op.view, op.before)
             d4 == save \o d3
             d5 == Then(now, d4)
             q == pop \o d5
  <1>1. oplog # <<>> /\ Begin(p, "undo", q) /\ content' = content
    BY Zenon DEF Undo
  <1>2. OpLeads(op, K)
    BY <1>1, LastLeads DEF IInv, Rooted
  <1>3. op.view \in View /\ op.before \subseteq K
    BY <1>2 DEF OpLeads
  <1> HIDE DEF op, K, E
  <1>4. Takes(drop, content', Named, K, E, K, E)
    BY NoWrite, Writes
  <1>5. Takes(write, content', Named, K, E, K, E)
    BY NoRollback, Writes
  <1>6. Takes(redone, content', Named, K, E, K, E)
    <2>1. IsSeq(Append(redo, op)) /\ \A i \in 1..Len(Append(redo, op)) : OpLeads(Append(redo, op)[i], K)
      BY <1>2, AppendOps DEF IInv, Rooted, K
    <2> QED
      BY <2>1, Writes DEF push_redo
  <1>7. Takes(save, content', Named, K, E, K, E)
    BY <1>3, Writes
  <1>8. Takes(pop, content', Named, K, E, K, E)
    BY Writes
  <1> HIDE DEF drop, write, redone, d1, d2, d3, save, d4, d5, q
  <1>9. Takes(d1, content', Named, K, E, K, E)
    BY <1>4, <1>5, TakesBoth DEF d1
  <1>10. Takes(d2, content', Named, K, E, K, E)
    BY <1>6, <1>9, TakesBoth DEF d2
  <1>11. Takes(d3, content', Named, K, E, K, E)
    BY <1>10, ThenTakes DEF d3
  <1>12. Takes(d4, content', Named, K, E, K, E)
    BY <1>7, <1>11, TakesBoth DEF d4
  <1>13. Takes(d5, content', Named, K, E, K, E)
    BY <1>12, ThenTakes DEF d5
  <1>14. Takes(q, content', Named, K, E, K, E)
    BY <1>8, <1>13, TakesBoth DEF q
  <1>15. Ready(q)
    BY <1>14 DEF Ready, K, E
  <1> QED
    BY <1>1, <1>15, ReadySame

\* redo, with its rollback.
LEMMA RedoSound == ASSUME IInv, NEW p \in Proc, Redo(p) PROVE IInv'
  <1> DEFINE K == Found
             E == DOMAIN epoch
             op == Last(redo)
             back == save_view(op.view, op.before) \o write_state(TreeOf(op.before), <<>>)
             save == save_view(op.view, op.after)
             write == write_state(TreeOf(op.after), back)
             log == append(op)
             rest == save_redo(Front(redo))
             d1 == write \o log
             d2 == d1 \o rest
             d3 == Then(op.after, d2)
             q == save \o d3
  <1>1. redo # <<>> /\ Begin(p, "redo", q) /\ content' = content
    BY Zenon DEF Redo
  <1>2. OpLeads(op, K)
    BY <1>1, LastLeads DEF IInv, Rooted
  <1>3. op.view \in View /\ op.before \subseteq K /\ op.after \subseteq K
    BY <1>2 DEF OpLeads
  <1> HIDE DEF op, K, E
  <1>4. FallsBack(back, K)
    BY <1>3, RollsBack
  <1> HIDE DEF back
  <1>5. Takes(write, content', Named, K, E, K, E)
    BY <1>4, Writes
  <1>6. Takes(log, content', Named, K, E, K, E)
    BY <1>2, Writes
  <1>7. Takes(rest, content', Named, K, E, K, E)
    <2>1. IsSeq(Front(redo)) /\ \A i \in 1..Len(Front(redo)) : OpLeads(Front(redo)[i], K)
      BY FrontOps DEF IInv, Rooted, K
    <2> QED
      BY <2>1, Writes
  <1>8. Takes(save, content', Named, K, E, K, E)
    BY <1>3, Writes
  <1> HIDE DEF write, log, rest, d1, d2, d3, save, q
  <1>9. Takes(d1, content', Named, K, E, K, E)
    BY <1>5, <1>6, TakesBoth DEF d1
  <1>10. Takes(d2, content', Named, K, E, K, E)
    BY <1>7, <1>9, TakesBoth DEF d2
  <1>11. Takes(d3, content', Named, K, E, K, E)
    BY <1>10, ThenTakes DEF d3
  <1>12. Takes(q, content', Named, K, E, K, E)
    BY <1>8, <1>11, TakesBoth DEF q
  <1>13. Ready(q)
    BY <1>12 DEF Ready, K, E
  <1> QED
    BY <1>1, <1>13, ReadySame

\* abandon_heads: the view goes to what the head depends on.
LEMMA AbandonSound == ASSUME IInv, NEW p \in Proc, Abandon(p) PROVE IInv'
  <1> DEFINE K == Found
             E == DOMAIN epoch
  <1>1. PICK old \in Tip \cap store :
          Begin(p, "abandon",
                save_view(head, deps(old))
                \o Then(deps(old), write_state(TreeOf(deps(old)), <<>>)
                                   \o log_operation(head, Tip, deps(old))))
    BY DEF Abandon
  <1> DEFINE hs == deps(old)
             save == save_view(head, hs)
             write == write_state(TreeOf(hs), <<>>)
             log == log_operation(head, Tip, hs)
             d1 == write \o log
             d2 == Then(hs, d1)
             q == save \o d2
  <1>2. Begin(p, "abandon", q) /\ content' = content
    BY <1>1 DEF Abandon
  <1>3. head \in View /\ Tip \subseteq K /\ hs \subseteq K
    BY TipFound
  <1> HIDE DEF hs, K, E
  <1>4. Takes(save, content', Named, K, E, K, E)
    BY <1>3, Writes
  <1>5. Takes(write, content', Named, K, E, K, E)
    BY NoRollback, Writes
  <1>6. Takes(log, content', Named, K, E, K, E)
    BY <1>3, LogsOperation
  <1> HIDE DEF save, write, log, d1, d2, q
  <1>7. Takes(d1, content', Named, K, E, K, E)
    BY <1>5, <1>6, TakesBoth DEF d1
  <1>8. Takes(d2, content', Named, K, E, K, E)
    BY <1>7, ThenTakes DEF d2
  <1>9. Takes(q, content', Named, K, E, K, E)
    BY <1>4, <1>8, TakesBoth DEF q
  <1>10. Ready(q)
    BY <1>9 DEF Ready, K, E
  <1> QED
    BY <1>2, <1>10, ReadySame

\* op_restore and op_revert.
LEMMA ApplySound ==
  ASSUME IInv, NEW p \in Proc, NEW c, NEW next, next \subseteq Found, ApplyOperationHeads(p, c, next)
  PROVE  IInv'
  <1> DEFINE K == Found
             E == DOMAIN epoch
             back == save_view(head, Tip) \o write_state(TreeOf(Tip), <<>>)
             save == save_view(head, next)
             write == write_state(TreeOf(next), back)
             log == log_operation(head, Tip, next)
             d1 == write \o log
             d2 == Then(next, d1)
             q == save \o d2
  <1>1. Begin(p, c, q) /\ content' = content
    BY DEF ApplyOperationHeads
  <1>2. head \in View /\ Tip \subseteq K /\ next \subseteq K
    BY TipFound
  <1> HIDE DEF K, E
  <1>3. FallsBack(back, K)
    BY <1>2, RollsBack
  <1> HIDE DEF back
  <1>4. Takes(save, content', Named, K, E, K, E)
    BY <1>2, Writes
  <1>5. Takes(write, content', Named, K, E, K, E)
    BY <1>3, Writes
  <1>6. Takes(log, content', Named, K, E, K, E)
    BY <1>2, LogsOperation
  <1> HIDE DEF save, write, log, d1, d2, q
  <1>7. Takes(d1, content', Named, K, E, K, E)
    BY <1>5, <1>6, TakesBoth DEF d1
  <1>8. Takes(d2, content', Named, K, E, K, E)
    BY <1>7, ThenTakes DEF d2
  <1>9. Takes(q, content', Named, K, E, K, E)
    BY <1>4, <1>8, TakesBoth DEF q
  <1>10. Ready(q)
    BY <1>9 DEF Ready, K, E
  <1> QED
    BY <1>1, <1>10, ReadySame

\* What an operation recorded is restored or reverted to.
LEMMA OperationsSound == ASSUME IInv, NEW p \in Proc, OpRestore(p) \/ OpRevert(p) PROVE IInv'
  <1>1. \A i \in DOMAIN oplog : oplog[i].after \subseteq Found /\ oplog[i].before \subseteq Found
    <2>1. DOMAIN oplog = 1..Len(oplog)
      BY DEF IInv, Rooted, IsSeq
    <2> QED
      BY <2>1 DEF IInv, Rooted, OpLeads
  <1> QED
    BY <1>1, ApplySound DEF OpRestore, OpRevert

\* create_view.
LEMMA CreateViewSound == ASSUME IInv, NEW p \in Proc, CreateView(p) PROVE IInv'
  <1>1. PICK v \in View : Begin(p, "view", save_view(v, Tip)) /\ content' = content
    BY DEF CreateView
  <1>2. Tip \subseteq Found
    BY TipFound
  <1>3. Takes(save_view(v, Tip), content', Named, Found, DOMAIN epoch, Found, DOMAIN epoch)
    BY <1>2, Writes
  <1>4. Ready(save_view(v, Tip))
    BY <1>3 DEF Ready
  <1> QED
    BY <1>1, <1>4, ReadySame

\* switch_view.
LEMMA SwitchViewSound == ASSUME IInv, NEW p \in Proc, SwitchView(p) PROVE IInv'
  <1> DEFINE K == Found
             E == DOMAIN epoch
  <1>1. PICK v \in View : /\ views[v] # None /\ content' = content
                          /\ Begin(p, "switch", write_state(TreeOf(views[v]), <<>>) \o set_head(v))
    BY DEF SwitchView
  <1> DEFINE write == write_state(TreeOf(views[v]), <<>>)
             set == set_head(v)
             q == write \o set
  <1>2. v \in Named
    BY <1>1 DEF Named
  <1> HIDE DEF K, E
  <1>3. Takes(write, content', Named, K, E, K, E)
    BY NoRollback, Writes
  <1>4. Takes(set, content', Named, K, E, K, E)
    BY <1>2, Writes
  <1>5. Begin(p, "switch", q)
    BY <1>1
  <1> HIDE DEF write, set, q
  <1>6. Takes(q, content', Named, K, E, K, E)
    BY <1>3, <1>4, TakesBoth DEF q
  <1>7. Ready(q)
    BY <1>6 DEF Ready, K, E
  <1> QED
    BY <1>1, <1>5, <1>7, ReadySame

\* gc.
LEMMA GcSound == ASSUME IInv, NEW p \in Proc, Gc(p) PROVE IInv'
  <1>1. PICK vs : Begin(p, "gc", remove_blobs(vs)) /\ content' = content
    BY DEF Gc
  <1>2. Takes(remove_blobs(vs), content', Named, Found, DOMAIN epoch, Found, DOMAIN epoch)
    BY Writes
  <1>3. Ready(remove_blobs(vs))
    BY <1>2 DEF Ready
  <1> QED
    BY <1>1, <1>3, ReadySame

\* A command that hangs.
LEMMA BeginHungSound == ASSUME IInv, NEW p \in Proc, BeginHung(p) PROVE IInv'
  <1>1. PICK c : Begin(p, c, hang) /\ content' = content
    BY DEF BeginHung
  <1>2. Takes(hang, content', Named, Found, DOMAIN epoch, Found, DOMAIN epoch)
    BY Writes
  <1>3. Ready(hang)
    BY <1>2 DEF Ready
  <1> QED
    BY <1>1, <1>3, ReadySame

\* What a function makes of a finite set.
LEMMA FiniteImage ==
  ASSUME NEW D, IsFiniteSet(D), NEW f, f = [x \in D |-> f[x]]
  PROVE  IsFiniteSet({f[x] : x \in D})
  <1> DEFINE T == {f[x] : x \in D}
  <1>1. f \in Surjection(D, T)
    BY DEF Surjection
  <1> QED
    BY <1>1, FS_Surjection

\* compact: the changes it deletes are redirected before.
LEMMA CompactSound == ASSUME IInv, NEW p \in Proc, Compact(p) PROVE IInv'
  <1> DEFINE K == Found
             E == DOMAIN epoch
             named == {v \in View : views[v] # None}
             g == UNION {GraphOf(views[v]) : v \in named}
             stable == {x \in Ids : \A v \in named : x \in ancestors(g, views[v])}
             tips == {x \in stable : \A y \in stable \cap g : x \notin deps(y)}
             tree == TreeOf(tips)
             change == NewChange({}, [f \in File |-> IF tree[f] = Absent THEN Keep ELSE tree[f]], 0)
             id == IdOf(change)
             saves == [v \in {v \in named : views[v] \cap stable # {}} |->
                         save_view(v, (views[v] \ stable) \cup {id})]
             deletes == [x \in stable |-> remove_change(x)]
             SavePlans == {saves[v] : v \in DOMAIN saves}
             DeletePlans == {deletes[x] : x \in stable}
             L == K \cup {id}
             M == L \cup stable
             F == E \cup stable
             one == write_change(id)
             two == set_epoch(stable, id)
             three == FlattenSeq(SetToSeq(SavePlans))
             four == FlattenSeq(SetToSeq(DeletePlans))
             q2 == one \o two
             q3 == q2 \o three
             q4 == q3 \o four
  <1>1. Learn(change) /\ Begin(p, "compact", q4)
    BY Zenon DEF Compact
  <1>2. change.deps = {}
    BY DEF NewChange
  <1> HIDE DEF q4
  <1>3. /\ IsSeq(content') /\ Extends(content', content)
        /\ id \in DOMAIN content' /\ content'[id].deps \subseteq K
    <2> HIDE DEF change, K
    <2>1. IsSeq(content') /\ Extends(content', content) /\ id \in DOMAIN content' /\ content'[id] = change
      BY <1>1, Learned DEF IInv, Rooted
    <2> QED
      BY <1>2, <2>1
  <1> HIDE DEF change
  <1>4. stable \subseteq DOMAIN content
    BY DEF Ids
  <1>5. IsFiniteSet(stable)
    <2>1. Len(content) \in Nat /\ DOMAIN content = 1..Len(content)
      BY DEF IInv, Rooted, IsSeq
    <2>2. IsFiniteSet(1..Len(content))
      BY <2>1, FS_Interval
    <2> HIDE DEF stable
    <2> QED
      BY <1>4, <2>1, <2>2, FS_Subset
  <1>6. stable \subseteq DOMAIN content'
    BY <1>3, <1>4 DEF Extends
  <1> HIDE DEF stable
  <1>7. IsFiniteSet(DeletePlans)
    <2>1. deletes = [x \in stable |-> deletes[x]]
      OBVIOUS
    <2> HIDE DEF deletes
    <2> QED
      BY <1>5, <2>1, FiniteImage
  <1>8. IsFiniteSet(SavePlans)
    <2> DEFINE Vs == {v \in named : views[v] \cap stable # {}}
    <2>1. IsFiniteSet(Vs)
      BY FS_Subset, RepositoryAssumption
    <2>2. SavePlans = {saves[v] : v \in Vs} /\ saves = [v \in Vs |-> saves[v]]
      OBVIOUS
    <2> HIDE DEF Vs, saves
    <2>3. IsFiniteSet({saves[v] : v \in Vs})
      BY <2>1, <2>2, FiniteImage
    <2> QED
      BY <2>2, <2>3
  <1>9. M = L \cup stable /\ F = E \cup stable
    OBVIOUS
  <1>10. ASSUME NEW q \in SavePlans PROVE Takes(q, content', Named, M, F, M, F)
    <2>1. PICK v \in named : q = save_view(v, (views[v] \ stable) \cup {id})
      OBVIOUS
    <2>2. views[v] \subseteq K /\ v \in View
      BY TipFound DEF Named
    <2> DEFINE hs == (views[v] \ stable) \cup {id}
    <2>3. hs \subseteq M
      BY <2>2
    <2> HIDE DEF hs, M, F
    <2>4. Takes(save_view(v, hs), content', Named, M, F, M, F)
      BY <2>2, <2>3, Writes
    <2> QED
      BY <2>1, <2>4 DEF hs
  <1>11. ASSUME NEW q \in DeletePlans PROVE Takes(q, content', Named, M, F, M, F)
    <2>1. PICK x \in stable : q = remove_change(x)
      OBVIOUS
    <2>2. x \in F
      OBVIOUS
    <2> HIDE DEF M, F
    <2>3. Takes(remove_change(x), content', Named, M, F, M, F)
      BY <2>2, Writes
    <2> QED
      BY <2>1, <2>3
  <1> HIDE DEF K, E, id, SavePlans, DeletePlans, saves, deletes
  <1>12. Takes(one, content', Named, K, E, L, E)
    BY <1>3, Writes
  <1> HIDE DEF L
  <1>13. Takes(two, content', Named, L, E, M, F)
    BY <1>6, Writes
  <1> HIDE DEF M, F
  <1>14. Takes(three, content', Named, M, F, M, F)
    BY <1>8, <1>10, AllTake
  <1>15. Takes(four, content', Named, M, F, M, F)
    BY <1>7, <1>11, AllTake
  <1> HIDE DEF one, two, three, four, q2, q3
  <1>16. Takes(q2, content', Named, K, E, M, F)
    BY <1>12, <1>13, TakesBoth DEF q2
  <1>17. Takes(q3, content', Named, K, E, M, F)
    BY <1>14, <1>16, TakesBoth DEF q3
  <1>18. Takes(q4, content', Named, K, E, M, F)
    BY <1>15, <1>17, TakesBoth DEF q4
  <1>19. Ready(q4)
    BY <1>18 DEF Ready, K, E
  <1> QED
    BY <1>1, <1>3, <1>19, ReadySound

\* Every command.
LEMMA CommandSound == ASSUME IInv, NEW p \in Proc, Command(p) PROVE IInv'
  BY BeginHungSound, SnapSound, FinalizeSound, ForkSound, AmendSound, UndoSound, RedoSound,
     AbandonSound, OperationsSound, CreateViewSound, SwitchViewSound, GcSound, CompactSound DEF Command

\* What it takes to begin.
Begins(p, c, q) == Begin(p, c, q) /\ (content' = content \/ \E change : Learn(change))

\* Every command begins, and makes at most one change.
LEMMA CommandBegins ==
  ASSUME NEW p \in Proc, Command(p) PROVE \E c, q : Begins(p, c, q)
  <1>1. ASSUME NEW c, NEW d, NEW atoms, NEW intent, Commit(p, c, d, atoms, intent) PROVE \E q : Begins(p, c, q)
    BY <1>1 DEF Begins, Commit
  <1>2. ASSUME Snap(p) \/ Fork(p) PROVE \E c, q : Begins(p, c, q)
    BY <1>1, <1>2 DEF Snap, Fork
  <1>3. ASSUME Finalize(p) PROVE \E c, q : Begins(p, c, q)
    BY <1>3 DEF Begins, Finalize
  <1>4. ASSUME Amend(p) PROVE \E c, q : Begins(p, c, q)
    BY <1>4 DEF Begins, Amend
  <1>5. ASSUME Undo(p) PROVE \E c, q : Begins(p, c, q)
    BY <1>5 DEF Begins, Undo
  <1>6. ASSUME Redo(p) PROVE \E c, q : Begins(p, c, q)
    BY <1>6 DEF Begins, Redo
  <1>7. ASSUME Abandon(p) PROVE \E c, q : Begins(p, c, q)
    BY <1>7 DEF Begins, Abandon
  <1>8. ASSUME OpRestore(p) \/ OpRevert(p) PROVE \E c, q : Begins(p, c, q)
    BY <1>8 DEF Begins, OpRestore, OpRevert, ApplyOperationHeads
  <1>9. ASSUME CreateView(p) PROVE \E c, q : Begins(p, c, q)
    BY <1>9 DEF Begins, CreateView
  <1>10. ASSUME SwitchView(p) PROVE \E c, q : Begins(p, c, q)
    BY <1>10 DEF Begins, SwitchView
  <1>11. ASSUME Gc(p) PROVE \E c, q : Begins(p, c, q)
    BY <1>11 DEF Begins, Gc
  <1>12. ASSUME Compact(p) PROVE \E c, q : Begins(p, c, q)
    BY <1>12, Zenon DEF Begins, Compact
  <1>13. ASSUME BeginHung(p) PROVE \E c, q : Begins(p, c, q)
    BY <1>13 DEF Begins, BeginHung
  <1> QED
    BY <1>2, <1>3, <1>4, <1>5, <1>6, <1>7, <1>8, <1>9, <1>10, <1>11, <1>12, <1>13 DEF Command

\* Commands are counted before they make a change.
LEMMA CountedStep == ASSUME IInv, Counted, [Next]_vars PROVE Counted'
  <1>1. Len(content) \in Nat
    BY DEF IInv, Rooted, IsSeq
  <1>2. ASSUME UNCHANGED <<content, issued>> PROVE Counted'
    BY <1>2 DEF Counted
  <1>3. ASSUME NEW p \in Proc, Command(p) PROVE Counted'
    <2>1. PICK c, q : Begins(p, c, q)
      BY <1>3, CommandBegins
    <2>2. issued' = issued + 1 /\ issued < MaxCommands
      BY <1>3, <2>1 DEF Begins, Begin, Command
    <2>3. Len(content') <= Len(content) + 1
      <3>1. ASSUME NEW change, Learn(change) PROVE Len(content') <= Len(content) + 1
        BY <1>1, <3>1 DEF Learn, IInv, Rooted, IsSeq
      <3> QED
        BY <1>1, <2>1, <3>1 DEF Begins
    <2>4. Len(content') \in Nat
      <3>1. ASSUME NEW change, Learn(change) PROVE Len(content') \in Nat
        <4>1. IsSeq(content')
          BY <3>1, Learned DEF IInv, Rooted
        <4> QED
          BY <4>1 DEF IsSeq
      <3> QED
        BY <1>1, <2>1, <3>1 DEF Begins
    <2> QED
      BY <1>1, <2>2, <2>3, <2>4, RepositoryAssumption DEF Counted
  <1>4. ASSUME NEW p \in Proc, Write(p) PROVE Counted'
    <2>1. CASE WriteBlob(p) \/ FillBlob(p) \/ WriteChange(p) \/ SaveView(p) \/ SetHead(p)
      BY <1>2, <2>1 DEF WriteBlob, FillBlob, WriteChange, SaveView, SetHead, unmoved, bounds
    <2>2. CASE SetEpoch(p) \/ PopOp(p) \/ AppendOp(p) \/ SaveRedo(p) \/ RemoveChange(p)
      BY <1>2, <2>2 DEF SetEpoch, PopOp, AppendOp, SaveRedo, RemoveChange, unmoved, bounds
    <2>3. CASE RemoveBlobs(p) \/ RemoveFile(p) \/ WriteState(p) \/ Hang(p) \/ Exit(p)
      BY <1>2, <2>3 DEF RemoveBlobs, RemoveFile, WriteState, Hang, Exit, unmoved, bounds
    <2> QED
      BY <1>4, <2>1, <2>2, <2>3 DEF Write
  <1>5. ASSUME NEW p \in Proc, Crash(p) PROVE Counted'
    BY <1>2, <1>5 DEF Crash
  <1>6. CASE Edit
    BY <1>2, <1>6 DEF Edit
  <1>7. CASE UNCHANGED vars
    BY <1>2, <1>7 DEF vars, bounds
  <1> QED
    BY <1>3, <1>4, <1>5, <1>6, <1>7 DEF Next

\* Every step.
LEMMA StepSound == IInv /\ Counted /\ [Next]_vars => IInv' /\ Counted'
  <1> SUFFICES ASSUME IInv, Counted, [Next]_vars PROVE IInv' /\ Counted'
    OBVIOUS
  <1>1. Counted'
    BY CountedStep
  <1>2. CASE UNCHANGED vars
    BY <1>1, <1>2, RestSound DEF vars
  <1>3. CASE Edit
    BY <1>1, <1>3, EditSound
  <1>4. ASSUME NEW p \in Proc, Command(p) PROVE IInv'
    BY <1>4, CommandSound
  <1>5. ASSUME NEW p \in Proc, Write(p) PROVE IInv'
    BY <1>5, WriteSound
  <1>6. ASSUME NEW p \in Proc, Crash(p) PROVE IInv'
    BY <1>6, CrashSound
  <1> QED
    BY <1>1, <1>2, <1>3, <1>4, <1>5, <1>6 DEF Next

\* For any commands, processes and crashes the invariant holds in every state.
LEMMA RepositorySound == Spec => []IInv
  <1>1. Init => IInv /\ Counted
    <2>1. Init => Counted
      BY RepositoryAssumption DEF Init, Counted
    <2> QED
      BY <2>1, InitSound
  <1> QED
    BY <1>1, StepSound, PTL DEF Spec

\* No crash between the writes of a rewrite leaves a reference that leads nowhere.
THEOREM NothingDangles == Spec => []RedirectBeforeDelete
  <1>1. ASSUME IInv PROVE RedirectBeforeDelete
    <2>1. \A v \in Named : views[v] \subseteq Found
      BY <1>1, TipFound
    <2>2. \A x \in store : deps(x) \subseteq Found
      BY <1>1 DEF IInv, Rooted
    <2>3. \A o \in Range(oplog) : o.before \subseteq Found /\ o.after \subseteq Found
      <3>1. DOMAIN oplog = 1..Len(oplog)
        BY <1>1 DEF IInv, Rooted, IsSeq
      <3> QED
        BY <1>1, <3>1 DEF IInv, Rooted, OpLeads, Range
    <2>4. \A o \in Range(redo) : o.before \subseteq Found /\ o.after \subseteq Found
      <3>1. DOMAIN redo = 1..Len(redo)
        BY <1>1 DEF IInv, Rooted, IsSeq
      <3> QED
        BY <1>1, <3>1 DEF IInv, Rooted, OpLeads, Range
    <2> HIDE DEF Found
    <2>5. UNION ({views[v] : v \in Named} \cup {deps(x) : x \in store}
                 \cup {o.before : o \in Range(oplog) \cup Range(redo)}
                 \cup {o.after : o \in Range(oplog) \cup Range(redo)}) \subseteq Found
      <3>1. UNION {views[v] : v \in Named} \subseteq Found
        BY <2>1
      <3>2. UNION {deps(x) : x \in store} \subseteq Found
        BY <2>2
      <3>3. UNION {o.before : o \in Range(oplog) \cup Range(redo)} \subseteq Found
        BY <2>3, <2>4
      <3>4. UNION {o.after : o \in Range(oplog) \cup Range(redo)} \subseteq Found
        BY <2>3, <2>4
      <3> QED
        BY <3>1, <3>2, <3>3, <3>4
    <2> QED
      BY <2>5 DEF RedirectBeforeDelete, Found
  <1> QED
    BY <1>1, RepositorySound, PTL

-----------------------------------------------------------------------------
(* What a checkout goes through.                                              *)

\* What hydrate_heads and ancestors follow.
Follows == [x \in Found |-> IF x \in DOMAIN epoch THEN {epoch[x]} ELSE deps(x)]
DependsIn(g) == [x \in g |-> deps(x)]

\* What hydrate_heads goes through is the last level of a walk.
LEMMA VisitedLevels ==
  ASSUME Rooted, NEW hs
  PROVE  \E L : AreLevels(L, Len(content), hs, Follows) /\ Visited(hs) = L[Len(content)]
  <1> DEFINE m == Len(content)
             succ(x) == IF x \in DOMAIN epoch THEN {epoch[x]} ELSE IF x \in store THEN deps(x) ELSE {}
             it == CHOOSE f : f = [k \in 0..m |-> IF k = 0 THEN hs ELSE f[k - 1] \cup UNION {succ(x) : x \in f[k - 1]}]
  <1>1. m \in Nat
    BY DEF Rooted, IsSeq
  <1>2. Visited(hs) = it[m]
    BY Zenon DEF Visited, Closure
  <1>3. ASSUME NEW s PROVE s \cup UNION {succ(x) : x \in s} = Further(s, Follows)
    <2>1. DOMAIN Follows = Found /\ \A x \in Found : Follows[x] = succ(x)
      BY DEF Follows, Found
    <2>2. \A x : x \notin Found => succ(x) = {}
      BY DEF Found
    <2> HIDE DEF succ
    <2>3. UNION {succ(x) : x \in s} = UNION {Follows[x] : x \in s \cap DOMAIN Follows}
      BY <2>1, <2>2
    <2> QED
      BY <2>3 DEF Further
  <1> HIDE DEF succ, m
  <1>4. PICK L : AreLevels(L, m, hs, Follows)
    BY <1>1, LevelsExist
  <1>5. L = [k \in 0..m |-> IF k = 0 THEN hs ELSE L[k - 1] \cup UNION {succ(x) : x \in L[k - 1]}]
    BY <1>3, <1>4, Zenon DEF AreLevels
  <1>6. it = [k \in 0..m |-> IF k = 0 THEN hs ELSE it[k - 1] \cup UNION {succ(x) : x \in it[k - 1]}]
    BY <1>5, Zenon
  <1> HIDE DEF it
  <1>7. AreLevels(it, m, hs, Follows)
    BY <1>3, <1>6, Zenon DEF AreLevels
  <1> QED
    BY <1>2, <1>7 DEF m

\* ... and what ancestors goes through in the graph g is that of another.
LEMMA AncestorLevels ==
  ASSUME Rooted, NEW hs, NEW g
  PROVE  \E L : AreLevels(L, Len(content), hs, DependsIn(g)) /\ ancestors(g, hs) = L[Len(content)]
  <1> DEFINE m == Len(content)
             succ(x) == IF x \in g THEN deps(x) ELSE {}
             it == CHOOSE f : f = [k \in 0..m |-> IF k = 0 THEN hs ELSE f[k - 1] \cup UNION {succ(x) : x \in f[k - 1]}]
  <1>1. m \in Nat
    BY DEF Rooted, IsSeq
  <1>2. ancestors(g, hs) = it[m]
    BY Zenon DEF ancestors, Closure
  <1>3. ASSUME NEW s PROVE s \cup UNION {succ(x) : x \in s} = Further(s, DependsIn(g))
    <2>1. DOMAIN DependsIn(g) = g /\ \A x \in g : DependsIn(g)[x] = succ(x)
      BY DEF DependsIn
    <2>2. \A x : x \notin g => succ(x) = {}
      OBVIOUS
    <2> HIDE DEF succ
    <2>3. UNION {succ(x) : x \in s} = UNION {DependsIn(g)[x] : x \in s \cap DOMAIN DependsIn(g)}
      BY <2>1, <2>2
    <2> QED
      BY <2>3 DEF Further
  <1> HIDE DEF succ, m
  <1>4. PICK L : AreLevels(L, m, hs, DependsIn(g))
    BY <1>1, LevelsExist
  <1>5. L = [k \in 0..m |-> IF k = 0 THEN hs ELSE L[k - 1] \cup UNION {succ(x) : x \in L[k - 1]}]
    BY <1>3, <1>4, Zenon DEF AreLevels
  <1>6. it = [k \in 0..m |-> IF k = 0 THEN hs ELSE it[k - 1] \cup UNION {succ(x) : x \in it[k - 1]}]
    BY <1>5, Zenon
  <1> HIDE DEF it
  <1>7. AreLevels(it, m, hs, DependsIn(g))
    BY <1>3, <1>6, Zenon DEF AreLevels
  <1> QED
    BY <1>2, <1>7 DEF m

\* Where no history was rewritten a checkout finds all it needs.
LEMMA Checkable ==
  ASSUME Rooted, NEW hs, hs \subseteq Found, Visited(hs) \cap DOMAIN epoch = {}
  PROVE  checkout(hs) = "ok"
  <1> DEFINE m == Len(content)
             V == Visited(hs)
  <1>1. m \in Nat
    BY DEF Rooted, IsSeq
  <1>2. PICK L : AreLevels(L, m, hs, Follows) /\ V = L[m]
    BY VisitedLevels
  <1>3. V \cap DOMAIN epoch = {}
    OBVIOUS
  <1> HIDE DEF m, V
  <1>4. /\ L[0] = hs /\ \A k \in 1..m : L[k] = Further(L[k - 1], Follows)
        /\ \A k \in 0..m : L[k] \subseteq V
    BY <1>1, <1>2, LevelByLevel
  <1>5. ASSUME NEW x \in store, x \notin DOMAIN epoch
        PROVE  x \in DOMAIN Follows /\ Follows[x] = deps(x) /\ deps(x) \subseteq Found
    BY <1>5 DEF Follows, Rooted, Found
  <1> DEFINE S == {k \in Nat : L[k] \subseteq Found}
  <1>6. 0..m \subseteq S
    <2>1. 0 \in S
      BY <1>4
    <2>2. ASSUME NEW k \in 1..m, k - 1 \in S PROVE k \in S
      <3>1. k - 1 \in 0..m
        BY <1>1
      <3>2. L[k - 1] \subseteq V /\ L[k - 1] \subseteq Found
        BY <1>4, <2>2, <3>1
      <3>3. \A x \in L[k - 1] : x \in store /\ x \notin DOMAIN epoch
        BY <1>3, <3>2 DEF Found
      <3>4. L[k] = Further(L[k - 1], Follows)
        BY <1>4
      <3>5. L[k] \subseteq Found
        BY <1>5, <3>2, <3>3, <3>4 DEF Further
      <3> QED
        BY <3>5
    <2> HIDE DEF S
    <2> QED
      BY <1>1, <2>1, <2>2, UpToInduction
  <1>7. V \subseteq Found
    BY <1>1, <1>2, <1>6
  <1>8. \A x \in V : x \in store /\ x \notin DOMAIN epoch
    BY <1>3, <1>7 DEF Found
  <1>9. GraphOf(hs) = V
    BY <1>8 DEF GraphOf, V
  <1>10. hydrate_heads(hs) = "ok"
    BY <1>8 DEF hydrate_heads, OnEpochCycle, V
  <1>11. PICK A : AreLevels(A, m, hs, DependsIn(V)) /\ ancestors(V, hs) = A[m]
    BY AncestorLevels DEF m
  <1>12. A[0] = hs /\ \A k \in 1..m : A[k] = Further(A[k - 1], DependsIn(V))
    BY <1>1, <1>11, LevelByLevel
  <1> DEFINE T == {k \in Nat : A[k] = L[k]}
  <1>13. 0..m \subseteq T
    <2>1. 0 \in T
      BY <1>4, <1>12
    <2>2. ASSUME NEW k \in 1..m, k - 1 \in T PROVE k \in T
      <3> DEFINE s == L[k - 1]
      <3>1. k - 1 \in 0..m
        BY <1>1
      <3>2. A[k - 1] = s /\ s \subseteq V
        BY <1>4, <2>2, <3>1
      <3>3. A[k] = Further(s, DependsIn(V)) /\ L[k] = Further(s, Follows)
        BY <1>4, <1>12, <3>2
      <3> HIDE DEF s
      <3>4. \A x \in s : x \in DOMAIN DependsIn(V) /\ DependsIn(V)[x] = deps(x)
        BY <3>2 DEF DependsIn
      <3>5. \A x \in s : x \in DOMAIN Follows /\ Follows[x] = deps(x)
        BY <1>5, <1>8, <3>2
      <3>6. Further(s, DependsIn(V)) = Further(s, Follows)
        BY <3>4, <3>5 DEF Further
      <3> QED
        BY <3>3, <3>6
    <2> HIDE DEF T
    <2> QED
      BY <1>1, <2>1, <2>2, UpToInduction
  <1>14. ancestors(V, hs) = V
    <2>1. m \in T
      BY <1>1, <1>13
    <2> QED
      BY <1>2, <1>11, <2>1
  <1> QED
    BY <1>9, <1>10, <1>14 DEF checkout

\* A view without rewritten history can be checked out at every moment (ViewsUsable):
\* every command stores changes before it names them, and names none that is gone.
THEOREM ViewsAlwaysUsable == Spec => []ViewsUsable
  <1>1. ASSUME IInv PROVE ViewsUsable
    <2> SUFFICES ASSUME NEW v \in Named, ~Redirected(v) PROVE checkout(views[v]) = "ok"
      BY DEF ViewsUsable
    <2>1. views[v] \subseteq Found
      BY <1>1, TipFound
    <2>2. Visited(views[v]) \cap DOMAIN epoch = {}
      BY DEF Redirected
    <2> QED
      BY <1>1, <2>1, <2>2, Checkable DEF IInv
  <1> QED
    BY <1>1, RepositorySound, PTL

-----------------------------------------------------------------------------
(* The lock.                                                                  *)

\* A command that takes .arc/lock has it until its process is gone; one that
\* began to go round for ever keeps it too, under another name (Hang).
LockHeld ==
  /\ cmd = [p \in Proc |-> cmd[p]]
  /\ \A p \in Proc : cmd[p] \in Locked => lock = p

\* Two commands that take the lock are never under way at once.
OneLocked == \A p, q \in Proc : cmd[p] \in Locked /\ cmd[q] \in Locked => p = q

\* A command gets the lock if it takes it, and then nobody had it.
LEMMA BeginLocks ==
  ASSUME LockHeld, NEW p \in Proc, NEW c, NEW q, Begin(p, c, q)
  PROVE  LockHeld'
  <1>1. cmd' = [cmd EXCEPT ![p] = c] /\ lock' = IF c \in Locked THEN p ELSE lock
    BY DEF Begin, acquire_lock
  <1>2. ASSUME NEW r \in Proc, cmd'[r] \in Locked PROVE lock' = r
    <2>1. CASE c \in Locked
      <3>1. \A s \in Proc : cmd[s] \notin Locked
        <4>1. lock = None
          BY <2>1 DEF Begin, acquire_lock
        <4> QED
          BY <4>1, RepositoryAssumption DEF LockHeld
      <3> QED
        BY <1>1, <1>2, <2>1, <3>1 DEF LockHeld
    <2>2. CASE c \notin Locked
      BY <1>1, <1>2, <2>2 DEF LockHeld
    <2> QED
      BY <2>1, <2>2
  <1>3. cmd' = [r \in Proc |-> cmd'[r]]
    BY <1>1 DEF LockHeld
  <1> QED
    BY <1>2, <1>3 DEF LockHeld

\* Only an exit gives the lock back.
LEMMA WriteKeepsLock ==
  ASSUME LockHeld, NEW p \in Proc, Write(p) PROVE LockHeld'
  <1>1. ASSUME UNCHANGED <<cmd, lock>> PROVE LockHeld'
    BY <1>1 DEF LockHeld
  <1>2. CASE Hang(p)
    <2>1. "hung" \notin Locked
      BY DEF Locked
    <2> QED
      BY <1>2, <2>1 DEF Hang, LockHeld
  <1>3. CASE Exit(p)
    <2>1. "idle" \notin Locked
      BY DEF Locked
    <2> QED
      BY <1>3, <2>1 DEF Exit, LockHeld
  <1>4. CASE WriteBlob(p) \/ FillBlob(p) \/ WriteChange(p) \/ SaveView(p) \/ SetHead(p)
    BY <1>1, <1>4 DEF WriteBlob, FillBlob, WriteChange, SaveView, SetHead, unmoved
  <1>5. CASE SetEpoch(p) \/ PopOp(p) \/ AppendOp(p) \/ SaveRedo(p) \/ RemoveChange(p)
    BY <1>1, <1>5 DEF SetEpoch, PopOp, AppendOp, SaveRedo, RemoveChange, unmoved
  <1>6. CASE RemoveBlobs(p) \/ RemoveFile(p) \/ WriteState(p)
    BY <1>1, <1>6 DEF RemoveBlobs, RemoveFile, WriteState, unmoved
  <1> QED
    BY <1>2, <1>3, <1>4, <1>5, <1>6 DEF Write

\* The lock of a killed process is gone with it.
LEMMA CrashFreesLock ==
  ASSUME LockHeld, NEW p \in Proc, Crash(p) PROVE LockHeld'
  <1>1. "idle" \notin Locked
    BY DEF Locked
  <1> QED
    BY <1>1 DEF Crash, LockHeld

\* Commands that take the lock exclude each other, for any processes and crashes.
THEOREM LockedCommandsExclude == Spec => []OneLocked
  <1>1. Init => LockHeld
    BY DEF Init, LockHeld, Locked
  <1>2. LockHeld /\ [Next]_vars => LockHeld'
    <2> SUFFICES ASSUME LockHeld, [Next]_vars PROVE LockHeld'
      OBVIOUS
    <2>1. CASE UNCHANGED vars
      BY <2>1 DEF vars, LockHeld
    <2>2. CASE Edit
      BY <2>2 DEF Edit, LockHeld
    <2>3. ASSUME NEW p \in Proc, Command(p) PROVE LockHeld'
      BY <2>3, CommandBegins, BeginLocks DEF Begins
    <2> QED
      BY <2>1, <2>2, <2>3, WriteKeepsLock, CrashFreesLock DEF Next
  <1>3. LockHeld => OneLocked
    BY DEF LockHeld, OneLocked
  <1> QED
    BY <1>1, <1>2, <1>3, PTL DEF Spec
-----------------------------------------------------------------------------
(* The bytes in .arc/blobs.                                                   *)

\* What BlobsKept needs: gc is not used (it deletes every blob, for the graph of
\* its process is empty), nobody is killed (the first part of a blob stays), and no
\* other process writes the working directory while a commit copies from it: of
\* the commands without the lock only switch does.
BlobsUndisturbed ==
  /\ "gc" \notin Commands /\ MaxCrashes = 0
  /\ "switch" \notin Commands \/ \A p, q \in Proc : p = q

Contents == Bytes \cup {Absent}
BytesOf(x) == content[x].atoms.blob

\* The changes whose bytes are there, complete and under their own name.
WholeBytes == {b \in Bytes : blobs[b] = b}
Whole == {x \in Ids : BytesOf(x) \in WholeBytes \cup {Absent, Keep}}

\* The blob that p is about to create or to fill.
Pending(p, b) == todo[p] # <<>> /\ Head(todo[p]).w \in {"blob", "fill"} /\ Head(todo[p]).v = b

\* A rollback, a write and a plan that leave the blobs alone.
PlainUndo(q) ==
  /\ IsSeq(q)
  /\ \A w \in Range(q) : w.w = "view" \/ (w.w = "wd" /\ w.tree.blob \in Contents /\ w.undo = <<>>)
PlainWrite(w) ==
  /\ w.w \notin {"blob", "fill", "gc"}
  /\ w.w = "wd" => w.tree.blob \in Contents /\ PlainUndo(w.undo)
Plain(q) == IsSeq(q) /\ \A w \in Range(q) : PlainWrite(w)

\* A commit copies a file that has the bytes it is to have, before all else.
BlobFirst(p, w) ==
  /\ cmd[p] \in Locked /\ w.v \in Bytes
  /\ \/ w.w = "blob" /\ wd.blob = w.v
     \/ w.w = "fill" /\ w.bytes = w.v /\ blobs[w.v] # Absent

PlanFits(p) ==
  /\ todo[p] # <<>> => Plain(Tail(todo[p])) /\ (PlainWrite(Head(todo[p])) \/ BlobFirst(p, Head(todo[p])))
  /\ cmd[p] \in Commands \cup {"idle", "hung"}
  /\ cmd[p] = "idle" => todo[p] = <<>>
  /\ cmd[p] = "hung" => todo[p] # <<>> /\ Head(todo[p]).w = "hang"
  /\ cmd[p] = "view" /\ todo[p] # <<>> => Head(todo[p]).w = "view" /\ Tail(todo[p]) = <<>>

BlobsFit ==
  /\ DOMAIN blobs = Bytes
  /\ \A b \in Bytes : \/ blobs[b] \in {Absent, b}
                      \/ blobs[b] = Torn /\ \E p \in Proc : Pending(p, b) /\ Head(todo[p]).w = "fill"

ContentFits ==
  /\ \A x \in Ids : deps(x) \subseteq Whole \cap 1..(x - 1)
  /\ \A x \in Ids : x \in Whole \/ (BytesOf(x) \in Bytes /\ \E p \in Proc : Pending(p, BytesOf(x)))
  /\ Found \subseteq Whole

DirectoryFits == DOMAIN wd = File /\ wd.blob \in Contents

BlobInv ==
  /\ crashes = 0 /\ LockHeld
  /\ BlobsFit /\ ContentFits /\ DirectoryFits
  /\ \A p \in Proc : PlanFits(p)

\* The marks that are no contents.
LEMMA Marks ==
  /\ Absent \notin Bytes /\ Keep \notin Bytes /\ Torn \in Bytes /\ Absent # Keep
  /\ Locked \cap {"idle", "hung", "view", "switch", "gc"} = {}
  /\ Commands \subseteq Locked \cup {"view", "switch", "gc"}
  <1>1. Version \subseteq Nat \ {0} /\ Commands \subseteq Locked \cup Unlocked
    BY RepositoryAssumption
  <1>2. Absent \notin Bytes /\ Keep \notin Bytes /\ Torn \in Bytes /\ Absent # Keep
    BY <1>1 DEF Absent, Keep, Torn, Bytes
  <1> QED
    BY <1>1, <1>2 DEF Locked, Unlocked

-----------------------------------------------------------------------------
(* Plain plans.                                                               *)

\* A plan is plain if it is made of plain writes.
LEMMA PlainSeq ==
  ASSUME NEW S, NEW q \in Seq(S), \A w \in S : PlainWrite(w)
  PROVE  Plain(q)
  <1>1. IsSeq(q) /\ Range(q) \subseteq S
    BY SeqHasRange DEF Range
  <1> QED
    BY <1>1 DEF Plain

\* One plain plan after another.
LEMMA PlainBoth ==
  ASSUME NEW a, NEW b, Plain(a), Plain(b) PROVE Plain(a \o b)
  <1> DEFINE S == Range(a) \cup Range(b)
  <1>1. a \in Seq(S) /\ b \in Seq(S) /\ \A w \in S : PlainWrite(w)
    BY DEF Plain, IsSeq
  <1> HIDE DEF S
  <1>2. a \o b \in Seq(S)
    BY <1>1
  <1> QED
    BY <1>1, <1>2, PlainSeq

\* One plain write.
LEMMA PlainOne ==
  ASSUME NEW w, PlainWrite(w) PROVE Plain(<<w>>)
  <1> DEFINE S == {w}
  <1>1. <<w>> \in Seq(S) /\ \A x \in S : PlainWrite(x)
    OBVIOUS
  <1> HIDE DEF S
  <1> QED
    BY <1>1, PlainSeq

\* No write.
LEMMA PlainNone == Plain(<<>>)
  <1> DEFINE S == {}
  <1>1. <<>> \in Seq(S) /\ \A x \in S : PlainWrite(x)
    OBVIOUS
  <1> HIDE DEF S
  <1> QED
    BY <1>1, PlainSeq

\* What is left of a plain plan; a rollback is plain.
LEMMA PlainRest ==
  ASSUME NEW q, Plain(q), q # <<>> PROVE PlainWrite(Head(q)) /\ Plain(Tail(q))
  <1> DEFINE S == Range(q)
  <1>1. q \in Seq(S) /\ \A w \in S : PlainWrite(w)
    BY DEF Plain, IsSeq
  <1> HIDE DEF S
  <1>2. Head(q) \in S /\ Tail(q) \in Seq(S)
    BY <1>1
  <1> QED
    BY <1>1, <1>2, PlainSeq

\* What undo does when the working directory cannot be written touches no blob.
LEMMA UndoIsPlain ==
  ASSUME NEW q, PlainUndo(q) PROVE Plain(q)
  <1>1. PlainUndo(<<>>)
    BY DEF PlainUndo, IsSeq, Range
  <1>2. \A w : w.w = "view" \/ (w.w = "wd" /\ w.tree.blob \in Contents /\ w.undo = <<>>) => PlainWrite(w)
    BY <1>1 DEF PlainWrite
  <1> QED
    BY <1>2 DEF Plain, PlainUndo

\* Most writes leave the blobs alone.
LEMMA PlainWrites ==
  /\ \A id : Plain(write_change(id))
  /\ \A v, hs : Plain(save_view(v, hs))
  /\ \A v : Plain(set_head(v))
  /\ \A ids, to : Plain(set_epoch(ids, to))
  /\ Plain(pop) /\ Plain(remove_file) /\ Plain(hang)
  /\ \A o : Plain(append(o))
  /\ \A s : Plain(save_redo(s))
  /\ \A id : Plain(remove_change(id))
  /\ \A v, before, after : Plain(log_operation(v, before, after))
  <1>1. \A id : Plain(write_change(id))
    BY PlainOne DEF PlainWrite, write_change
  <1>2. \A v, hs : Plain(save_view(v, hs))
    BY PlainOne DEF PlainWrite, save_view
  <1>3. \A v : Plain(set_head(v))
    BY PlainOne DEF PlainWrite, set_head
  <1>4. \A ids, to : Plain(set_epoch(ids, to))
    BY PlainOne DEF PlainWrite, set_epoch
  <1>5. Plain(pop) /\ Plain(remove_file) /\ Plain(hang)
    BY PlainOne DEF PlainWrite, pop, remove_file, hang
  <1>6. \A o : Plain(append(o))
    BY PlainOne DEF PlainWrite, append
  <1>7. \A s : Plain(save_redo(s))
    BY PlainOne DEF PlainWrite, save_redo
  <1>8. \A id : Plain(remove_change(id))
    BY PlainOne DEF PlainWrite, remove_change
  <1>9. \A v, before, after : Plain(log_operation(v, before, after))
    <2>1. ASSUME NEW a, NEW b, Plain(a), Plain(b) PROVE Plain(a \o b)
      BY <2>1, PlainBoth
    <2> QED
      BY <1>6, <1>7, <2>1 DEF log_operation
  <1> QED
    BY <1>1, <1>2, <1>3, <1>4, <1>5, <1>6, <1>7, <1>8, <1>9

\* The working directory is written with a tree.
LEMMA PlainState ==
  ASSUME NEW t, t.blob \in Contents, NEW q, PlainUndo(q)
  PROVE  Plain(write_state(t, q))
  BY PlainOne DEF PlainWrite, write_state

\* A rollback that writes another.
LEMMA PlainBack ==
  ASSUME NEW v, NEW hs, NEW t, t.blob \in Contents
  PROVE  PlainUndo(save_view(v, hs) \o write_state(t, <<>>)) /\ PlainUndo(<<>>)
  <1>1. PlainUndo(<<>>)
    BY DEF PlainUndo, IsSeq, Range
  <1> DEFINE a == [w |-> "view", view |-> v, heads |-> hs]
             b == [w |-> "wd", tree |-> t, undo |-> <<>>]
             S == {a, b}
             q == <<a>> \o <<b>>
  <1>2. save_view(v, hs) \o write_state(t, <<>>) = q
    BY Zenon DEF save_view, write_state
  <1>3. \A w \in S : w.w = "view" \/ (w.w = "wd" /\ w.tree.blob \in Contents /\ w.undo = <<>>)
    OBVIOUS
  <1>4. a \in S /\ b \in S
    OBVIOUS
  <1> HIDE DEF a, b, S
  <1>5. q \in Seq(S)
    BY <1>4
  <1> HIDE DEF q
  <1>6. IsSeq(q) /\ Range(q) \subseteq S
    BY <1>5, SeqHasRange DEF Range
  <1> QED
    BY <1>1, <1>2, <1>3, <1>6 DEF PlainUndo

\* The rest of a command that may fail or hang.
LEMMA PlainThen ==
  ASSUME NEW hs, NEW rest, Plain(rest) PROVE Plain(Then(hs, rest))
  <1>1. checkout(hs) \in {"ok", "error", "hang"}
    <2>1. hydrate_heads(hs) \in {"ok", "error", "hang"}
      BY Zenon DEF hydrate_heads
    <2> QED
      BY <2>1 DEF checkout
  <1>2. Plain(<<>>) /\ Plain(hang)
    BY PlainNone, PlainWrites
  <1>3. CASE checkout(hs) = "ok"
    BY <1>3 DEF Then
  <1>4. CASE checkout(hs) = "error"
    BY <1>2, <1>4 DEF Then
  <1>5. CASE checkout(hs) = "hang"
    BY <1>2, <1>5 DEF Then
  <1> QED
    BY <1>1, <1>3, <1>4, <1>5

-----------------------------------------------------------------------------
(* The files of a tree come from the changes it is made of.                   *)

\* f has the trees of the first n changes of c.
IsTree(f, n, c) ==
  f = [i \in 1..n |-> apply_change(IF c[i].deps = {} THEN EmptyTree
                                   ELSE f[CHOOSE d \in c[i].deps : TRUE], c[i].atoms)]

\* Every change depends on changes made before it.
Backwards(c) == \A x \in DOMAIN c : c[x].deps \subseteq 1..(x - 1)

\* TreeOfIn's function exists.
LEMMA TreeExists ==
  ASSUME NEW c, IsSeq(c), Backwards(c) PROVE \E f : IsTree(f, Len(c), c)
  <1> DEFINE m == Len(c)
             S == {k \in Nat : k \in 0..m => \E f : IsTree(f, k, c)}
  <1>0. m \in Nat /\ DOMAIN c = 1..m
    BY DEF IsSeq
  <1>1. 0 \in S
    <2> DEFINE f == [i \in 1..0 |-> c]
    <2>1. f = [i \in 1..0 |-> apply_change(IF c[i].deps = {} THEN EmptyTree
                                   ELSE f[CHOOSE d \in c[i].deps : TRUE], c[i].atoms)]
      OBVIOUS
    <2> HIDE DEF f
    <2> QED
      BY <2>1 DEF IsTree
  <1>2. ASSUME NEW k \in 1..m, k - 1 \in S PROVE k \in S
    <2>1. k - 1 \in 0..m /\ k \in Nat
      BY <1>0
    <2>2. PICK f : IsTree(f, k - 1, c)
      BY <1>2, <2>1
    <2> DEFINE tip == apply_change(IF c[k].deps = {} THEN EmptyTree
                                   ELSE f[CHOOSE d \in c[k].deps : TRUE], c[k].atoms)
               g == [i \in 1..k |-> IF i = k THEN tip ELSE f[i]]
               step(h, i) == apply_change(IF c[i].deps = {} THEN EmptyTree
                                          ELSE h[CHOOSE d \in c[i].deps : TRUE], c[i].atoms)
    <2>3. ASSUME NEW i \in 1..k, c[i].deps # {}
          PROVE  (CHOOSE d \in c[i].deps : TRUE) \in 1..(i - 1)
      <3>1. i \in DOMAIN c
        BY <1>0
      <3> QED
        BY <2>3, <3>1 DEF Backwards
    <2>4. ASSUME NEW i \in 1..k PROVE step(f, i) = step(g, i)
      <3>1. CASE c[i].deps = {}
        BY <3>1
      <3>2. CASE c[i].deps # {}
        <4> DEFINE d == CHOOSE d \in c[i].deps : TRUE
        <4>1. d \in 1..(i - 1)
          BY <2>3, <3>2
        <4> HIDE DEF d
        <4>2. d \in 1..k /\ d # k
          BY <4>1
        <4> HIDE DEF tip
        <4>3. f[d] = g[d]
          BY <4>2
        <4> HIDE DEF g
        <4> QED
          BY <3>2, <4>3 DEF d
      <3> QED
        BY <3>1, <3>2
    <2>5. ASSUME NEW i \in 1..k PROVE g[i] = step(f, i)
      <3>1. CASE i = k
        BY <3>1
      <3>2. CASE i # k
        <4>1. i \in 1..(k - 1)
          BY <3>2
        <4>2. f[i] = step(f, i)
          BY <2>2, <4>1, Zenon DEF IsTree
        <4>3. g[i] = f[i]
          <5> HIDE DEF tip
          <5> QED
            BY <3>2
        <4> QED
          BY <4>2, <4>3
      <3> QED
        BY <3>1, <3>2
    <2>6. g = [i \in 1..k |-> g[i]]
      <3> HIDE DEF tip
      <3> QED
        BY Zenon
    <2> HIDE DEF g
    <2>7. \A i \in 1..k : g[i] = step(g, i)
      <3> HIDE DEF step
      <3> QED
        BY <2>4, <2>5
    <2>8. g = [i \in 1..k |-> step(g, i)]
      <3> HIDE DEF step
      <3> QED
        BY <2>6, <2>7, Zenon
    <2>9. IsTree(g, k, c)
      BY <2>8 DEF IsTree
    <2> QED
      BY <2>1, <2>9
  <1> HIDE DEF S
  <1>3. 0..m \subseteq S
    BY <1>0, <1>1, <1>2, UpToInduction
  <1>4. m \in S
    BY <1>0, <1>3
  <1> QED
    BY <1>0, <1>4 DEF S

\* What holds of the bytes of some changes and all they depend on holds of the
\* bytes of their trees.
LEMMA TreeBytes ==
  ASSUME IsSeq(content), Backwards(content), NEW P, P \subseteq Ids,
         NEW B, Absent \in B, \A x \in P : deps(x) \subseteq P /\ BytesOf(x) \in B \cup {Keep},
         NEW hs, hs \subseteq P
  PROVE  TreeOf(hs).blob \in B
  <1> DEFINE m == Len(content)
             f == CHOOSE f : f = [i \in 1..m |-> apply_change(
                       IF content[i].deps = {} THEN EmptyTree
                       ELSE f[CHOOSE d \in content[i].deps : TRUE], content[i].atoms)]
  <1>1. m \in Nat /\ Ids = 1..m
    BY DEF IsSeq, Ids
  <1>2. TreeOf(hs) = IF hs = {} THEN EmptyTree ELSE f[CHOOSE h \in hs : TRUE]
    BY Zenon DEF TreeOf, TreeOfIn
  <1>3. f = [i \in 1..m |-> apply_change(
                       IF content[i].deps = {} THEN EmptyTree
                       ELSE f[CHOOSE d \in content[i].deps : TRUE], content[i].atoms)]
    <2>1. \E g : IsTree(g, m, content)
      BY TreeExists
    <2> QED
      BY <2>1, Zenon DEF IsTree
  <1> HIDE DEF f
  <1>4. EmptyTree.blob \in B
    BY DEF EmptyTree, File
  <1>5. ASSUME NEW s, s.blob \in B, NEW x \in P PROVE apply_change(s, content[x].atoms).blob \in B
    BY <1>5 DEF apply_change, BytesOf, File
  <1> DEFINE S == {k \in Nat : \A i \in P : i <= k => f[i].blob \in B}
  <1>6. 0..m \subseteq S
    <2>1. 0 \in S
      BY <1>1
    <2>2. ASSUME NEW k \in 1..m, k - 1 \in S PROVE k \in S
      <3> SUFFICES ASSUME NEW i \in P, i <= k PROVE f[i].blob \in B
        OBVIOUS
      <3>1. i \in 1..m
        BY <1>1
      <3> DEFINE s == IF content[i].deps = {} THEN EmptyTree
                      ELSE f[CHOOSE d \in content[i].deps : TRUE]
      <3>2. f[i] = apply_change(s, content[i].atoms)
        BY <1>3, <3>1, Zenon
      <3>3. s.blob \in B
        <4>1. CASE content[i].deps = {}
          BY <1>4, <4>1
        <4>2. CASE content[i].deps # {}
          <5> DEFINE d == CHOOSE d \in content[i].deps : TRUE
          <5>1. d \in P /\ d \in 1..(i - 1)
            BY <1>1, <3>1, <4>2 DEF deps, Backwards, Ids
          <5> HIDE DEF d
          <5>2. d <= k - 1
            BY <3>1, <5>1
          <5>3. f[d].blob \in B
            BY <2>2, <5>1, <5>2
          <5> QED
            BY <4>2, <5>3 DEF d
        <4> QED
          BY <4>1, <4>2
      <3> HIDE DEF s
      <3> QED
        BY <1>5, <3>2, <3>3
    <2> HIDE DEF S
    <2> QED
      BY <1>1, <2>1, <2>2, UpToInduction
  <1>7. CASE hs = {}
    BY <1>2, <1>4, <1>7
  <1>8. CASE hs # {}
    <2> DEFINE h == CHOOSE h \in hs : TRUE
    <2>1. h \in P /\ h \in 1..m
      BY <1>1, <1>8
    <2> HIDE DEF h
    <2>2. h \in S
      BY <1>6, <2>1
    <2>3. f[h].blob \in B
      BY <2>1, <2>2
    <2> QED
      BY <1>2, <1>8, <2>3 DEF h
  <1> QED
    BY <1>7, <1>8

-----------------------------------------------------------------------------
(* The steps, for the blobs.                                                  *)

\* Every tree that is checked out has bytes in it, and those of found changes are whole.
LEMMA TreesFit ==
  ASSUME IInv, BlobInv
  PROVE  /\ Backwards(content) /\ Whole \subseteq Ids /\ Found \subseteq Whole
         /\ \A hs : hs \subseteq Ids => TreeOf(hs).blob \in Contents
         /\ \A hs : hs \subseteq Whole => TreeOf(hs).blob \in WholeBytes \cup {Absent}
  <1>1. IsSeq(content) /\ Ids = DOMAIN content
    BY DEF IInv, Rooted, Ids
  <1>2. Backwards(content) /\ Whole \subseteq Ids /\ Found \subseteq Whole
    BY DEF BlobInv, ContentFits, Backwards, Whole, deps, Ids
  <1>3. \A x \in Ids : deps(x) \subseteq Whole
    BY DEF BlobInv, ContentFits
  <1>4. \A x \in Ids : deps(x) \subseteq Ids /\ BytesOf(x) \in Contents \cup {Keep}
    BY <1>2, <1>3 DEF BlobInv, ContentFits, Whole, WholeBytes, Contents
  <1>5. \A x \in Whole : deps(x) \subseteq Whole /\ BytesOf(x) \in (WholeBytes \cup {Absent}) \cup {Keep}
    BY <1>2, <1>3 DEF Whole
  <1>6. \A hs : hs \subseteq Ids => TreeOf(hs).blob \in Contents
    BY <1>1, <1>2, <1>4, TreeBytes DEF Contents
  <1>7. \A hs : hs \subseteq Whole => TreeOf(hs).blob \in WholeBytes \cup {Absent}
    <2> DEFINE B == WholeBytes \cup {Absent}
    <2>1. Absent \in B /\ \A x \in Whole : deps(x) \subseteq Whole /\ BytesOf(x) \in B \cup {Keep}
      BY <1>5
    <2> HIDE DEF B
    <2>2. \A hs : hs \subseteq Whole => TreeOf(hs).blob \in B
      BY <1>1, <1>2, <2>1, TreeBytes
    <2> QED
      BY <2>2 DEF B
  <1> QED
    BY <1>2, <1>6, <1>7

\* Who writes anything but a view is alone with the blobs.
LEMMA NobodyElse ==
  ASSUME BlobsUndisturbed, BlobInv, NEW p \in Proc, NEW kind, Doing(p, kind), kind \notin {"view", "hang"},
         NEW r \in Proc, NEW b, Pending(r, b)
  PROVE  r = p
  <1>1. cmd[r] \in Locked
    BY DEF BlobInv, PlanFits, Pending, PlainWrite, BlobFirst
  <1>2. PlanFits(p) /\ todo[p] # <<>> /\ Head(todo[p]).w = kind
    BY DEF BlobInv, Doing
  <1>3. cmd[p] \in Commands /\ cmd[p] # "view"
    BY <1>2 DEF PlanFits
  <1>4. CASE cmd[p] \in Locked
    BY <1>1, <1>4 DEF BlobInv, LockHeld
  <1>5. CASE cmd[p] \notin Locked
    BY <1>3, <1>5, Marks DEF BlobsUndisturbed
  <1> QED
    BY <1>4, <1>5

\* A step that leaves content and blobs alone.
LEMMA SameWhole ==
  ASSUME UNCHANGED <<content, blobs>>
  PROVE  /\ Ids' = Ids /\ Whole' = Whole /\ WholeBytes' = WholeBytes
         /\ \A x : deps(x)' = deps(x) /\ BytesOf(x)' = BytesOf(x)
  BY DEF Ids, Whole, WholeBytes, deps, BytesOf

\* A write that leaves the blobs alone; the plan goes on, or is rolled back.
LEMMA PlainStep ==
  ASSUME IInv, BlobsUndisturbed, BlobInv, NEW p \in Proc, NEW kind, Doing(p, kind),
         kind \notin {"blob", "fill", "hang"},
         NEW q, todo' = [todo EXCEPT ![p] = q], Plain(q), cmd[p] = "view" => q = <<>>,
         UNCHANGED <<content, blobs, cmd, lock, crashes>>,
         DirectoryFits', kind = "view" => wd' = wd,
         Found' \subseteq Whole
  PROVE  BlobInv'
  <1>1. /\ Ids' = Ids /\ Whole' = Whole /\ WholeBytes' = WholeBytes
        /\ \A x : deps(x)' = deps(x) /\ BytesOf(x)' = BytesOf(x)
    BY SameWhole
  <1>2. /\ todo'[p] = q /\ \A r \in Proc : r # p => todo'[r] = todo[r]
    BY DEF IInv, Plans
  <1>3. todo[p] # <<>> /\ Head(todo[p]).w = kind /\ PlanFits(p)
    BY DEF Doing, BlobInv
  <1>4. ASSUME NEW r \in Proc, NEW b, Pending(r, b)
        PROVE  r # p /\ Pending(r, b)' /\ Head(todo'[r]) = Head(todo[r])
    <2>1. r # p
      BY <1>3, <1>4 DEF Pending
    <2> QED
      BY <1>2, <1>4, <2>1 DEF Pending
  <1>5. BlobsFit'
    <2>1. ASSUME NEW b \in Bytes, NEW r \in Proc, Pending(r, b), Head(todo[r]).w = "fill"
          PROVE  Pending(r, b)' /\ Head(todo'[r]).w = "fill"
      BY <1>4, <2>1
    <2> QED
      BY <2>1, Zenon DEF BlobInv, BlobsFit
  <1>6. ContentFits'
    BY <1>1, <1>4 DEF BlobInv, ContentFits
  <1>7. ASSUME NEW r \in Proc PROVE PlanFits(r)'
    <2>1. CASE r = p
      <3>1. q # <<>> => PlainWrite(Head(q)) /\ Plain(Tail(q))
        BY PlainRest
      <3>2. cmd[p] # "idle" /\ cmd[p] # "hung"
        BY <1>3 DEF PlanFits
      <3>3. PlainWrite(Head(q))' <=> PlainWrite(Head(q))
        BY DEF PlainWrite
      <3> QED
        BY <1>2, <1>3, <2>1, <3>1, <3>2 DEF PlanFits, Plain, PlainWrite, Contents, Bytes
    <2>2. CASE r # p
      <3>1. todo'[r] = todo[r] /\ cmd'[r] = cmd[r]
        BY <1>2, <2>2
      <3>2. ASSUME todo[r] # <<>>, BlobFirst(r, Head(todo[r])) PROVE BlobFirst(r, Head(todo[r]))'
        <4>1. Pending(r, Head(todo[r]).v)
          BY <3>2 DEF Pending, BlobFirst
        <4>2. kind = "view"
          BY <2>2, <4>1, NobodyElse
        <4> QED
          BY <3>1, <3>2, <4>2 DEF BlobFirst
      <3>3. PlanFits(r)
        BY DEF BlobInv
      <3> QED
        BY <3>1, <3>2, <3>3 DEF PlanFits
    <2> QED
      BY <2>1, <2>2
  <1>8. crashes' = 0 /\ LockHeld'
    BY DEF BlobInv, LockHeld
  <1> QED
    BY <1>5, <1>6, <1>7, <1>8 DEF BlobInv

\* What is left of a plan without its first write.
LEMMA RestIsPlain ==
  ASSUME IInv, BlobInv, NEW p \in Proc, NEW kind, Doing(p, kind), Done(p)
  PROVE  /\ Plain(Tail(todo[p])) /\ todo' = [todo EXCEPT ![p] = Tail(todo[p])]
         /\ kind \notin {"blob", "fill"} => PlainWrite(Head(todo[p]))
         /\ cmd[p] = "view" => Tail(todo[p]) = <<>>
  <1>1. PlanFits(p) /\ todo[p] # <<>> /\ Head(todo[p]).w = kind
    BY DEF BlobInv, Doing
  <1>2. todo' = [todo EXCEPT ![p] = Tail(todo[p])]
    BY DEF Done, IInv, Plans
  <1> QED
    BY <1>1, <1>2 DEF PlanFits, BlobFirst

\* Writes to neither blobs nor working directory, that make nothing known.
LEMMA QuietWrites ==
  ASSUME IInv, BlobsUndisturbed, BlobInv, NEW p \in Proc, Done(p),
         NEW kind, Doing(p, kind), kind \notin {"blob", "fill", "hang"},
         UNCHANGED <<content, blobs, wd, cmd, lock, crashes>>, Found' \subseteq Whole
  PROVE  BlobInv'
  <1>1. /\ Plain(Tail(todo[p])) /\ todo' = [todo EXCEPT ![p] = Tail(todo[p])]
        /\ cmd[p] = "view" => Tail(todo[p]) = <<>>
    BY RestIsPlain
  <1>2. DirectoryFits'
    BY DEF BlobInv, DirectoryFits
  <1> QED
    BY <1>1, <1>2, PlainStep

\* When p does not write a blob but something else, all bytes are there.
LEMMA AllWhole ==
  ASSUME BlobsUndisturbed, BlobInv, NEW p \in Proc, NEW kind, Doing(p, kind),
         kind \notin {"blob", "fill", "view", "hang"}
  PROVE  Ids \subseteq Whole
  <1>1. ~\E r \in Proc, b \in Bytes : Pending(r, b)
    BY NobodyElse DEF Doing, Pending
  <1> QED
    BY <1>1 DEF BlobInv, ContentFits

\* A change is stored, or redirected, once its bytes are there.
LEMMA FindingWrites ==
  ASSUME IInv, BlobsUndisturbed, BlobInv, NEW p \in Proc, WriteChange(p) \/ SetEpoch(p)
  PROVE  BlobInv'
  <1>1. IInv'
    BY WriteChangeSound, SetEpochSound
  <1>2. PICK kind \in {"change", "epoch"} : Doing(p, kind)
    BY DEF WriteChange, SetEpoch
  <1>3. Ids \subseteq Whole
    BY <1>2, AllWhole
  <1>4. Done(p) /\ UNCHANGED <<content, blobs, wd, cmd, lock, crashes>>
    BY DEF WriteChange, SetEpoch, unmoved, bounds
  <1>5. Found' \subseteq Whole
    BY <1>1, <1>3, <1>4 DEF IInv, Rooted, Ids
  <1> QED
    BY <1>2, <1>4, <1>5, QuietWrites

\* The other writes of that kind.
LEMMA LosingWrites ==
  ASSUME IInv, BlobsUndisturbed, BlobInv, NEW p \in Proc,
         SaveView(p) \/ SetHead(p) \/ PopOp(p) \/ AppendOp(p) \/ SaveRedo(p) \/ RemoveChange(p)
  PROVE  BlobInv'
  <1>1. PICK kind \in {"view", "head", "pop", "append", "redo", "unstore"} : Doing(p, kind)
    BY DEF SaveView, SetHead, PopOp, AppendOp, SaveRedo, RemoveChange
  <1>2. Done(p) /\ UNCHANGED <<content, blobs, wd, cmd, lock, crashes, epoch>> /\ store' \subseteq store
    BY DEF SaveView, SetHead, PopOp, AppendOp, SaveRedo, RemoveChange, unmoved, bounds
  <1>3. Found' \subseteq Whole
    BY <1>2 DEF Found, BlobInv, ContentFits
  <1> QED
    BY <1>1, <1>2, <1>3, QuietWrites

\* The file that an undo does away with.
LEMMA FileRemoved ==
  ASSUME IInv, BlobsUndisturbed, BlobInv, NEW p \in Proc, RemoveFile(p) PROVE BlobInv'
  <1>1. Doing(p, "rmblob") /\ Done(p) /\ wd' = [wd EXCEPT !.blob = Absent]
    BY DEF RemoveFile
  <1>2. UNCHANGED <<content, blobs, cmd, lock, crashes, store, epoch>>
    BY DEF RemoveFile, unmoved, bounds
  <1>3. DirectoryFits'
    BY <1>1 DEF BlobInv, DirectoryFits, File, Contents
  <1>4. /\ Plain(Tail(todo[p])) /\ todo' = [todo EXCEPT ![p] = Tail(todo[p])]
        /\ cmd[p] = "view" => Tail(todo[p]) = <<>>
    BY <1>1, RestIsPlain
  <1>5. Found' \subseteq Whole
    BY <1>2 DEF Found, BlobInv, ContentFits
  <1> DEFINE kind == "rmblob"
  <1>6. Doing(p, kind) /\ kind \notin {"blob", "fill", "hang"} /\ (kind = "view" => wd' = wd)
    BY <1>1
  <1> HIDE DEF kind
  <1> QED
    BY <1>2, <1>3, <1>4, <1>5, <1>6, PlainStep

\* The working directory gets a tree, or part of it.
LEMMA StateWritten ==
  ASSUME IInv, BlobsUndisturbed, BlobInv, NEW p \in Proc, WriteState(p) PROVE BlobInv'
  <1> DEFINE w == Head(todo[p])
             t == w.tree
             gone == {b \in Bytes : blobs[b] = Absent}
  <1>1. Doing(p, "wd") /\ w.w = "wd" /\ todo[p] # <<>>
    BY DEF WriteState, Doing
  <1>2. UNCHANGED <<content, blobs, cmd, lock, crashes, store, epoch>>
    BY DEF WriteState, unmoved, bounds
  <1>3. \/ /\ t.blob \notin gone
           /\ wd' = [rs |-> t.rs, blob |-> IF t.blob = Absent THEN wd.blob ELSE blobs[t.blob]]
           /\ Done(p)
        \/ /\ t.blob \in gone
           /\ \E rs \in {Absent, t.rs} : wd' = [wd EXCEPT !.rs = rs]
           /\ todo' = [todo EXCEPT ![p] = Head(@).undo]
    BY Zenon DEF WriteState
  <1>4. PlanFits(p)
    BY DEF BlobInv
  <1>5. PlainWrite(w)
    BY <1>1, <1>4 DEF PlanFits, BlobFirst
  <1>6. t.blob \in Contents /\ PlainUndo(w.undo)
    BY <1>1, <1>5 DEF PlainWrite
  <1>7. cmd[p] # "view"
    BY <1>1, <1>4 DEF PlanFits
  <1>8. Found' \subseteq Whole
    BY <1>2 DEF Found, BlobInv, ContentFits
  <1>9. \A b \in Bytes : blobs[b] \in Contents
    BY Marks DEF BlobInv, BlobsFit, Contents
  <1> HIDE DEF t, gone
  <1>10. CASE /\ wd' = [rs |-> t.rs, blob |-> IF t.blob = Absent THEN wd.blob ELSE blobs[t.blob]]
              /\ Done(p)
    <2>1. DirectoryFits'
      BY <1>6, <1>9, <1>10 DEF BlobInv, DirectoryFits, File, Contents
    <2>2. Plain(Tail(todo[p])) /\ todo' = [todo EXCEPT ![p] = Tail(todo[p])]
      BY <1>1, <1>10, RestIsPlain
    <2> QED
      BY <1>1, <1>2, <1>7, <1>8, <2>1, <2>2, PlainStep
  <1>11. CASE /\ \E rs \in {Absent, t.rs} : wd' = [wd EXCEPT !.rs = rs]
              /\ todo' = [todo EXCEPT ![p] = Head(@).undo]
    <2>1. DirectoryFits'
      BY <1>11 DEF BlobInv, DirectoryFits, File
    <2>2. Plain(w.undo) /\ todo' = [todo EXCEPT ![p] = w.undo]
      BY <1>6, <1>11, UndoIsPlain DEF IInv, Plans
    <2> HIDE DEF w
    <2> QED
      BY <1>1, <1>2, <1>7, <1>8, <2>1, <2>2, PlainStep
  <1> QED
    BY <1>3, <1>10, <1>11

\* While p is at a blob, nobody else is.
LEMMA BlobAlone ==
  ASSUME BlobsUndisturbed, BlobInv, NEW p \in Proc, NEW kind \in {"blob", "fill"}, Doing(p, kind)
  PROVE  /\ BlobFirst(p, Head(todo[p])) /\ cmd[p] \in Locked /\ Plain(Tail(todo[p]))
         /\ todo[p] # <<>> /\ Head(todo[p]).w = kind
         /\ \A r \in Proc : \A b : Pending(r, b) => r = p /\ b = Head(todo[p]).v
  <1>1. todo[p] # <<>> /\ Head(todo[p]).w = kind /\ PlanFits(p)
    BY DEF Doing, BlobInv
  <1>2. BlobFirst(p, Head(todo[p])) /\ cmd[p] \in Locked /\ Plain(Tail(todo[p]))
    BY <1>1 DEF PlanFits, PlainWrite, BlobFirst
  <1>3. \A r \in Proc : \A b : Pending(r, b) => r = p
    BY NobodyElse
  <1> QED
    BY <1>1, <1>2, <1>3 DEF Pending

\* While p is at a blob, the plans of the others are plain, and stay so.
LEMMA OthersFit ==
  ASSUME IInv, BlobsUndisturbed, BlobInv, NEW p \in Proc, NEW kind \in {"blob", "fill"}, Doing(p, kind),
         NEW q, todo' = [todo EXCEPT ![p] = q], cmd' = cmd, NEW r \in Proc, r # p
  PROVE  PlanFits(r)'
  <1>1. todo'[r] = todo[r] /\ cmd'[r] = cmd[r]
    BY DEF IInv, Plans
  <1>2. ~Pending(r, Head(todo[r]).v)
    BY BlobAlone
  <1>3. PlanFits(r) /\ (todo[r] # <<>> => PlainWrite(Head(todo[r])))
    BY <1>2 DEF BlobInv, PlanFits, BlobFirst, Pending
  <1> QED
    BY <1>1, <1>3 DEF PlanFits

\* A blob that has the bytes, or has them now, is no longer awaited.
LEMMA BlobThere ==
  ASSUME IInv, BlobsUndisturbed, BlobInv, NEW p \in Proc, NEW kind \in {"blob", "fill"}, Doing(p, kind),
         Done(p), UNCHANGED <<content, cmd, lock, crashes, store, epoch, wd>>,
         NEW v, v = Head(todo[p]).v, DOMAIN blobs' = Bytes,
         blobs'[v] = v, \A b \in Bytes : b # v => blobs'[b] = blobs[b]
  PROVE  BlobInv'
  <1>1. /\ BlobFirst(p, Head(todo[p])) /\ cmd[p] \in Locked /\ Plain(Tail(todo[p]))
        /\ todo[p] # <<>> /\ Head(todo[p]).w = kind
        /\ \A r \in Proc : \A b : Pending(r, b) => r = p /\ b = v
    BY BlobAlone
  <1>2. v \in Bytes /\ DOMAIN blobs = Bytes
    BY <1>1 DEF BlobFirst, BlobInv, BlobsFit
  <1>3. blobs'[v] = v /\ \A b \in Bytes : b # v => blobs'[b] = blobs[b]
    OBVIOUS
  <1>4. WholeBytes' = WholeBytes \cup {v} /\ Ids' = Ids
    BY <1>2, <1>3 DEF WholeBytes, Ids, Bytes
  <1>5. \A x : deps(x)' = deps(x) /\ BytesOf(x)' = BytesOf(x)
    BY DEF deps, BytesOf
  <1>6. Ids \subseteq Whole'
    BY <1>1, <1>4, <1>5 DEF BlobInv, ContentFits, Whole
  <1>7. BlobsFit'
    <2>1. ASSUME NEW b \in Bytes PROVE blobs'[b] \in {Absent, b}
      <3>1. CASE b = v
        BY <1>3, <3>1
      <3>2. CASE b # v
        BY <1>1, <1>3, <3>2 DEF BlobInv, BlobsFit
      <3> QED
        BY <3>1, <3>2
    <2>2. DOMAIN blobs' = Bytes
      BY <1>2
    <2> QED
      BY <2>1, <2>2, Zenon DEF BlobsFit, Bytes
  <1>8. ContentFits'
    <2>1. Whole \subseteq Ids /\ Found' = Found
      BY DEF Whole, Found
    <2> QED
      BY <1>4, <1>5, <1>6, <2>1 DEF BlobInv, ContentFits
  <1>9. todo' = [todo EXCEPT ![p] = Tail(todo[p])]
    BY DEF Done, IInv, Plans
  <1>10. PlanFits(p)'
    <2>1. todo'[p] = Tail(todo[p]) /\ cmd'[p] = cmd[p]
      BY <1>9 DEF IInv, Plans
    <2>2. Tail(todo[p]) # <<>> => PlainWrite(Head(Tail(todo[p]))) /\ Plain(Tail(Tail(todo[p])))
      BY <1>1, PlainRest
    <2>3. cmd[p] # "idle" /\ cmd[p] # "hung" /\ cmd[p] # "view" /\ PlanFits(p)
      BY <1>1, Marks DEF BlobInv
    <2> QED
      BY <2>1, <2>2, <2>3 DEF PlanFits
  <1>11. \A r \in Proc : PlanFits(r)'
    BY <1>9, <1>10, OthersFit
  <1>12. crashes' = 0 /\ LockHeld' /\ DirectoryFits'
    BY DEF BlobInv, LockHeld, DirectoryFits
  <1> QED
    BY <1>7, <1>8, <1>11, <1>12 DEF BlobInv

\* A blob is created, or was there.
LEMMA BlobCreated ==
  ASSUME IInv, BlobsUndisturbed, BlobInv, NEW p \in Proc, WriteBlob(p) PROVE BlobInv'
  <1>0. PICK v, w, q : /\ v = Head(todo[p]).v /\ w = [w |-> "fill", v |-> v, bytes |-> wd.blob]
                       /\ q = <<w>> \o Tail(todo[p])
    OBVIOUS
  <1>1. Doing(p, "blob") /\ UNCHANGED <<content, cmd, lock, crashes, store, epoch, wd>>
    BY DEF WriteBlob, unmoved, bounds
  <1>2. /\ BlobFirst(p, Head(todo[p])) /\ cmd[p] \in Locked /\ Plain(Tail(todo[p]))
        /\ todo[p] # <<>> /\ Head(todo[p]).w = "blob"
        /\ \A r \in Proc : \A b : Pending(r, b) => r = p /\ b = v
    BY <1>0, <1>1, BlobAlone
  <1>3. v \in Bytes /\ wd.blob = v /\ wd.blob # Absent
    BY <1>0, <1>2, Marks DEF BlobFirst
  <1>4. \/ blobs[v] # Absent /\ Done(p) /\ UNCHANGED blobs
        \/ /\ blobs[v] = Absent
           /\ blobs' = [blobs EXCEPT ![v] = Torn]
           /\ todo' = [todo EXCEPT ![p] = <<[w |-> "fill", v |-> v, bytes |-> wd.blob]>> \o Tail(@)]
    BY <1>0, <1>3 DEF WriteBlob
  <1>6. DOMAIN blobs = Bytes /\ \A b \in Bytes : blobs[b] \in {Absent, b}
    BY <1>2 DEF BlobInv, BlobsFit
  <1>7. CASE blobs[v] # Absent /\ Done(p) /\ UNCHANGED blobs
    <2>1. blobs'[v] = v /\ DOMAIN blobs' = Bytes
      BY <1>3, <1>6, <1>7
    <2> QED
      BY <1>1, <1>7, <2>1, BlobThere, <1>0
  <1>8. CASE blobs[v] = Absent /\ blobs' = [blobs EXCEPT ![v] = Torn] /\ todo' = [todo EXCEPT ![p] = q]
    <2>1. blobs'[v] = Torn /\ DOMAIN blobs' = Bytes /\ \A b \in Bytes : b # v => blobs'[b] = blobs[b]
      BY <1>3, <1>6, <1>8
    <2>2. WholeBytes \subseteq WholeBytes' /\ Ids' = Ids
      BY <1>1, <1>3, <1>8, <2>1, Marks DEF WholeBytes, Ids, Bytes
    <2>3. \A x : deps(x)' = deps(x) /\ BytesOf(x)' = BytesOf(x)
      BY <1>1 DEF deps, BytesOf
    <2>4. Whole \subseteq Whole'
      BY <2>2, <2>3 DEF Whole
    <2>5. todo'[p] = q
      BY <1>8 DEF IInv, Plans
    <2>6. q # <<>> /\ Head(q) = w /\ Tail(q) = Tail(todo[p])
      <3> DEFINE t == Tail(todo[p])
      <3>1. t \in Seq(Range(t))
        BY <1>2 DEF Plain, IsSeq
      <3> HIDE DEF t
      <3> DEFINE S == Range(t) \cup {w}
      <3>2. t \in Seq(S) /\ w \in S
        BY <3>1
      <3> HIDE DEF S
      <3>3. q = <<w>> \o t
        BY <1>0 DEF t
      <3> QED
        BY <3>2, <3>3 DEF t
    <2>7. Pending(p, v)' /\ Head(todo'[p]).w = "fill"
      BY <1>0, <2>5, <2>6 DEF Pending
    <2>8. BlobsFit'
      <3>1. ASSUME NEW b \in Bytes
            PROVE  blobs'[b] \in {Absent, b} \/ (blobs'[b] = Torn /\ Pending(p, b)' /\ Head(todo'[p]).w = "fill")
        <4>1. CASE b = v
          BY <2>1, <2>7, <4>1
        <4>2. CASE b # v
          BY <1>6, <2>1, <4>2
        <4> QED
          BY <4>1, <4>2
      <3> QED
        BY <2>1, <3>1, Zenon DEF BlobsFit, Bytes
    <2>9. ContentFits'
      <3>1. Found' = Found
        BY <1>1 DEF Found
      <3>2. \A x \in Ids : x \in Whole \/ BytesOf(x) = v
        BY <1>2 DEF BlobInv, ContentFits
      <3> QED
        BY <1>3, <2>2, <2>3, <2>4, <2>7, <3>1, <3>2 DEF BlobInv, ContentFits, Bytes
    <2>10. PlanFits(p)'
      <3>1. BlobFirst(p, w)'
        BY <1>0, <1>1, <1>2, <1>3, <2>1, Marks DEF BlobFirst, Bytes
      <3>2. cmd[p] # "idle" /\ cmd[p] # "hung" /\ cmd[p] # "view" /\ PlanFits(p) /\ cmd' = cmd
        BY <1>1, <1>2, Marks DEF BlobInv
      <3>3. Plain(Tail(q))
        BY <1>2, <2>6
      <3> QED
        BY <2>5, <2>6, <3>1, <3>2, <3>3 DEF PlanFits
    <2>11. \A r \in Proc : PlanFits(r)'
      BY <1>1, <1>8, <2>10, OthersFit
    <2>12. crashes' = 0 /\ LockHeld' /\ DirectoryFits'
      BY <1>1 DEF BlobInv, LockHeld, DirectoryFits
    <2> QED
      BY <2>8, <2>9, <2>11, <2>12 DEF BlobInv
  <1>9. \A q2 : [todo EXCEPT ![p] = q2 \o Tail(@)] = [todo EXCEPT ![p] = q2 \o Tail(todo[p])]
    BY DEF IInv, Plans
  <1> QED
    BY <1>0, <1>4, <1>7, <1>8, <1>9

\* A blob is filled.
LEMMA BlobFilled ==
  ASSUME IInv, BlobsUndisturbed, BlobInv, NEW p \in Proc, FillBlob(p) PROVE BlobInv'
  <1> DEFINE v == Head(todo[p]).v
  <1>1. Doing(p, "fill") /\ Done(p) /\ UNCHANGED <<content, cmd, lock, crashes, store, epoch, wd>>
    BY DEF FillBlob, unmoved, bounds
  <1>2. BlobFirst(p, Head(todo[p])) /\ Head(todo[p]).w = "fill"
    BY <1>1, BlobAlone
  <1>3. v \in Bytes /\ Head(todo[p]).bytes = v /\ blobs[v] # Absent /\ DOMAIN blobs = Bytes
    BY <1>2 DEF BlobFirst, BlobInv, BlobsFit
  <1>4. blobs' = [blobs EXCEPT ![v] = IF @ = Absent THEN @ ELSE v]
    BY <1>3 DEF FillBlob
  <1> HIDE DEF v
  <1>5. DOMAIN blobs' = Bytes /\ blobs'[v] = v /\ \A b \in Bytes : b # v => blobs'[b] = blobs[b]
    BY <1>3, <1>4
  <1> QED
    BY <1>1, <1>5, BlobThere DEF v

\* A hang and an exit leave everything but a command and the lock.
LEMMA HangFits == ASSUME IInv, BlobInv, NEW p \in Proc, Hang(p) PROVE BlobInv'
  <1>1. /\ todo[p] # <<>> /\ Head(todo[p]).w = "hang" /\ cmd' = [cmd EXCEPT ![p] = "hung"]
        /\ UNCHANGED <<content, store, blobs, epoch, wd, lock, todo, crashes>>
    BY DEF Hang, Doing, bounds
  <1>2. cmd'[p] = "hung" /\ \A r \in Proc : r # p => cmd'[r] = cmd[r]
    BY <1>1 DEF BlobInv, LockHeld
  <1>3. Ids' = Ids /\ Whole' = Whole /\ \A x : deps(x)' = deps(x) /\ BytesOf(x)' = BytesOf(x)
    BY <1>1, SameWhole
  <1>4. \A r, b : Pending(r, b)' <=> Pending(r, b)
    BY <1>1 DEF Pending
  <1>5. BlobsFit'
    BY <1>1, <1>4, Zenon DEF BlobInv, BlobsFit
  <1>6. ContentFits'
    BY <1>1, <1>3, <1>4 DEF BlobInv, ContentFits, Found
  <1>7. ASSUME NEW r \in Proc PROVE PlanFits(r)'
    <2>1. PlanFits(r)
      BY DEF BlobInv
    <2>2. CASE r = p
      <3>1. PlainWrite(Head(todo[p])) /\ Plain(Tail(todo[p]))
        BY <1>1, <2>1, <2>2 DEF PlanFits, BlobFirst
      <3> QED
        BY <1>1, <1>2, <2>2, <3>1 DEF PlanFits
    <2>3. CASE r # p
      BY <1>1, <1>2, <2>1, <2>3 DEF PlanFits, BlobFirst
    <2> QED
      BY <2>2, <2>3
  <1>8. Write(p)
    BY DEF Write
  <1>9. crashes' = 0 /\ LockHeld' /\ DirectoryFits'
    BY <1>1, <1>8, WriteKeepsLock DEF BlobInv, DirectoryFits
  <1> QED
    BY <1>5, <1>6, <1>7, <1>9 DEF BlobInv

\* A process that ends has no plan any more.
LEMMA ExitFits == ASSUME IInv, BlobInv, NEW p \in Proc, Exit(p) PROVE BlobInv'
  <1>1. /\ todo[p] = <<>> /\ cmd' = [cmd EXCEPT ![p] = "idle"]
        /\ UNCHANGED <<content, store, blobs, epoch, wd, todo, crashes>>
    BY DEF Exit, bounds
  <1>2. cmd'[p] = "idle" /\ \A r \in Proc : r # p => cmd'[r] = cmd[r]
    BY <1>1 DEF BlobInv, LockHeld
  <1>3. Ids' = Ids /\ Whole' = Whole /\ \A x : deps(x)' = deps(x) /\ BytesOf(x)' = BytesOf(x)
    BY <1>1, SameWhole
  <1>4. \A r, b : Pending(r, b)' <=> Pending(r, b)
    BY <1>1 DEF Pending
  <1>5. BlobsFit'
    BY <1>1, <1>4, Zenon DEF BlobInv, BlobsFit
  <1>6. ContentFits'
    BY <1>1, <1>3, <1>4 DEF BlobInv, ContentFits, Found
  <1>7. ASSUME NEW r \in Proc PROVE PlanFits(r)'
    <2>1. PlanFits(r)
      BY DEF BlobInv
    <2> QED
      BY <1>1, <1>2, <2>1 DEF PlanFits, BlobFirst
  <1>8. Write(p)
    BY DEF Write
  <1>9. crashes' = 0 /\ LockHeld' /\ DirectoryFits'
    BY <1>1, <1>8, WriteKeepsLock DEF BlobInv, DirectoryFits
  <1> QED
    BY <1>5, <1>6, <1>7, <1>9 DEF BlobInv

\* The user saves a file while no command runs.
LEMMA EditFits == ASSUME IInv, BlobInv, Edit, ~meddled' PROVE BlobInv'
  <1>1. UNCHANGED <<content, store, blobs, epoch, todo, cmd, lock, crashes>>
    BY DEF Edit
  <1>2. \A p \in Proc : cmd[p] = "idle" /\ todo[p] = <<>>
    BY DEF Edit, BlobInv, PlanFits
  <1>3. PICK f \in File, v \in Version \cup {Absent} : wd' = [wd EXCEPT ![f] = v]
    BY DEF Edit
  <1>4. DirectoryFits'
    BY <1>3 DEF BlobInv, DirectoryFits, File, Contents, Bytes
  <1>5. Ids' = Ids /\ Whole' = Whole /\ \A x : deps(x)' = deps(x) /\ BytesOf(x)' = BytesOf(x)
    BY <1>1, SameWhole
  <1>6. \A r, b : Pending(r, b)' <=> Pending(r, b)
    BY <1>1 DEF Pending
  <1>7. BlobsFit'
    BY <1>1, <1>6, Zenon DEF BlobInv, BlobsFit
  <1>8. ContentFits'
    BY <1>1, <1>5, <1>6 DEF BlobInv, ContentFits, Found
  <1>9. \A p \in Proc : PlanFits(p)'
    BY <1>1, <1>2 DEF BlobInv, PlanFits
  <1>10. crashes' = 0 /\ LockHeld'
    BY <1>1 DEF BlobInv, LockHeld
  <1> QED
    BY <1>4, <1>7, <1>8, <1>9, <1>10 DEF BlobInv

\* Nothing happens to what the invariant is about.
LEMMA NothingFits == ASSUME BlobInv, UNCHANGED vars PROVE BlobInv'
  <1>1. UNCHANGED <<content, store, blobs, epoch, wd, lock, cmd, todo, crashes>>
    BY DEF vars, bounds
  <1>2. Ids' = Ids /\ Whole' = Whole /\ \A x : deps(x)' = deps(x) /\ BytesOf(x)' = BytesOf(x)
    BY <1>1, SameWhole
  <1>3. \A r, b : Pending(r, b)' <=> Pending(r, b)
    BY <1>1 DEF Pending
  <1>4. BlobsFit'
    BY <1>1, <1>3, Zenon DEF BlobInv, BlobsFit
  <1>5. ContentFits'
    BY <1>1, <1>2, <1>3 DEF BlobInv, ContentFits, Found
  <1>6. \A p \in Proc : PlanFits(p)'
    BY <1>1 DEF BlobInv, PlanFits, BlobFirst
  <1>7. crashes' = 0 /\ LockHeld' /\ DirectoryFits'
    BY <1>1 DEF BlobInv, LockHeld, DirectoryFits
  <1> QED
    BY <1>4, <1>5, <1>6, <1>7 DEF BlobInv

\* Every write.
LEMMA WriteFits ==
  ASSUME IInv, BlobsUndisturbed, BlobInv, NEW p \in Proc, Write(p) PROVE BlobInv'
  <1>1. ~RemoveBlobs(p)
    <2> SUFFICES ASSUME Doing(p, "gc") PROVE FALSE
      BY DEF RemoveBlobs
    <2> QED
      BY DEF Doing, BlobInv, PlanFits, PlainWrite, BlobFirst
  <1> QED
    BY <1>1, BlobCreated, BlobFilled, FindingWrites, LosingWrites, FileRemoved, StateWritten,
       HangFits, ExitFits DEF Write

\* An empty repository.
LEMMA InitFits == ASSUME Init PROVE BlobInv
  <1>1. Ids = {} /\ Found = {}
    BY DEF Init, Ids, Found
  <1>2. LockHeld
    BY DEF Init, LockHeld, Locked
  <1>3. BlobsFit
    BY DEF Init, BlobsFit
  <1>4. ContentFits
    BY <1>1 DEF ContentFits
  <1>5. DirectoryFits
    BY DEF Init, DirectoryFits, EmptyTree, File, Contents
  <1>6. \A p \in Proc : PlanFits(p)
    BY DEF Init, PlanFits
  <1> QED
    BY <1>2, <1>3, <1>4, <1>5, <1>6 DEF BlobInv, Init

-----------------------------------------------------------------------------
(* The commands, for the blobs.                                               *)

\* The plan q of c begins with the copy of a file that has the bytes v.
Copies(c, q, v) ==
  /\ c \in Locked /\ v \in Bytes /\ wd.blob = v
  /\ IsSeq(q) /\ q # <<>> /\ Head(q) = [w |-> "blob", v |-> v] /\ Plain(Tail(q))

\* The bytes of a new change are there, or are copied first.
Provided(c, q, v) == v \in WholeBytes \cup {Absent, Keep} \/ Copies(c, q, v)

\* A command begins that learns at most a change whose bytes are provided.
LEMMA BeginFits ==
  ASSUME IInv, BlobInv, NEW p \in Proc, cmd[p] = "idle", NEW c, NEW q, Begin(p, c, q),
         \/ content' = content
         \/ \E change : Learn(change) /\ change.deps \subseteq Found /\ Provided(c, q, change.atoms.blob),
         Plain(q) \/ \E v : Copies(c, q, v),
         c = "view" => Head(q).w = "view" /\ Tail(q) = <<>>
  PROVE  BlobInv'
  <1>1. /\ UNCHANGED <<store, blobs, epoch, wd, crashes>> /\ c \in Commands /\ q # <<>>
        /\ cmd' = [cmd EXCEPT ![p] = c] /\ todo' = [todo EXCEPT ![p] = q]
    BY DEF Begin
  <1>2. todo[p] = <<>>
    BY DEF BlobInv, PlanFits
  <1>3. /\ cmd'[p] = c /\ todo'[p] = q
        /\ \A r \in Proc : r # p => cmd'[r] = cmd[r] /\ todo'[r] = todo[r]
    BY <1>1 DEF BlobInv, LockHeld, IInv, Plans
  <1>4. \A r \in Proc : \A b : Pending(r, b) => r # p /\ todo'[r] = todo[r] /\ Pending(r, b)'
    BY <1>2, <1>3 DEF Pending
  <1>5. WholeBytes' = WholeBytes /\ Found' = Found
    BY <1>1 DEF WholeBytes, Found
  <1>6. BlobsFit'
    <2>1. ASSUME NEW b \in Bytes, NEW r \in Proc, Pending(r, b), Head(todo[r]).w = "fill"
          PROVE  Pending(r, b)' /\ Head(todo'[r]).w = "fill"
      BY <1>4, <2>1
    <2> QED
      BY <1>1, <2>1, Zenon DEF BlobInv, BlobsFit
  <1>7. ContentFits'
    <2>1. CASE content' = content
      <3>1. Ids' = Ids /\ Whole' = Whole /\ \A x : deps(x)' = deps(x) /\ BytesOf(x)' = BytesOf(x)
        BY <1>1, <2>1, SameWhole
      <3> QED
        BY <1>4, <1>5, <3>1 DEF BlobInv, ContentFits
    <2>2. ASSUME NEW change, Learn(change), change.deps \subseteq Found,
                 Provided(c, q, change.atoms.blob), content' # content
          PROVE  ContentFits'
      <3>1. content' = Append(content, change)
        BY <2>2 DEF Learn
      <3>0. PICK n : n = Len(content)
        OBVIOUS
      <3>2. n \in Nat /\ Ids = 1..n /\ Ids' = 1..(n + 1) /\ content'[n + 1] = change /\ \A x \in Ids : content'[x] = content[x]
        <4> DEFINE S == Range(content) \cup {change}
        <4>1. content \in Seq(S) /\ change \in S
          BY DEF IInv, Rooted, IsSeq
        <4> HIDE DEF S
        <4> QED
          BY <3>0, <3>1, <4>1 DEF Ids
      <3>3. \A x \in Ids : deps(x)' = deps(x) /\ BytesOf(x)' = BytesOf(x)
        BY <3>2 DEF deps, BytesOf
      <3>4. deps(n + 1)' = change.deps /\ BytesOf(n + 1)' = change.atoms.blob
        BY <3>2 DEF deps, BytesOf
      <3>5. Whole \subseteq Ids /\ Whole \subseteq Whole' /\ Ids \subseteq Ids'
        BY <1>5, <3>2, <3>3 DEF Whole
      <3>6. Found \subseteq Whole
        BY DEF BlobInv, ContentFits
      <3>7. ASSUME NEW x \in Ids' PROVE deps(x)' \subseteq Whole' \cap 1..(x - 1)
        <4>1. CASE x \in Ids
          BY <3>3, <3>5, <4>1 DEF BlobInv, ContentFits
        <4>2. CASE x = n + 1
          <5>1. change.deps \subseteq Whole' /\ change.deps \subseteq 1..n
            BY <2>2, <3>2, <3>5, <3>6
          <5>2. x - 1 = n
            BY <3>2, <4>2
          <5> QED
            BY <3>4, <4>2, <5>1, <5>2
        <4> QED
          BY <3>2, <4>1, <4>2
      <3>8. ASSUME NEW x \in Ids'
            PROVE  x \in Whole' \/ (BytesOf(x)' \in Bytes /\ \E r \in Proc : Pending(r, BytesOf(x))')
        <4>1. CASE x \in Ids
          BY <1>4, <3>3, <3>5, <4>1 DEF BlobInv, ContentFits
        <4>2. CASE x = n + 1 /\ Copies(c, q, change.atoms.blob)
          <5>1. BytesOf(x)' \in Bytes
            BY <3>4, <4>2 DEF Copies
          <5>2. Pending(p, BytesOf(x))'
            BY <1>3, <3>4, <4>2 DEF Copies, Pending
          <5> QED
            BY <5>1, <5>2
        <4>3. CASE x = n + 1 /\ change.atoms.blob \in WholeBytes \cup {Absent, Keep}
          BY <1>5, <3>4, <4>3 DEF Whole
        <4> QED
          BY <2>2, <3>2, <4>1, <4>2, <4>3 DEF Provided
      <3> QED
        BY <1>5, <3>5, <3>6, <3>7, <3>8 DEF ContentFits, Bytes
    <2> QED
      BY <2>1, <2>2
  <1>8. ASSUME NEW r \in Proc PROVE PlanFits(r)'
    <2>1. CASE r = p
      <3>1. c \in Commands /\ c # "idle" /\ c # "hung"
        BY <1>1, Marks
      <3>2. Plain(Tail(q)) /\ (PlainWrite(Head(q)) \/ BlobFirst(p, Head(q))')
        <4>1. CASE Plain(q)
          BY <1>1, <4>1, PlainRest
        <4>2. ASSUME NEW v, Copies(c, q, v) PROVE Plain(Tail(q)) /\ BlobFirst(p, Head(q))'
          BY <1>1, <1>3, <4>2 DEF Copies, BlobFirst, Bytes
        <4> QED
          BY <4>1, <4>2
      <3> QED
        BY <1>1, <1>3, <2>1, <3>1, <3>2 DEF PlanFits
    <2>2. CASE r # p
      <3>1. PlanFits(r) /\ todo'[r] = todo[r] /\ cmd'[r] = cmd[r]
        BY <1>3, <2>2 DEF BlobInv
      <3> QED
        BY <1>1, <3>1 DEF PlanFits, BlobFirst
    <2> QED
      BY <2>1, <2>2
  <1>9. crashes' = 0 /\ LockHeld' /\ DirectoryFits'
    BY <1>1, BeginLocks DEF BlobInv, DirectoryFits
  <1> QED
    BY <1>6, <1>7, <1>8, <1>9 DEF BlobInv

\* The plan q of c copies the bytes v first if there are any.
Opens(c, q, v) == IF v \in Bytes THEN Copies(c, q, v) ELSE Plain(q)

\* A copy of what the working directory has.
LEMMA OpensWith ==
  ASSUME NEW c \in Locked, NEW v, v \in {Keep, wd.blob} PROVE Opens(c, write_blob(v), v)
  <1>1. CASE v \in Bytes
    <2> DEFINE w == [w |-> "blob", v |-> v]
               S == {w}
    <2>1. w \in S
      OBVIOUS
    <2>2. v = wd.blob /\ write_blob(v) = <<w>>
      BY <1>1, Marks DEF write_blob
    <2> HIDE DEF w, S
    <2>3. <<w>> \in Seq(S) /\ <<w>> # <<>> /\ Head(<<w>>) = w /\ Tail(<<w>>) = <<>>
      BY <2>1
    <2>4. IsSeq(<<w>>)
      BY <2>3, SeqHasRange
    <2> QED
      BY <1>1, <2>2, <2>3, <2>4, PlainNone DEF Opens, Copies, w
  <1>2. CASE v \notin Bytes
    BY <1>2, PlainNone DEF Opens, write_blob
  <1> QED
    BY <1>1, <1>2

\* It stays the first write when others follow.
LEMMA OpensThen ==
  ASSUME NEW c, NEW v, NEW a, NEW b, Opens(c, a, v), Plain(b) PROVE Opens(c, a \o b, v)
  <1>1. CASE v \notin Bytes
    BY <1>1, PlainBoth DEF Opens
  <1>2. CASE v \in Bytes
    <2> DEFINE S == Range(a) \cup Range(b)
    <2>1. Copies(c, a, v)
      BY <1>2 DEF Opens
    <2>2. a \in Seq(S) /\ b \in Seq(S) /\ a # <<>>
      BY <2>1 DEF Copies, Plain, IsSeq
    <2> HIDE DEF S
    <2>3. /\ a \o b \in Seq(S) /\ a \o b # <<>> /\ Head(a \o b) = Head(a)
          /\ Tail(a \o b) = Tail(a) \o b
      BY <2>2
    <2>4. IsSeq(a \o b)
      BY <2>3, SeqHasRange
    <2>5. Plain(Tail(a) \o b)
      BY <2>1, PlainBoth DEF Copies
    <2> QED
      BY <1>2, <2>1, <2>3, <2>4, <2>5 DEF Opens, Copies
  <1> QED
    BY <1>1, <1>2

\* A command that makes a change of found dependencies and copies its bytes.
LEMMA MakesChange ==
  ASSUME IInv, BlobInv, NEW p \in Proc, cmd[p] = "idle", NEW c, c # "view", NEW q, Begin(p, c, q),
         NEW change, Learn(change), change.deps \subseteq Found,
         change.atoms.blob \in Contents \cup {Keep}, Opens(c, q, change.atoms.blob)
  PROVE  BlobInv'
  <1>1. Provided(c, q, change.atoms.blob)
    BY DEF Provided, Opens, Contents
  <1>2. Plain(q) \/ \E v : Copies(c, q, v)
    BY DEF Opens
  <1> QED
    BY <1>1, <1>2, BeginFits

\* One that makes none, or one of bytes that are there.
LEMMA MakesNone ==
  ASSUME IInv, BlobInv, NEW p \in Proc, cmd[p] = "idle", NEW c, c # "view", NEW q, Begin(p, c, q),
         Plain(q), content' = content
  PROVE  BlobInv'
  BY BeginFits

\* snap, amend and the other commits copy the bytes of the file before they write the change.
LEMMA CommitFits ==
  ASSUME IInv, BlobInv, NEW p \in Proc, cmd[p] = "idle", NEW c \in Locked, NEW d, d \subseteq Found,
         NEW atoms, atoms.blob \in {Keep, wd.blob}, NEW intent, Commit(p, c, d, atoms, intent)
  PROVE  BlobInv'
  <1> DEFINE change == NewChange(d, atoms, intent)
             id == IdOf(change)
             one == write_blob(atoms.blob)
             two == write_change(id)
             three == save_view(head, {id})
             four == log_operation(head, Tip, {id})
             q2 == one \o two
             q3 == q2 \o three
             q4 == q3 \o four
  <1>1. Learn(change) /\ Begin(p, c, q4)
    BY DEF Commit
  <1>2. change.deps \subseteq Found /\ change.atoms.blob = atoms.blob
    BY DEF NewChange
  <1>3. atoms.blob \in Contents \cup {Keep}
    BY DEF BlobInv, DirectoryFits
  <1>4. Opens(c, one, atoms.blob)
    BY OpensWith
  <1>5. Plain(two) /\ Plain(three) /\ Plain(four)
    BY PlainWrites
  <1> HIDE DEF change, id, one, two, three, four, q2, q3, q4
  <1>6. Opens(c, q2, atoms.blob)
    BY <1>4, <1>5, OpensThen DEF q2
  <1>7. Opens(c, q3, atoms.blob)
    BY <1>5, <1>6, OpensThen DEF q3
  <1>8. Opens(c, q4, change.atoms.blob)
    BY <1>2, <1>5, <1>7, OpensThen DEF q4
  <1>9. c # "view"
    BY Marks
  <1> QED
    BY <1>1, <1>2, <1>3, <1>8, <1>9, MakesChange

\* snap and snapshot.
LEMMA SnapFits == ASSUME IInv, BlobInv, NEW p \in Proc, cmd[p] = "idle", Snap(p) PROVE BlobInv'
  <1>1. PICK intent, atoms : Commit(p, "snap", Tip, atoms, intent) /\ atoms.blob \in {Keep, wd.blob}
    <2>1. delta(TreeOf(Tip)).blob \in {Keep, wd.blob}
      BY DEF delta, File
    <2>2. PICK intent \in Intent, staged \in SUBSET File :
             LET all == delta(TreeOf(Tip))
                 atoms == [f \in File |-> IF f \in staged \/ all[f] = Absent THEN all[f] ELSE Keep]
             IN  Commit(p, "snap", Tip, atoms, intent)
      BY DEF Snap
    <2> DEFINE all == delta(TreeOf(Tip))
               atoms == [f \in File |-> IF f \in staged \/ all[f] = Absent THEN all[f] ELSE Keep]
    <2>3. Commit(p, "snap", Tip, atoms, intent)
      BY <2>2
    <2> HIDE DEF all
    <2>4. atoms.blob \in {Keep, wd.blob}
      BY <2>1 DEF File, all
    <2> HIDE DEF atoms
    <2> QED
      BY <2>3, <2>4
  <1>2. "snap" \in Locked /\ Tip \subseteq Found
    BY TipFound DEF Locked
  <1> QED
    BY <1>1, <1>2, CommitFits

\* fork_empty_snapshot.
LEMMA ForkFits == ASSUME IInv, BlobInv, NEW p \in Proc, cmd[p] = "idle", Fork(p) PROVE BlobInv'
  <1>1. PICK intent \in Intent : Commit(p, "fork", Tip, Untouched, intent)
    BY DEF Fork
  <1>2. "fork" \in Locked /\ Tip \subseteq Found /\ Untouched.blob = Keep
    BY TipFound DEF Locked, Untouched, File
  <1> QED
    BY <1>1, <1>2, CommitFits

\* finalize_snapshot: the bytes of the head are there.
LEMMA FinalizeFits == ASSUME IInv, BlobInv, NEW p \in Proc, cmd[p] = "idle", Finalize(p) PROVE BlobInv'
  <1>1. PICK old \in Tip, intent \in Intent :
          LET change == NewChange(deps(old), content[old].atoms, intent)
              id == IdOf(change)
          IN  /\ Learn(change)
              /\ Begin(p, "finalize", write_change(id) \o save_view(head, {id}) \o log_operation(head, Tip, {id}))
    BY DEF Finalize
  <1>2. old \in Found
    BY TipFound
  <1>3. Tip \subseteq GraphOf(Tip)
    BY DEF Finalize
  <1>4. old \in store
    BY <1>3 DEF GraphOf
  <1>5. PICK change : change = NewChange(deps(old), content[old].atoms, intent)
    OBVIOUS
  <1> DEFINE id == IdOf(change)
             one == write_change(id)
             two == save_view(head, {id})
             three == log_operation(head, Tip, {id})
             q2 == one \o two
             q == q2 \o three
  <1>6. Learn(change) /\ Begin(p, "finalize", q)
    BY <1>1, <1>5
  <1>7. change.deps \subseteq Found
    BY <1>2, <1>4, <1>5, TipFound DEF NewChange
  <1>8. change.atoms.blob \in WholeBytes \cup {Absent, Keep}
    BY <1>2, <1>5, TreesFit DEF NewChange, Whole, BytesOf
  <1>9. Plain(one) /\ Plain(two) /\ Plain(three)
    BY PlainWrites
  <1> HIDE DEF id, one, two, three, q2, q
  <1>10. Plain(q2)
    BY <1>9, PlainBoth DEF q2
  <1>11. Plain(q)
    BY <1>9, <1>10, PlainBoth DEF q
  <1>12. Provided("finalize", q, change.atoms.blob)
    BY <1>8 DEF Provided
  <1> QED
    BY <1>6, <1>7, <1>11, <1>12, BeginFits

\* amend.
LEMMA AmendFits == ASSUME IInv, BlobInv, NEW p \in Proc, cmd[p] = "idle", Amend(p) PROVE BlobInv'
  <1>1. PICK old \in Tip \cap store, message \in Intent \cup {Keep} :
          LET atoms == delta(TreeOf(deps(old)))
              intent == IF message = Keep THEN content[old].intent ELSE message
              change == NewChange(deps(old), atoms, intent)
              id == IdOf(change)
              tree == apply_change(TreeOf(deps(old)), atoms)
          IN  /\ Learn(change)
              /\ Begin(p, "amend",
                       write_blob(atoms.blob) \o write_change(id)
                       \o set_epoch({old}, id) \o log_operation(head, Tip, {id})
                       \o save_view(head, {id}) \o write_state(tree, <<>>))
    BY DEF Amend
  <1>2. deps(old) \subseteq Found /\ deps(old) \subseteq Ids
    BY TipFound DEF IInv, Rooted
  <1>3. PICK base : base = TreeOf(deps(old))
    OBVIOUS
  <1>4. base.blob \in Contents
    BY <1>2, <1>3, TreesFit
  <1>5. PICK atoms : atoms = delta(base)
    OBVIOUS
  <1>6. atoms.blob \in {Keep, wd.blob}
    BY <1>5 DEF delta, File
  <1>7. atoms.blob \in Contents \cup {Keep}
    BY <1>6 DEF BlobInv, DirectoryFits
  <1>8. PICK tree : tree = apply_change(base, atoms)
    OBVIOUS
  <1>9. tree.blob \in Contents
    BY <1>4, <1>7, <1>8 DEF apply_change, File
  <1>10. PICK change : change = NewChange(deps(old), atoms, IF message = Keep THEN content[old].intent ELSE message)
    OBVIOUS
  <1> DEFINE id == IdOf(change)
             one == write_blob(atoms.blob)
             two == write_change(id)
             three == set_epoch({old}, id)
             four == log_operation(head, Tip, {id})
             five == save_view(head, {id})
             six == write_state(tree, <<>>)
             q2 == one \o two
             q3 == q2 \o three
             q4 == q3 \o four
             q5 == q4 \o five
             q6 == q5 \o six
  <1>11. Learn(change) /\ Begin(p, "amend", q6)
    BY <1>1, <1>3, <1>5, <1>8, <1>10
  <1>12. change.deps \subseteq Found /\ change.atoms = atoms
    BY <1>2, <1>10 DEF NewChange
  <1>13. Opens("amend", one, atoms.blob)
    BY <1>6, OpensWith DEF Locked
  <1>14. Plain(two) /\ Plain(three) /\ Plain(four) /\ Plain(five)
    BY PlainWrites
  <1>15. Plain(six)
    BY <1>9, PlainState, PlainBack
  <1> HIDE DEF id, one, two, three, four, five, six, q2, q3, q4, q5, q6
  <1>16. Opens("amend", q2, atoms.blob)
    BY <1>13, <1>14, OpensThen DEF q2
  <1>17. Opens("amend", q3, atoms.blob)
    BY <1>14, <1>16, OpensThen DEF q3
  <1>18. Opens("amend", q4, atoms.blob)
    BY <1>14, <1>17, OpensThen DEF q4
  <1>19. Opens("amend", q5, atoms.blob)
    BY <1>14, <1>18, OpensThen DEF q5
  <1>20. Opens("amend", q6, change.atoms.blob)
    BY <1>12, <1>15, <1>19, OpensThen DEF q6
  <1> QED
    BY <1>7, <1>11, <1>12, <1>20, MakesChange

\* undo.
LEMMA UndoFits == ASSUME IInv, BlobInv, NEW p \in Proc, cmd[p] = "idle", Undo(p) PROVE BlobInv'
  <1> DEFINE op == Last(oplog)
             now == views[op.view]
             drop == IF TreeOf(now).blob # Absent /\ TreeOf(op.before).blob = Absent
                     THEN remove_file ELSE <<>>
             write == write_state(TreeOf(op.before), <<>>)
             redone == push_redo(op)
             d1 == drop \o write
             d2 == d1 \o redone
             d3 == Then(op.before, d2)
             save == save_view(op.view, op.before)
             d4 == save \o d3
             d5 == Then(now, d4)
             q == pop \o d5
  <1>1. oplog # <<>> /\ Begin(p, "undo", q) /\ content' = content
    BY Zenon DEF Undo
  <1>2. op.before \subseteq Ids
    BY <1>1, LastLeads DEF IInv, Rooted, OpLeads
  <1> HIDE DEF op
  <1>3. Plain(write)
    BY <1>2, TreesFit, PlainState, PlainBack
  <1>4. Plain(drop) /\ Plain(redone) /\ Plain(save) /\ Plain(pop)
    BY PlainNone, PlainWrites DEF push_redo
  <1> HIDE DEF drop, write, redone, d1, d2, d3, save, d4, d5, q
  <1>5. Plain(d1)
    BY <1>3, <1>4, PlainBoth DEF d1
  <1>6. Plain(d2)
    BY <1>4, <1>5, PlainBoth DEF d2
  <1>7. Plain(d3)
    BY <1>6, PlainThen DEF d3
  <1>8. Plain(d4)
    BY <1>4, <1>7, PlainBoth DEF d4
  <1>9. Plain(d5)
    BY <1>8, PlainThen DEF d5
  <1>10. Plain(q)
    BY <1>4, <1>9, PlainBoth DEF q
  <1> QED
    BY <1>1, <1>10, MakesNone

\* redo, with its rollback.
LEMMA RedoFits == ASSUME IInv, BlobInv, NEW p \in Proc, cmd[p] = "idle", Redo(p) PROVE BlobInv'
  <1> DEFINE op == Last(redo)
             back == save_view(op.view, op.before) \o write_state(TreeOf(op.before), <<>>)
             save == save_view(op.view, op.after)
             write == write_state(TreeOf(op.after), back)
             log == append(op)
             rest == save_redo(Front(redo))
             d1 == write \o log
             d2 == d1 \o rest
             d3 == Then(op.after, d2)
             q == save \o d3
  <1>1. redo # <<>> /\ Begin(p, "redo", q) /\ content' = content
    BY Zenon DEF Redo
  <1>2. op.before \subseteq Ids /\ op.after \subseteq Ids
    BY <1>1, LastLeads DEF IInv, Rooted, OpLeads
  <1> HIDE DEF op
  <1>3. TreeOf(op.before).blob \in Contents /\ TreeOf(op.after).blob \in Contents
    BY <1>2, TreesFit
  <1>4. PlainUndo(back)
    BY <1>3, PlainBack
  <1> HIDE DEF back
  <1>5. Plain(write)
    BY <1>3, <1>4, PlainState
  <1>6. Plain(log) /\ Plain(rest) /\ Plain(save)
    BY PlainWrites
  <1> HIDE DEF write, log, rest, d1, d2, d3, save, q
  <1>7. Plain(d1)
    BY <1>5, <1>6, PlainBoth DEF d1
  <1>8. Plain(d2)
    BY <1>6, <1>7, PlainBoth DEF d2
  <1>9. Plain(d3)
    BY <1>8, PlainThen DEF d3
  <1>10. Plain(q)
    BY <1>6, <1>9, PlainBoth DEF q
  <1> QED
    BY <1>1, <1>10, MakesNone

\* abandon_heads.
LEMMA AbandonFits == ASSUME IInv, BlobInv, NEW p \in Proc, cmd[p] = "idle", Abandon(p) PROVE BlobInv'
  <1>1. PICK old \in Tip \cap store :
          Begin(p, "abandon",
                save_view(head, deps(old))
                \o Then(deps(old), write_state(TreeOf(deps(old)), <<>>)
                                   \o log_operation(head, Tip, deps(old))))
    BY DEF Abandon
  <1> DEFINE hs == deps(old)
             save == save_view(head, hs)
             write == write_state(TreeOf(hs), <<>>)
             log == log_operation(head, Tip, hs)
             d1 == write \o log
             d2 == Then(hs, d1)
             q == save \o d2
  <1>2. Begin(p, "abandon", q) /\ content' = content
    BY <1>1 DEF Abandon
  <1>3. hs \subseteq Ids
    BY TipFound DEF IInv, Rooted
  <1> HIDE DEF hs
  <1>4. Plain(write)
    BY <1>3, TreesFit, PlainState, PlainBack
  <1>5. Plain(save) /\ Plain(log)
    BY PlainWrites
  <1> HIDE DEF save, write, log, d1, d2, q
  <1>6. Plain(d1)
    BY <1>4, <1>5, PlainBoth DEF d1
  <1>7. Plain(d2)
    BY <1>6, PlainThen DEF d2
  <1>8. Plain(q)
    BY <1>5, <1>7, PlainBoth DEF q
  <1> QED
    BY <1>2, <1>8, MakesNone

\* op_restore and op_revert.
LEMMA ApplyFits ==
  ASSUME IInv, BlobInv, NEW p \in Proc, cmd[p] = "idle", NEW c \in Locked,
         NEW next, next \subseteq Found, ApplyOperationHeads(p, c, next)
  PROVE  BlobInv'
  <1> DEFINE back == save_view(head, Tip) \o write_state(TreeOf(Tip), <<>>)
             save == save_view(head, next)
             write == write_state(TreeOf(next), back)
             log == log_operation(head, Tip, next)
             d1 == write \o log
             d2 == Then(next, d1)
             q == save \o d2
  <1>1. Begin(p, c, q) /\ content' = content
    BY DEF ApplyOperationHeads
  <1>2. Tip \subseteq Ids /\ next \subseteq Ids
    BY TipFound DEF IInv, Rooted
  <1>3. TreeOf(Tip).blob \in Contents /\ TreeOf(next).blob \in Contents
    BY <1>2, TreesFit
  <1>4. PlainUndo(back)
    BY <1>3, PlainBack
  <1> HIDE DEF back
  <1>5. Plain(write)
    BY <1>3, <1>4, PlainState
  <1>6. Plain(save) /\ Plain(log)
    BY PlainWrites
  <1> HIDE DEF save, write, log, d1, d2, q
  <1>7. Plain(d1)
    BY <1>5, <1>6, PlainBoth DEF d1
  <1>8. Plain(d2)
    BY <1>7, PlainThen DEF d2
  <1>9. Plain(q)
    BY <1>6, <1>8, PlainBoth DEF q
  <1>10. c # "view"
    BY Marks
  <1> QED
    BY <1>1, <1>9, <1>10, MakesNone

\* op restore and op revert write the bytes of changes that are stored.
LEMMA OperationsFit ==
  ASSUME IInv, BlobInv, NEW p \in Proc, cmd[p] = "idle", OpRestore(p) \/ OpRevert(p) PROVE BlobInv'
  <1>1. \A i \in DOMAIN oplog : oplog[i].after \subseteq Found /\ oplog[i].before \subseteq Found
    <2>1. DOMAIN oplog = 1..Len(oplog)
      BY DEF IInv, Rooted, IsSeq
    <2> QED
      BY <2>1 DEF IInv, Rooted, OpLeads
  <1>2. "oprestore" \in Locked /\ "oprevert" \in Locked
    BY DEF Locked
  <1> QED
    BY <1>1, <1>2, ApplyFits DEF OpRestore, OpRevert

\* create_view.
LEMMA CreateViewFits ==
  ASSUME IInv, BlobInv, NEW p \in Proc, cmd[p] = "idle", CreateView(p) PROVE BlobInv'
  <1>1. PICK v \in View : Begin(p, "view", save_view(v, Tip)) /\ content' = content
    BY DEF CreateView
  <1>2. PICK q : q = save_view(v, Tip)
    OBVIOUS
  <1>3. Plain(q)
    BY <1>2, PlainWrites
  <1>4. Head(q).w = "view" /\ Tail(q) = <<>>
    <2>1. PICK w : w = [w |-> "view", view |-> v, heads |-> Tip]
      OBVIOUS
    <2>2. q = <<w>> /\ w.w = "view"
      BY <1>2, <2>1 DEF save_view
    <2> QED
      BY <2>2
  <1> QED
    BY <1>1, <1>2, <1>3, <1>4, BeginFits

\* switch_view.
LEMMA SwitchViewFits ==
  ASSUME IInv, BlobInv, NEW p \in Proc, cmd[p] = "idle", SwitchView(p) PROVE BlobInv'
  <1>1. PICK v \in View : /\ views[v] # None /\ content' = content
                          /\ Begin(p, "switch", write_state(TreeOf(views[v]), <<>>) \o set_head(v))
    BY DEF SwitchView
  <1> DEFINE write == write_state(TreeOf(views[v]), <<>>)
             set == set_head(v)
             q == write \o set
  <1>2. views[v] \subseteq Ids
    BY <1>1, TipFound DEF Named, IInv, Rooted
  <1>3. Plain(write)
    BY <1>2, TreesFit, PlainState, PlainBack
  <1>4. Plain(set)
    BY PlainWrites
  <1>5. Begin(p, "switch", q)
    BY <1>1
  <1> HIDE DEF write, set, q
  <1>6. Plain(q)
    BY <1>3, <1>4, PlainBoth DEF q
  <1> QED
    BY <1>1, <1>5, <1>6, MakesNone

\* A command that hangs; creating a view reads nothing that could.
LEMMA BeginHungFits ==
  ASSUME IInv, BlobInv, NEW p \in Proc, cmd[p] = "idle", BeginHung(p) PROVE BlobInv'
  <1>1. PICK c \in Commands : Begin(p, c, hang) /\ FirstReads(c) # {}
    BY DEF BeginHung
  <1>2. content' = content
    BY DEF BeginHung
  <1>3. c # "view"
    BY <1>1 DEF FirstReads
  <1>4. Plain(hang)
    BY PlainWrites
  <1> QED
    BY <1>1, <1>2, <1>3, <1>4, MakesNone

\* Sequences of writes, one after the other, are one.
LEMMA FlattenedSeq ==
  ASSUME NEW T, NEW ss \in Seq(Seq(T)) PROVE FlattenSeq(ss) \in Seq(T)
  <1>1. CASE Len(ss) = 0
    BY <1>1 DEF FlattenSeq
  <1>2. CASE Len(ss) # 0
    <2> DEFINE f == CHOOSE f : f = [i \in 1..Len(ss) |-> IF i = 1 THEN ss[i] ELSE f[i - 1] \o ss[i]]
               S == {k \in Nat : k = 0 \/ f[k] \in Seq(T)}
    <2>1. FlattenSeq(ss) = f[Len(ss)]
      BY <1>2, Zenon DEF FlattenSeq
    <2>2. \E g : IsFlat(g, Len(ss), ss)
      BY FlatExists
    <2>3. f = [i \in 1..Len(ss) |-> IF i = 1 THEN ss[i] ELSE f[i - 1] \o ss[i]]
      BY <2>2, Zenon DEF IsFlat
    <2> HIDE DEF f
    <2>4. ASSUME NEW k \in 1..Len(ss) PROVE f[k] = IF k = 1 THEN ss[k] ELSE f[k - 1] \o ss[k]
      BY <2>3, Zenon
    <2>5. ASSUME NEW k \in 1..Len(ss), k - 1 \in S PROVE k \in S
      <3>1. ss[k] \in Seq(T)
        OBVIOUS
      <3>2. CASE k = 1
        BY <2>4, <3>1, <3>2
      <3>3. CASE k # 1
        <4> DEFINE a == f[k - 1]
                   b == ss[k]
        <4>1. f[k] = a \o b
          BY <2>4, <3>3
        <4>2. a \in Seq(T)
          BY <2>5, <3>3
        <4>3. b \in Seq(T)
          BY <3>1
        <4> HIDE DEF a, b
        <4>4. f[k] \in Seq(T)
          BY <4>1, <4>2, <4>3
        <4> QED
          BY <4>4
      <3> QED
        BY <3>2, <3>3
    <2>6. 0 \in S
      OBVIOUS
    <2> HIDE DEF S
    <2>7. Len(ss) \in Nat
      OBVIOUS
    <2>8. 0..Len(ss) \subseteq S
      BY <2>5, <2>6, <2>7, UpToInduction
    <2>9. Len(ss) \in S
      BY <2>7, <2>8
    <2> QED
      BY <1>2, <2>1, <2>9 DEF S
  <1> QED
    BY <1>1, <1>2

\* So, in whatever order plain plans are taken.
LEMMA AllPlain ==
  ASSUME NEW S, IsFiniteSet(S), \A q \in S : Plain(q)
  PROVE  Plain(FlattenSeq(SetToSeq(S)))
  <1> DEFINE T == UNION {Range(q) : q \in S}
             ss == SetToSeq(S)
  <1>1. ss \in Seq(S)
    BY SetInSequence
  <1>2. \A w \in T : PlainWrite(w)
    BY DEF Plain
  <1>3. ASSUME NEW q \in S PROVE q \in Seq(T)
    <2>1. q \in Seq(Range(q)) /\ Range(q) \subseteq T
      BY DEF Plain, IsSeq
    <2> HIDE DEF T
    <2> QED
      BY <2>1
  <1> HIDE DEF T, ss
  <1>4. ss \in Seq(Seq(T))
    BY <1>1, <1>3
  <1>5. FlattenSeq(ss) \in Seq(T)
    BY <1>4, FlattenedSeq
  <1>6. Plain(FlattenSeq(ss))
    BY <1>2, <1>5, PlainSeq
  <1> QED
    BY <1>6 DEF ss

\* What found changes depend on, and so on, has its bytes.
LEMMA AncestorsWhole ==
  ASSUME IInv, BlobInv, NEW g, NEW hs, hs \subseteq Whole
  PROVE  ancestors(g, hs) \subseteq Whole
  <1> DEFINE m == Len(content)
  <1>1. m \in Nat
    BY DEF IInv, Rooted, IsSeq
  <1>2. PICK L : AreLevels(L, m, hs, DependsIn(g)) /\ ancestors(g, hs) = L[m]
    BY AncestorLevels DEF IInv
  <1>3. \A x \in Whole : deps(x) \subseteq Whole
    BY DEF BlobInv, ContentFits, Whole
  <1> HIDE DEF m
  <1>4. L[0] = hs /\ \A k \in 1..m : L[k] = Further(L[k - 1], DependsIn(g))
    BY <1>1, <1>2, LevelByLevel
  <1> DEFINE S == {k \in Nat : L[k] \subseteq Whole}
  <1>5. 0 \in S
    BY <1>4
  <1>6. ASSUME NEW k \in 1..m, k - 1 \in S PROVE k \in S
    <2>1. L[k - 1] \subseteq Whole
      BY <1>6
    <2>2. \A x \in L[k - 1] \cap DOMAIN DependsIn(g) : DependsIn(g)[x] \subseteq Whole
      BY <1>3, <2>1 DEF DependsIn
    <2>3. L[k] \subseteq Whole
      BY <1>4, <2>1, <2>2 DEF Further
    <2> QED
      BY <1>1, <2>3
  <1> HIDE DEF S
  <1>7. 0..m \subseteq S
    BY <1>1, <1>5, <1>6, UpToInduction
  <1> QED
    BY <1>1, <1>2, <1>7 DEF S

\* compact: the one change has the bytes of the changes it stands for.
LEMMA CompactFits == ASSUME IInv, BlobInv, NEW p \in Proc, cmd[p] = "idle", Compact(p) PROVE BlobInv'
  <1> DEFINE named == {v \in View : views[v] # None}
             g == UNION {GraphOf(views[v]) : v \in named}
             stable == {x \in Ids : \A v \in named : x \in ancestors(g, views[v])}
             tips == {x \in stable : \A y \in stable \cap g : x \notin deps(y)}
             tree == TreeOf(tips)
             change == NewChange({}, [f \in File |-> IF tree[f] = Absent THEN Keep ELSE tree[f]], 0)
             id == IdOf(change)
             saves == [v \in {v \in named : views[v] \cap stable # {}} |->
                         save_view(v, (views[v] \ stable) \cup {id})]
             deletes == [x \in stable |-> remove_change(x)]
             SavePlans == {saves[v] : v \in DOMAIN saves}
             DeletePlans == {deletes[x] : x \in stable}
             one == write_change(id)
             two == set_epoch(stable, id)
             three == FlattenSeq(SetToSeq(SavePlans))
             four == FlattenSeq(SetToSeq(DeletePlans))
             q2 == one \o two
             q3 == q2 \o three
             q4 == q3 \o four
  <1>1. Learn(change) /\ Begin(p, "compact", q4)
    BY Zenon DEF Compact
  <1>2. stable \subseteq Whole
    <2>1. head \in named /\ views[head] \subseteq Whole
      BY TipFound, TreesFit DEF IInv, Rooted, Named
    <2> HIDE DEF g
    <2>2. ancestors(g, views[head]) \subseteq Whole
      BY <2>1, AncestorsWhole
    <2> QED
      BY <2>1, <2>2
  <1> HIDE DEF q4
  <1>3. IsFiniteSet(stable)
    <2>1. Len(content) \in Nat /\ Ids = 1..Len(content) /\ stable \subseteq Ids
      BY DEF IInv, Rooted, IsSeq, Ids
    <2>2. IsFiniteSet(1..Len(content))
      BY <2>1, FS_Interval
    <2> HIDE DEF stable
    <2> QED
      BY <2>1, <2>2, FS_Subset
  <1>4. change.deps = {} /\ change.atoms.blob \in WholeBytes \cup {Absent, Keep}
    <2>1. tips \subseteq Whole
      BY <1>2
    <2> HIDE DEF tips
    <2>2. tree.blob \in WholeBytes \cup {Absent}
      BY <2>1, TreesFit
    <2> HIDE DEF tree
    <2> QED
      BY <2>2 DEF NewChange, File
  <1> HIDE DEF stable, change
  <1>5. IsFiniteSet(DeletePlans)
    <2>1. deletes = [x \in stable |-> deletes[x]]
      OBVIOUS
    <2> HIDE DEF deletes
    <2> QED
      BY <1>3, <2>1, FiniteImage
  <1>6. IsFiniteSet(SavePlans)
    <2> DEFINE Vs == {v \in named : views[v] \cap stable # {}}
    <2>1. IsFiniteSet(Vs)
      BY FS_Subset, RepositoryAssumption
    <2>2. SavePlans = {saves[v] : v \in Vs} /\ saves = [v \in Vs |-> saves[v]]
      OBVIOUS
    <2> HIDE DEF Vs, saves
    <2>3. IsFiniteSet({saves[v] : v \in Vs})
      BY <2>1, <2>2, FiniteImage
    <2> QED
      BY <2>2, <2>3
  <1>7. \A q \in SavePlans : Plain(q)
    BY PlainWrites
  <1>8. \A q \in DeletePlans : Plain(q)
    BY PlainWrites
  <1> HIDE DEF id, SavePlans, DeletePlans, saves, deletes
  <1>9. Plain(three) /\ Plain(four)
    BY <1>5, <1>6, <1>7, <1>8, AllPlain
  <1>10. Plain(one) /\ Plain(two)
    BY PlainWrites
  <1> HIDE DEF one, two, three, four, q2, q3
  <1>11. Plain(q2)
    BY <1>10, PlainBoth DEF q2
  <1>12. Plain(q3)
    BY <1>9, <1>11, PlainBoth DEF q3
  <1>13. Plain(q4)
    BY <1>9, <1>12, PlainBoth DEF q4
  <1>14. Provided("compact", q4, change.atoms.blob)
    BY <1>4 DEF Provided
  <1> QED
    BY <1>1, <1>4, <1>13, <1>14, BeginFits

\* Every command.
LEMMA CommandFits ==
  ASSUME IInv, BlobsUndisturbed, BlobInv, NEW p \in Proc, Command(p) PROVE BlobInv'
  <1>1. cmd[p] = "idle"
    BY DEF Command
  <1>2. ~Gc(p)
    BY DEF Gc, Begin, BlobsUndisturbed
  <1> QED
    BY <1>1, <1>2, BeginHungFits, SnapFits, FinalizeFits, ForkFits, AmendFits, UndoFits, RedoFits,
       AbandonFits, OperationsFit, CreateViewFits, SwitchViewFits, CompactFits DEF Command

\* No write is an edit.
LEMMA WriteMeddlesNot == ASSUME NEW p \in Proc, Write(p) PROVE meddled' = meddled
  BY DEF Write, WriteBlob, FillBlob, WriteChange, SaveView, SetHead, SetEpoch, PopOp, AppendOp, SaveRedo,
     RemoveChange, RemoveBlobs, RemoveFile, WriteState, Hang, Exit, unmoved, past

\* Plans and blobs fit each other in every state, as long as nobody saves a file while a
\* command runs.
LEMMA BlobInvHolds == ASSUME BlobsUndisturbed PROVE Spec => [](IInv /\ (~meddled => BlobInv))
  <1> DEFINE Inv == IInv /\ (~meddled => BlobInv)
  <1>1. Init /\ IInv => Inv
    BY InitFits
  <1>2. Inv /\ IInv' /\ [Next]_vars => Inv'
    <2> SUFFICES ASSUME IInv, ~meddled => BlobInv, [Next]_vars, IInv', ~meddled' PROVE BlobInv'
      OBVIOUS
    <2>1. CASE Edit
      BY <2>1, EditFits DEF Edit
    <2>2. CASE ~Edit
      <3>1. meddled' = meddled
        <4>1. ASSUME NEW p \in Proc, Command(p) PROVE meddled' = meddled
          BY <4>1, CommandBegins DEF Begins, Begin
        <4>2. ASSUME NEW p \in Proc, Write(p) PROVE meddled' = meddled
          BY <4>2, WriteMeddlesNot
        <4>3. ASSUME NEW p \in Proc, Crash(p) PROVE meddled' = meddled
          BY <4>3 DEF Crash
        <4>4. CASE UNCHANGED vars
          BY <4>4 DEF vars, past
        <4> QED
          BY <2>2, <4>1, <4>2, <4>3, <4>4 DEF Next
      <3>2. BlobInv
        BY <3>1
      <3>3. ASSUME NEW p \in Proc PROVE ~Crash(p)
        BY <3>2 DEF Crash, BlobInv, BlobsUndisturbed
      <3> QED
        BY <2>2, <3>2, <3>3, CommandFits, WriteFits, NothingFits DEF Next
    <2> QED
      BY <2>1, <2>2
  <1> HIDE DEF Inv
  <1>3. Spec => []Inv
    BY <1>1, <1>2, RepositorySound, PTL DEF Spec
  <1> QED
    BY <1>3 DEF Inv

\* The bytes of every file of every view are in .arc/blobs, complete and under their
\* own name, as long as nobody saves a file while a command runs (BlobsKept): a
\* commit copies them before it names the change, and undo, redo, amend and compact
\* delete none.
THEOREM BlobsAlwaysKept == ASSUME BlobsUndisturbed PROVE Spec => []BlobsKept
  <1>1. IInv /\ (~meddled => BlobInv) => BlobsKept
    <2> SUFFICES ASSUME IInv, BlobInv, NEW v \in Named PROVE LET b == TreeOf(views[v]).blob
                                                           IN  b # Absent => blobs[b] = b
      BY DEF BlobsKept, BlobsWhole
    <2>1. views[v] \subseteq Whole
      BY TipFound, TreesFit
    <2>2. TreeOf(views[v]).blob \in WholeBytes \cup {Absent}
      BY <2>1, TreesFit
    <2> QED
      BY <2>2 DEF WholeBytes
  <1> QED
    BY <1>1, BlobInvHolds, PTL

-----------------------------------------------------------------------------
(* undo and redo.                                                             *)

\* What UndoIsFaithful needs: amend and compact redirect changes that the log names
\* (undo then stops half way), and gc deletes the blobs that undo writes; commands
\* without the lock do not come between the writes of others.
UndoUndisturbed ==
  /\ Commands \cap {"amend", "compact", "gc"} = {}
  /\ Commands \subseteq Locked \/ \A p, q \in Proc : p = q

\* What a command changes step by step: the views, the log and the redo stack.
Now == [views |-> views, log |-> oplog, redo |-> redo]
Effect(w, s) ==
  IF w.w = "view" THEN [views |-> [s.views EXCEPT ![w.view] = w.heads], log |-> s.log, redo |-> s.redo]
  ELSE IF w.w = "pop" THEN [views |-> s.views, log |-> Front(s.log), redo |-> s.redo]
  ELSE IF w.w = "append" THEN [views |-> s.views, log |-> Append(s.log, w.op), redo |-> s.redo]
  ELSE IF w.w = "redo" THEN [views |-> s.views, log |-> s.log, redo |-> w.stack]
  ELSE s

\* The writes of q take s to t.
Ends(q, s, t) ==
  \E tr : tr[0] = s /\ tr[Len(q)] = t /\ \A i \in 1..Len(q) : tr[i] = Effect(q[i], tr[i - 1])

\* i and j are operations of one view with none of it between; i is its last.
Adjacent(ops, i, j) ==
  i < j /\ ops[i].view = ops[j].view /\ \A k \in (i + 1)..(j - 1) : ops[k].view # ops[i].view
Latest(ops, i) == \A k \in (i + 1)..Len(ops) : ops[k].view # ops[i].view

\* Each logged operation goes on where the one of its view before it came to, and the
\* last came to the view; the redo stack goes on from there, backwards.
Consistent(t) ==
  /\ DOMAIN t.views = View /\ IsSeq(t.log) /\ IsSeq(t.redo)
  /\ \A i, j \in 1..Len(t.log) : Adjacent(t.log, i, j) => t.log[j].before = t.log[i].after
  /\ \A i \in 1..Len(t.log) : Latest(t.log, i) => t.views[t.log[i].view] = t.log[i].after
  /\ \A i, j \in 1..Len(t.redo) : Adjacent(t.redo, i, j) => t.redo[i].before = t.redo[j].after
  /\ \A i \in 1..Len(t.redo) : Latest(t.redo, i) => t.views[t.redo[i].view] = t.redo[i].before
  /\ \A i \in 1..Len(t.log) : t.log[i].view \in View /\ t.views[t.log[i].view] # None
  /\ \A i \in 1..Len(t.redo) : t.redo[i].view \in View /\ t.views[t.redo[i].view] # None

\* What an undo ends with.
Undone(t) == t.redo # <<>> /\ t.views[Last(t.redo).view] = Last(t.redo).before

\* A sequence with one more element, and one with one less.
LEMMA OneMore ==
  ASSUME NEW s, IsSeq(s), NEW o
  PROVE  /\ IsSeq(Append(s, o)) /\ Len(Append(s, o)) = Len(s) + 1 /\ Len(s) \in Nat
         /\ Append(s, o)[Len(s) + 1] = o /\ \A i \in 1..Len(s) : Append(s, o)[i] = s[i]
         /\ Last(Append(s, o)) = o /\ Append(s, o) # <<>>
  <1> DEFINE S == Range(s) \cup {o}
  <1>1. s \in Seq(S) /\ o \in S
    BY DEF IsSeq
  <1> HIDE DEF S
  <1>2. /\ Append(s, o) \in Seq(S) /\ Len(Append(s, o)) = Len(s) + 1 /\ Len(s) \in Nat
        /\ Append(s, o)[Len(s) + 1] = o /\ \A i \in 1..Len(s) : Append(s, o)[i] = s[i]
    BY <1>1
  <1>3. IsSeq(Append(s, o))
    BY <1>2, SeqHasRange
  <1>4. Append(s, o) # <<>>
    BY <1>2
  <1>5. Last(Append(s, o)) = o
    BY <1>2 DEF Last
  <1> QED
    BY <1>2, <1>3, <1>4, <1>5

\* What is left of a list without its last element.
LEMMA OneLess ==
  ASSUME NEW s, IsSeq(s), s # <<>>
  PROVE  /\ IsSeq(Front(s)) /\ Len(s) \in Nat /\ Len(s) >= 1 /\ Len(Front(s)) = Len(s) - 1
         /\ \A i \in 1..(Len(s) - 1) : Front(s)[i] = s[i]
         /\ Last(s) = s[Len(s)]
  <1> DEFINE S == Range(s)
             n == Len(s) - 1
  <1>1. s \in Seq(S) /\ Len(s) \in Nat /\ Len(s) >= 1
    BY DEF IsSeq
  <1> HIDE DEF S
  <1>2. n \in Nat /\ n <= Len(s)
    BY <1>1
  <1> HIDE DEF n
  <1>3. SubSeq(s, 1, n) \in Seq(S) /\ Len(SubSeq(s, 1, n)) = n /\ \A i \in 1..n : SubSeq(s, 1, n)[i] = s[i]
    BY <1>1, <1>2
  <1>4. IsSeq(SubSeq(s, 1, n))
    BY <1>3, SeqHasRange
  <1> QED
    BY <1>1, <1>3, <1>4 DEF Front, Last, n

\* A new operation of a view that starts from the heads it has.
LEMMA LogGoesOn ==
  ASSUME NEW t, Consistent(t), NEW v \in View, t.views[v] # None, NEW after, after # None
  PROVE  Consistent([views |-> [t.views EXCEPT ![v] = after],
                     log |-> Append(t.log, Op(v, t.views[v], after)), redo |-> <<>>])
  <1> DEFINE o == Op(v, t.views[v], after)
             log == Append(t.log, o)
             vs == [t.views EXCEPT ![v] = after]
             n == Len(t.log)
             u == [views |-> vs, log |-> log, redo |-> <<>>]
  <1>1. o.view = v /\ o.before = t.views[v] /\ o.after = after
    BY DEF Op
  <1>2. DOMAIN vs = View /\ vs[v] = after /\ \A x \in View : x # v => vs[x] = t.views[x]
    BY DEF Consistent
  <1> HIDE DEF o
  <1>3. /\ IsSeq(log) /\ Len(log) = n + 1 /\ n \in Nat
        /\ log[n + 1] = o /\ \A i \in 1..n : log[i] = t.log[i]
    BY OneMore DEF Consistent
  <1>4. \A i \in 1..(n + 1) : i \in 1..n \/ i = n + 1
    BY <1>3
  <1> HIDE DEF log, vs, n
  <1>5. ASSUME NEW i \in 1..(n + 1), NEW j \in 1..(n + 1), Adjacent(log, i, j)
        PROVE  log[j].before = log[i].after
    <2>1. i < j /\ i \in 1..n /\ log[i].view = log[j].view /\ \A k \in (i + 1)..(j - 1) : log[k].view # log[i].view
      BY <1>3, <1>5 DEF Adjacent
    <2>2. CASE j \in 1..n
      <3>1. \A k \in (i + 1)..(j - 1) : k \in 1..n /\ t.log[k].view # t.log[i].view
        BY <1>3, <2>1, <2>2
      <3>2. Adjacent(t.log, i, j)
        BY <1>3, <2>1, <2>2, <3>1 DEF Adjacent
      <3> QED
        BY <1>3, <2>1, <2>2, <3>2 DEF Consistent, n
    <2>3. CASE j = n + 1
      <3>1. \A k \in (i + 1)..n : k \in 1..n /\ t.log[k].view # t.log[i].view
        BY <1>3, <2>1, <2>3
      <3>2. Latest(t.log, i)
        BY <3>1 DEF Latest, n
      <3>3. t.views[t.log[i].view] = t.log[i].after
        BY <2>1, <3>2 DEF Consistent, n
      <3> QED
        BY <1>1, <1>3, <2>1, <2>3, <3>3
    <2> QED
      BY <1>4, <2>2, <2>3
  <1>6. ASSUME NEW i \in 1..(n + 1), Latest(log, i) PROVE vs[log[i].view] = log[i].after
    <2>1. CASE i = n + 1
      BY <1>1, <1>2, <1>3, <2>1
    <2>2. CASE i \in 1..n
      <3>1. \A k \in (i + 1)..(n + 1) : log[k].view # log[i].view
        BY <1>3, <1>6 DEF Latest
      <3>2. t.log[i].view # v
        <4>1. n + 1 \in (i + 1)..(n + 1)
          BY <1>3, <2>2
        <4> QED
          BY <1>1, <1>3, <2>2, <3>1, <4>1
      <3>3. Latest(t.log, i)
        <4>1. \A k \in (i + 1)..n : k \in (i + 1)..(n + 1) /\ k \in 1..n
          BY <1>3, <2>2
        <4> QED
          BY <1>3, <2>2, <3>1, <4>1 DEF Latest, n
      <3> QED
        BY <1>2, <1>3, <2>2, <3>2, <3>3 DEF Consistent, n
    <2> QED
      BY <1>4, <2>1, <2>2
  <1>7. ASSUME NEW i \in 1..(n + 1) PROVE log[i].view \in View /\ vs[log[i].view] # None
    BY <1>1, <1>2, <1>3, <1>4 DEF Consistent, n
  <1>8. IsSeq(<<>>) /\ Len(<<>>) = 0
    BY DEF IsSeq, Range
  <1>9. u.views = vs /\ u.log = log /\ u.redo = <<>>
    OBVIOUS
  <1> HIDE DEF u
  <1>10. Consistent(u)
    BY <1>2, <1>3, <1>5, <1>6, <1>7, <1>8, <1>9 DEF Consistent
  <1> QED
    BY <1>10 DEF u, log, vs, o

\* An operation leaves one list for the other: it is the last of the first, and its
\* view goes where the rest of the first, or nothing, leads it.
LEMMA LastUndone ==
  ASSUME NEW t, Consistent(t), t.log # <<>>, NEW o, o = Last(t.log), o.before # None
  PROVE  Consistent([views |-> [t.views EXCEPT ![o.view] = o.before],
                     log |-> Front(t.log), redo |-> Append(t.redo, o)])
  <1> DEFINE n == Len(t.log) - 1
             m == Len(t.redo)
             log == Front(t.log)
             red == Append(t.redo, o)
             vs == [t.views EXCEPT ![o.view] = o.before]
             u == [views |-> vs, log |-> log, redo |-> red]
  <1>1. /\ IsSeq(log) /\ Len(t.log) = n + 1 /\ n \in Nat /\ Len(log) = n
        /\ t.log[n + 1] = o /\ \A i \in 1..n : log[i] = t.log[i]
    BY OneLess DEF Consistent
  <1>2. /\ IsSeq(red) /\ Len(red) = m + 1 /\ m \in Nat
        /\ red[m + 1] = o /\ \A i \in 1..m : red[i] = t.redo[i]
    BY OneMore DEF Consistent
  <1>3. n + 1 \in 1..Len(t.log)
    BY <1>1
  <1>4. o.view \in View /\ t.views[o.view] = o.after
    <2>1. Latest(t.log, n + 1)
      BY <1>1 DEF Latest
    <2> QED
      BY <1>1, <1>3, <2>1, Zenon DEF Consistent
  <1>5. DOMAIN vs = View /\ vs[o.view] = o.before /\ \A x \in View : x # o.view => vs[x] = t.views[x]
    BY <1>4 DEF Consistent
  <1> HIDE DEF log, red, vs, n, m
  <1>6. ASSUME NEW i \in 1..n, NEW j \in 1..n, Adjacent(log, i, j) PROVE log[j].before = log[i].after
    <2>1. i < j /\ log[i].view = log[j].view /\ \A k \in (i + 1)..(j - 1) : log[k].view # log[i].view
      BY <1>6 DEF Adjacent
    <2>2. \A k \in (i + 1)..(j - 1) : k \in 1..n
      BY <1>1
    <2>3. Adjacent(t.log, i, j)
      BY <1>1, <2>1, <2>2 DEF Adjacent
    <2>4. i \in 1..Len(t.log) /\ j \in 1..Len(t.log)
      BY <1>1
    <2> QED
      BY <1>1, <2>3, <2>4 DEF Consistent
  <1>7. ASSUME NEW i \in 1..n, Latest(log, i) PROVE vs[log[i].view] = log[i].after
    <2>1. \A k \in (i + 1)..n : k \in 1..n /\ log[k].view # log[i].view
      BY <1>1, <1>7 DEF Latest
    <2>2. i \in 1..Len(t.log) /\ log[i] = t.log[i]
      BY <1>1
    <2>3. CASE log[i].view = o.view
      <3>1. Adjacent(t.log, i, n + 1)
        <4>1. i < n + 1 /\ (n + 1) - 1 = n
          BY <1>1
        <4> QED
          BY <1>1, <2>1, <2>2, <2>3, <4>1 DEF Adjacent
      <3>2. o.before = t.log[i].after
        BY <1>1, <1>3, <2>2, <3>1 DEF Consistent
      <3> QED
        BY <1>5, <2>2, <2>3, <3>2
    <2>4. CASE log[i].view # o.view
      <3>1. Latest(t.log, i)
        <4>1. \A k \in (i + 1)..(n + 1) : k \in (i + 1)..n \/ k = n + 1
          BY <1>1
        <4> QED
          BY <1>1, <2>1, <2>2, <2>4, <4>1 DEF Latest
      <3>2. t.views[t.log[i].view] = t.log[i].after /\ t.log[i].view \in View
        BY <2>2, <3>1 DEF Consistent
      <3> QED
        BY <1>5, <2>2, <2>4, <3>2
    <2> QED
      BY <2>3, <2>4
  <1>8. \A i \in 1..(m + 1) : i \in 1..m \/ i = m + 1
    BY <1>2
  <1>9. ASSUME NEW i \in 1..(m + 1), NEW j \in 1..(m + 1), Adjacent(red, i, j) PROVE red[i].before = red[j].after
    <2>1. i < j /\ i \in 1..m /\ red[i].view = red[j].view /\ \A k \in (i + 1)..(j - 1) : red[k].view # red[i].view
      BY <1>2, <1>9 DEF Adjacent
    <2>2. CASE j \in 1..m
      <3>1. \A k \in (i + 1)..(j - 1) : k \in 1..m
        BY <1>2, <2>2
      <3>2. Adjacent(t.redo, i, j)
        BY <1>2, <2>1, <2>2, <3>1 DEF Adjacent
      <3> QED
        BY <1>2, <2>1, <2>2, <3>2 DEF Consistent, m
    <2>3. CASE j = m + 1
      <3>1. \A k \in (i + 1)..m : k \in 1..m /\ t.redo[k].view # t.redo[i].view
        BY <1>2, <2>1, <2>3
      <3>2. Latest(t.redo, i)
        BY <3>1 DEF Latest, m
      <3>3. t.views[t.redo[i].view] = t.redo[i].before
        BY <2>1, <3>2 DEF Consistent, m
      <3> QED
        BY <1>2, <1>4, <2>1, <2>3, <3>3
    <2> QED
      BY <1>8, <2>2, <2>3
  <1>10. ASSUME NEW i \in 1..(m + 1), Latest(red, i) PROVE vs[red[i].view] = red[i].before
    <2>1. CASE i = m + 1
      BY <1>2, <1>5, <2>1
    <2>2. CASE i \in 1..m
      <3>1. \A k \in (i + 1)..(m + 1) : red[k].view # red[i].view
        BY <1>2, <1>10 DEF Latest
      <3>2. t.redo[i].view # o.view
        <4>1. m + 1 \in (i + 1)..(m + 1)
          BY <1>2, <2>2
        <4> QED
          BY <1>2, <2>2, <3>1, <4>1
      <3>3. Latest(t.redo, i)
        <4>1. \A k \in (i + 1)..m : k \in (i + 1)..(m + 1) /\ k \in 1..m
          BY <1>2, <2>2
        <4> QED
          BY <1>2, <2>2, <3>1, <4>1 DEF Latest, m
      <3>4. t.redo[i].view \in View /\ t.views[t.redo[i].view] = t.redo[i].before
        BY <2>2, <3>3 DEF Consistent, m
      <3> QED
        BY <1>2, <1>5, <2>2, <3>2, <3>4
    <2> QED
      BY <1>8, <2>1, <2>2
  <1>11. ASSUME NEW i \in 1..n PROVE log[i].view \in View /\ vs[log[i].view] # None
    <2>1. i \in 1..Len(t.log) /\ log[i] = t.log[i]
      BY <1>1
    <2>2. log[i].view \in View /\ t.views[log[i].view] # None
      BY <2>1 DEF Consistent
    <2> QED
      BY <1>5, <2>2
  <1>12. ASSUME NEW i \in 1..(m + 1) PROVE red[i].view \in View /\ vs[red[i].view] # None
    BY <1>2, <1>4, <1>5, <1>8 DEF Consistent, m
  <1>13. u.views = vs /\ u.log = log /\ u.redo = red
    OBVIOUS
  <1> HIDE DEF u
  <1>14. Consistent(u)
    BY <1>1, <1>2, <1>5, <1>6, <1>7, <1>9, <1>10, <1>11, <1>12, <1>13 DEF Consistent
  <1> QED
    BY <1>14 DEF u, log, red, vs

\* ... and back: what was undone last is done again.
LEMMA LastRedone ==
  ASSUME NEW t, Consistent(t), t.redo # <<>>, NEW o, o = Last(t.redo), o.after # None
  PROVE  Consistent([views |-> [t.views EXCEPT ![o.view] = o.after],
                     log |-> Append(t.log, o), redo |-> Front(t.redo)])
  <1> DEFINE n == Len(t.redo) - 1
             m == Len(t.log)
             red == Front(t.redo)
             log == Append(t.log, o)
             vs == [t.views EXCEPT ![o.view] = o.after]
             u == [views |-> vs, log |-> log, redo |-> red]
  <1>1. /\ IsSeq(red) /\ Len(t.redo) = n + 1 /\ n \in Nat /\ Len(red) = n
        /\ t.redo[n + 1] = o /\ \A i \in 1..n : red[i] = t.redo[i]
    BY OneLess DEF Consistent
  <1>2. /\ IsSeq(log) /\ Len(log) = m + 1 /\ m \in Nat
        /\ log[m + 1] = o /\ \A i \in 1..m : log[i] = t.log[i]
    BY OneMore DEF Consistent
  <1>3. n + 1 \in 1..Len(t.redo)
    BY <1>1
  <1>4. o.view \in View /\ t.views[o.view] = o.before
    <2>1. Latest(t.redo, n + 1)
      BY <1>1 DEF Latest
    <2> QED
      BY <1>1, <1>3, <2>1, Zenon DEF Consistent
  <1>5. DOMAIN vs = View /\ vs[o.view] = o.after /\ \A x \in View : x # o.view => vs[x] = t.views[x]
    BY <1>4 DEF Consistent
  <1> HIDE DEF log, red, vs, n, m
  <1>6. ASSUME NEW i \in 1..n, NEW j \in 1..n, Adjacent(red, i, j) PROVE red[i].before = red[j].after
    <2>1. i < j /\ red[i].view = red[j].view /\ \A k \in (i + 1)..(j - 1) : red[k].view # red[i].view
      BY <1>6 DEF Adjacent
    <2>2. \A k \in (i + 1)..(j - 1) : k \in 1..n
      BY <1>1
    <2>3. Adjacent(t.redo, i, j)
      BY <1>1, <2>1, <2>2 DEF Adjacent
    <2>4. i \in 1..Len(t.redo) /\ j \in 1..Len(t.redo)
      BY <1>1
    <2> QED
      BY <1>1, <2>3, <2>4 DEF Consistent
  <1>7. ASSUME NEW i \in 1..n, Latest(red, i) PROVE vs[red[i].view] = red[i].before
    <2>1. \A k \in (i + 1)..n : k \in 1..n /\ red[k].view # red[i].view
      BY <1>1, <1>7 DEF Latest
    <2>2. i \in 1..Len(t.redo) /\ red[i] = t.redo[i]
      BY <1>1
    <2>3. CASE red[i].view = o.view
      <3>1. Adjacent(t.redo, i, n + 1)
        <4>1. i < n + 1 /\ (n + 1) - 1 = n
          BY <1>1
        <4> QED
          BY <1>1, <2>1, <2>2, <2>3, <4>1 DEF Adjacent
      <3>2. t.redo[i].before = o.after
        BY <1>1, <1>3, <2>2, <3>1 DEF Consistent
      <3> QED
        BY <1>5, <2>2, <2>3, <3>2
    <2>4. CASE red[i].view # o.view
      <3>1. Latest(t.redo, i)
        <4>1. \A k \in (i + 1)..(n + 1) : k \in (i + 1)..n \/ k = n + 1
          BY <1>1
        <4> QED
          BY <1>1, <2>1, <2>2, <2>4, <4>1 DEF Latest
      <3>2. t.views[t.redo[i].view] = t.redo[i].before /\ t.redo[i].view \in View
        BY <2>2, <3>1 DEF Consistent
      <3> QED
        BY <1>5, <2>2, <2>4, <3>2
    <2> QED
      BY <2>3, <2>4
  <1>8. \A i \in 1..(m + 1) : i \in 1..m \/ i = m + 1
    BY <1>2
  <1>9. ASSUME NEW i \in 1..(m + 1), NEW j \in 1..(m + 1), Adjacent(log, i, j) PROVE log[j].before = log[i].after
    <2>1. i < j /\ i \in 1..m /\ log[i].view = log[j].view /\ \A k \in (i + 1)..(j - 1) : log[k].view # log[i].view
      BY <1>2, <1>9 DEF Adjacent
    <2>2. CASE j \in 1..m
      <3>1. \A k \in (i + 1)..(j - 1) : k \in 1..m
        BY <1>2, <2>2
      <3>2. Adjacent(t.log, i, j)
        BY <1>2, <2>1, <2>2, <3>1 DEF Adjacent
      <3> QED
        BY <1>2, <2>1, <2>2, <3>2 DEF Consistent, m
    <2>3. CASE j = m + 1
      <3>1. \A k \in (i + 1)..m : k \in 1..m /\ t.log[k].view # t.log[i].view
        BY <1>2, <2>1, <2>3
      <3>2. Latest(t.log, i)
        BY <3>1 DEF Latest, m
      <3>3. t.views[t.log[i].view] = t.log[i].after
        BY <2>1, <3>2 DEF Consistent, m
      <3> QED
        BY <1>2, <1>4, <2>1, <2>3, <3>3
    <2> QED
      BY <1>8, <2>2, <2>3
  <1>10. ASSUME NEW i \in 1..(m + 1), Latest(log, i) PROVE vs[log[i].view] = log[i].after
    <2>1. CASE i = m + 1
      BY <1>2, <1>5, <2>1
    <2>2. CASE i \in 1..m
      <3>1. \A k \in (i + 1)..(m + 1) : log[k].view # log[i].view
        BY <1>2, <1>10 DEF Latest
      <3>2. t.log[i].view # o.view
        <4>1. m + 1 \in (i + 1)..(m + 1)
          BY <1>2, <2>2
        <4> QED
          BY <1>2, <2>2, <3>1, <4>1
      <3>3. Latest(t.log, i)
        <4>1. \A k \in (i + 1)..m : k \in (i + 1)..(m + 1) /\ k \in 1..m
          BY <1>2, <2>2
        <4> QED
          BY <1>2, <2>2, <3>1, <4>1 DEF Latest, m
      <3>4. t.log[i].view \in View /\ t.views[t.log[i].view] = t.log[i].after
        BY <2>2, <3>3 DEF Consistent, m
      <3> QED
        BY <1>2, <1>5, <2>2, <3>2, <3>4
    <2> QED
      BY <1>8, <2>1, <2>2
  <1>11. ASSUME NEW i \in 1..n PROVE red[i].view \in View /\ vs[red[i].view] # None
    <2>1. i \in 1..Len(t.redo) /\ red[i] = t.redo[i]
      BY <1>1
    <2>2. red[i].view \in View /\ t.views[red[i].view] # None
      BY <2>1 DEF Consistent
    <2> QED
      BY <1>5, <2>2
  <1>12. ASSUME NEW i \in 1..(m + 1) PROVE log[i].view \in View /\ vs[log[i].view] # None
    BY <1>2, <1>4, <1>5, <1>8 DEF Consistent, m
  <1>13. u.views = vs /\ u.log = log /\ u.redo = red
    OBVIOUS
  <1> HIDE DEF u
  <1>14. Consistent(u)
    BY <1>1, <1>2, <1>5, <1>6, <1>7, <1>9, <1>10, <1>11, <1>12, <1>13 DEF Consistent
  <1> QED
    BY <1>14 DEF u, log, red, vs

\* A view that no operation names.
LEMMA ViewAdded ==
  ASSUME NEW t, Consistent(t), NEW v \in View, t.views[v] = None, NEW hs
  PROVE  Consistent([views |-> [t.views EXCEPT ![v] = hs], log |-> t.log, redo |-> t.redo])
  <1> DEFINE vs == [t.views EXCEPT ![v] = hs]
             u == [views |-> vs, log |-> t.log, redo |-> t.redo]
  <1>1. DOMAIN vs = View /\ \A x \in View : x # v => vs[x] = t.views[x]
    BY DEF Consistent
  <1>2. u.views = vs /\ u.log = t.log /\ u.redo = t.redo
    OBVIOUS
  <1> HIDE DEF vs, u
  <1>3. \A i \in 1..Len(t.log) : t.log[i].view \in View /\ vs[t.log[i].view] = t.views[t.log[i].view]
    BY <1>1 DEF Consistent
  <1>4. \A i \in 1..Len(t.redo) : t.redo[i].view \in View /\ vs[t.redo[i].view] = t.views[t.redo[i].view]
    BY <1>1 DEF Consistent
  <1>5. Consistent(u)
    BY <1>1, <1>2, <1>3, <1>4 DEF Consistent
  <1> QED
    BY <1>5 DEF u, vs

\* The least of some indices.
LEMMA LeastIndex ==
  ASSUME NEW n \in Nat, NEW S, S \subseteq 1..n, S # {}
  PROVE  Min(S) \in S /\ \A y \in S : Min(S) <= y
  <1>1. \E x \in S : \A y \in S : x <= y
    <2>1. PICK z \in S : TRUE
      OBVIOUS
    <2> DEFINE T == {k \in Nat : \A x \in S : x <= k => \E l \in S : \A y \in S : l <= y}
    <2>2. 0..n \subseteq T
      <3>1. 0 \in T
        OBVIOUS
      <3>2. ASSUME NEW k \in 1..n, k - 1 \in T PROVE k \in T
        <4> SUFFICES ASSUME NEW x \in S, x <= k PROVE \E l \in S : \A y \in S : l <= y
          OBVIOUS
        <4>1. CASE \E y \in S : y <= k - 1
          BY <3>2, <4>1
        <4>2. CASE \A y \in S : ~(y <= k - 1)
          <5>1. \A y \in S : x <= y
            BY <4>2
          <5> QED
            BY <5>1
        <4> QED
          BY <4>1, <4>2
      <3> HIDE DEF T
      <3> QED
        BY <3>1, <3>2, UpToInduction
    <2>3. n \in T
      BY <2>2
    <2> QED
      BY <2>1, <2>3
  <1> QED
    BY <1>1, Zenon DEF Min

\* Where log and redo stack are consistent the former ends in the views, and the
\* latter starts there.
LEMMA ConsistentIsFaithful ==
  ASSUME Consistent(Now) PROVE LogMatchesViews /\ RedoReplays
  <1>1. Now.views = views /\ Now.log = oplog /\ Now.redo = redo
    BY DEF Now
  <1>2. /\ Len(oplog) \in Nat /\ DOMAIN oplog = 1..Len(oplog)
        /\ Len(redo) \in Nat /\ DOMAIN redo = 1..Len(redo)
    BY <1>1 DEF Consistent, IsSeq
  <1>3. LogMatchesViews
    BY <1>1, <1>2 DEF Consistent, Latest, LogMatchesViews
  <1>4. ASSUME NEW i \in DOMAIN redo, NEW later, later = {j \in (i + 1)..Len(redo) : redo[j].view = redo[i].view}
        PROVE  redo[i].before = IF later = {} THEN views[redo[i].view] ELSE redo[Min(later)].after
    <2>1. CASE later = {}
      <3>1. Latest(redo, i)
        BY <1>4, <2>1 DEF Latest
      <3> QED
        BY <1>1, <1>2, <2>1, <3>1 DEF Consistent
    <2>2. CASE later # {}
      <3> DEFINE n == Len(redo)
      <3>1. n \in Nat /\ later \subseteq 1..n
        BY <1>2, <1>4
      <3> HIDE DEF n
      <3>2. PICK k : k = Min(later) /\ k \in later /\ \A y \in later : k <= y
        BY <2>2, <3>1, LeastIndex
      <3>3. k \in (i + 1)..Len(redo) /\ redo[k].view = redo[i].view
        BY <1>4, <3>2
      <3>4. ASSUME NEW l \in (i + 1)..(k - 1) PROVE redo[l].view # redo[i].view
        <4>1. l \in (i + 1)..Len(redo) /\ ~(k <= l)
          BY <1>2, <3>3
        <4> QED
          BY <1>4, <3>2, <4>1
      <3>5. Adjacent(redo, i, k)
        BY <1>2, <3>3, <3>4 DEF Adjacent
      <3>6. i \in 1..Len(redo) /\ k \in 1..Len(redo)
        BY <1>2, <3>3
      <3>7. redo[i].before = redo[k].after
        BY <1>1, <3>5, <3>6 DEF Consistent
      <3> QED
        BY <2>2, <3>2, <3>7
    <2> QED
      BY <2>1, <2>2
  <1> QED
    BY <1>3, <1>4 DEF RedoReplays

-----------------------------------------------------------------------------
(* Where plans end.                                                           *)

\* A plan of no write, or one, ends where it should.
LEMMA EndsNone == \A s, t : Ends(<<>>, s, t) <=> t = s
  <1>1. ASSUME NEW s PROVE Ends(<<>>, s, s)
    <2> DEFINE tr == [i \in {0} |-> s]
    <2>1. tr[0] = s /\ Len(<<>>) = 0
      OBVIOUS
    <2> HIDE DEF tr
    <2> QED
      BY <2>1 DEF Ends
  <1>2. ASSUME NEW s, NEW t, Ends(<<>>, s, t) PROVE t = s
    BY <1>2 DEF Ends
  <1> QED
    BY <1>1, <1>2

\* One write leads to its effect.
LEMMA EndsOne ==
  ASSUME NEW w, NEW s PROVE Ends(<<w>>, s, Effect(w, s))
  <1> DEFINE u == Effect(w, s)
             q == <<w>>
             tr == [i \in {0, 1} |-> IF i = 0 THEN s ELSE u]
  <1>1. Len(q) = 1 /\ q[1] = w /\ tr[0] = s /\ tr[1] = u /\ u = Effect(q[1], s)
    OBVIOUS
  <1> HIDE DEF u, q, tr
  <1>2. \A i \in 1..1 : i = 1 /\ i - 1 = 0
    OBVIOUS
  <1>3. \A i \in 1..Len(q) : tr[i] = Effect(q[i], tr[i - 1])
    BY <1>1, <1>2
  <1>4. Ends(q, s, u)
    BY <1>1, <1>3 DEF Ends
  <1> QED
    BY <1>4 DEF q, u

\* One plan after the other.
LEMMA EndsBoth ==
  ASSUME NEW a, NEW b, IsSeq(a), IsSeq(b), NEW s, NEW t, NEW u, Ends(a, s, t), Ends(b, t, u)
  PROVE  Ends(a \o b, s, u)
  <1> DEFINE q == a \o b
             n == Len(a)
             m == Len(b)
  <1>1. /\ n \in Nat /\ m \in Nat /\ Len(q) = n + m
        /\ \A i \in 1..n : q[i] = a[i]
        /\ \A i \in 1..m : q[n + i] = b[i]
    BY ConcatSeq
  <1>2. PICK f : f[0] = s /\ f[n] = t /\ \A i \in 1..n : f[i] = Effect(a[i], f[i - 1])
    BY DEF Ends
  <1>3. PICK g : g[0] = t /\ g[m] = u /\ \A i \in 1..m : g[i] = Effect(b[i], g[i - 1])
    BY DEF Ends
  <1> HIDE DEF q, n, m
  <1> DEFINE tr == [i \in 0..(n + m) |-> IF i <= n THEN f[i] ELSE g[i - n]]
  <1>4. \A i \in 0..n : tr[i] = f[i]
    BY <1>1
  <1>5. \A i \in 0..m : tr[n + i] = g[i]
    <2> SUFFICES ASSUME NEW i \in 0..m PROVE tr[n + i] = g[i]
      OBVIOUS
    <2>1. n + i \in 0..(n + m) /\ (n + i) - n = i
      BY <1>1
    <2>2. CASE i = 0
      BY <1>1, <1>2, <1>3, <2>1, <2>2
    <2>3. CASE i # 0
      BY <1>1, <2>1, <2>3
    <2> QED
      BY <2>2, <2>3
  <1> HIDE DEF tr
  <1>6. tr[0] = s /\ tr[n + m] = u
    BY <1>1, <1>2, <1>3, <1>4, <1>5
  <1>7. ASSUME NEW i \in 1..(n + m) PROVE tr[i] = Effect(q[i], tr[i - 1])
    <2>1. CASE i <= n
      <3>1. i \in 1..n /\ i \in 0..n /\ i - 1 \in 0..n
        BY <1>1, <2>1
      <3> QED
        BY <1>1, <1>2, <1>4, <3>1
    <2>2. CASE i > n
      <3> DEFINE k == i - n
      <3>1. k \in 1..m /\ k \in 0..m /\ k - 1 \in 0..m /\ i = n + k /\ i - 1 = n + (k - 1)
        BY <1>1, <2>2
      <3> HIDE DEF k
      <3>2. q[i] = b[k] /\ tr[i] = g[k] /\ tr[i - 1] = g[k - 1]
        BY <1>1, <1>5, <3>1
      <3> QED
        BY <1>3, <3>1, <3>2
    <2> QED
      BY <1>1, <2>1, <2>2
  <1>8. Ends(q, s, u)
    BY <1>1, <1>6, <1>7 DEF Ends
  <1> QED
    BY <1>8 DEF q

\* The first write of a plan is done.
LEMMA EndsRest ==
  ASSUME NEW q, IsSeq(q), q # <<>>, NEW s, NEW t, Ends(q, s, t)
  PROVE  Ends(Tail(q), Effect(Head(q), s), t)
  <1> DEFINE r == Tail(q)
             n == Len(q)
             S == Range(q)
  <1>1. q \in Seq(S)
    BY DEF IsSeq
  <1> HIDE DEF S
  <1>2. n \in Nat /\ n >= 1 /\ Len(r) = n - 1 /\ Head(q) = q[1] /\ \A i \in 1..(n - 1) : r[i] = q[i + 1]
    BY <1>1
  <1>3. PICK f : f[0] = s /\ f[n] = t /\ \A i \in 1..n : f[i] = Effect(q[i], f[i - 1])
    BY DEF Ends
  <1> HIDE DEF r, n
  <1> DEFINE tr == [i \in 0..(n - 1) |-> f[i + 1]]
  <1>4. \A i \in 0..(n - 1) : tr[i] = f[i + 1]
    OBVIOUS
  <1> HIDE DEF tr
  <1>5. tr[0] = Effect(Head(q), s)
    <2>1. 0 \in 0..(n - 1) /\ 0 + 1 = 1 /\ 1 \in 1..n /\ 1 - 1 = 0
      BY <1>2
    <2>2. f[1] = Effect(q[1], f[0])
      BY <1>3, <2>1
    <2> QED
      BY <1>2, <1>3, <1>4, <2>1, <2>2
  <1>6. tr[n - 1] = t
    <2>1. n - 1 \in 0..(n - 1) /\ (n - 1) + 1 = n
      BY <1>2
    <2> QED
      BY <1>3, <1>4, <2>1
  <1>7. ASSUME NEW i \in 1..(n - 1) PROVE tr[i] = Effect(r[i], tr[i - 1])
    <2>1. i \in 0..(n - 1) /\ i - 1 \in 0..(n - 1) /\ i + 1 \in 1..n /\ (i + 1) - 1 = i /\ (i - 1) + 1 = i
      BY <1>2
    <2>2. f[i + 1] = Effect(q[i + 1], f[i])
      BY <1>3, <2>1
    <2>3. tr[i] = f[i + 1] /\ tr[i - 1] = f[i]
      BY <1>4, <2>1
    <2> QED
      BY <1>2, <2>2, <2>3
  <1>8. Ends(r, Effect(Head(q), s), t)
    BY <1>2, <1>5, <1>6, <1>7 DEF Ends
  <1> QED
    BY <1>8 DEF r

-----------------------------------------------------------------------------
(* The invariant behind undo and redo.                                        *)

Gone == {b \in Bytes : blobs[b] = Absent}

\* A write that cannot fail where the contents are ch, the views N are there and of the
\* blobs only G are not.
SimpleWrite(w, G, ch, N) ==
  /\ w.w \in {"change", "view", "head", "pop", "append", "redo", "rmblob", "wd"}
  /\ w.w = "wd" => w.tree.blob \notin G
  /\ w.w = "change" => w.id \in DOMAIN ch /\ ch[w.id].atoms.blob \notin G
  /\ w.w = "append" => w.op.view \in N
  /\ w.w = "redo" => \A i \in 1..Len(w.stack) : w.stack[i].view \in N
Simple(q, G, ch, N) == IsSeq(q) /\ \A w \in Range(q) : SimpleWrite(w, G, ch, N)

\* Only the copy of a file may fail, and it is the first write.
Fits(c, q, G, ch, N) ==
  q = <<>> \/ Simple(q, G, ch, N)
  \/ (Head(q).w = "fill" /\ Head(q).bytes # Absent /\ Simple(Tail(q), G, ch, N))
  \/ (Head(q).w = "blob" /\ c # "undo" /\ Simple(Tail(q), G \ {Head(q).v}, ch, N))

\* What is left of a command takes log and views, from s on, to where they agree, if
\* there were no crashes; an undo ends as it should.
GoesTo(c, q, s, n) ==
  \E t : Ends(q, s, t) /\ (n = 0 => Consistent(t)) /\ (c = "undo" => Undone(t))

\* Before a command has written anything but blobs they agree too.
Settled ==
  crashes = 0 /\ (\A p \in Proc : todo[p] = <<>> \/ Head(todo[p]).w = "blob") => Consistent(Now)

LogNamesViews ==
  /\ \A i \in 1..Len(oplog) : oplog[i].view \in Named
  /\ \A i \in 1..Len(redo) : redo[i].view \in Named

NothingGone ==
  /\ DOMAIN epoch = {} /\ DOMAIN blobs = Bytes /\ Backwards(content)
  /\ \A x \in store : BytesOf(x) \notin Gone

UndoInv ==
  /\ LockHeld /\ crashes \in Nat /\ NothingGone /\ LogNamesViews /\ Settled
  /\ \A p \in Proc : /\ cmd[p] \in Commands \cup {"idle"}
                     /\ cmd[p] = "idle" => todo[p] = <<>>
                     /\ Fits(cmd[p], todo[p], Gone, content, Named)
                     /\ cmd[p] # "idle" => GoesTo(cmd[p], todo[p], Now, crashes)

\* One command is under way at most.
LEMMA OneUnderWay ==
  ASSUME UndoUndisturbed, UndoInv, NEW p \in Proc, NEW r \in Proc, cmd[p] # "idle", cmd[r] # "idle"
  PROVE  p = r
  BY DEF UndoUndisturbed, UndoInv, LockHeld

\* Simple plans: more of them where more is there.
LEMMA SimpleOn ==
  ASSUME NEW q, NEW G, NEW ch, NEW N, Simple(q, G, ch, N),
         NEW H, NEW new, NEW M, H \subseteq G, Extends(new, ch), N \subseteq M
  PROVE  Simple(q, H, new, M)
  <1>1. ASSUME NEW w, SimpleWrite(w, G, ch, N) PROVE SimpleWrite(w, H, new, M)
    BY <1>1 DEF SimpleWrite, Extends
  <1> QED
    BY <1>1 DEF Simple

\* A plan of simple writes is simple.
LEMMA SimpleSeq ==
  ASSUME NEW G, NEW ch, NEW N, NEW S, NEW q \in Seq(S), \A w \in S : SimpleWrite(w, G, ch, N)
  PROVE  Simple(q, G, ch, N)
  <1>1. IsSeq(q) /\ Range(q) \subseteq S
    BY SeqHasRange DEF Range
  <1> QED
    BY <1>1 DEF Simple

\* What is left of a simple plan is simple.
LEMMA SimpleRest ==
  ASSUME NEW q, NEW G, NEW ch, NEW N, Simple(q, G, ch, N), q # <<>>
  PROVE  SimpleWrite(Head(q), G, ch, N) /\ Simple(Tail(q), G, ch, N)
  <1> DEFINE S == Range(q)
  <1>1. q \in Seq(S) /\ \A w \in S : SimpleWrite(w, G, ch, N)
    BY DEF Simple, IsSeq
  <1> HIDE DEF S
  <1>2. Head(q) \in S /\ Tail(q) \in Seq(S)
    BY <1>1
  <1> QED
    BY <1>1, <1>2, SimpleSeq

\* A simple plan and where it ends.
Way(q, G, ch, N, s, t) == Simple(q, G, ch, N) /\ Ends(q, s, t)

\* Two pieces of a plan, one after the other.
LEMMA WayBoth ==
  ASSUME NEW a, NEW b, NEW G, NEW ch, NEW N, NEW s, NEW t, NEW u,
         Way(a, G, ch, N, s, t), Way(b, G, ch, N, t, u)
  PROVE  Way(a \o b, G, ch, N, s, u)
  <1> DEFINE S == Range(a) \cup Range(b)
  <1>1. IsSeq(a) /\ IsSeq(b)
    BY DEF Way, Simple
  <1>2. Ends(a \o b, s, u)
    BY <1>1, EndsBoth DEF Way
  <1>3. a \in Seq(S) /\ b \in Seq(S) /\ \A w \in S : SimpleWrite(w, G, ch, N)
    BY DEF Way, Simple, IsSeq
  <1> HIDE DEF S
  <1>4. a \o b \in Seq(S)
    BY <1>3
  <1> QED
    BY <1>2, <1>3, <1>4, SimpleSeq DEF Way

\* One write is a piece of a plan.
LEMMA WayOne ==
  ASSUME NEW w, NEW G, NEW ch, NEW N, SimpleWrite(w, G, ch, N), NEW s
  PROVE  Way(<<w>>, G, ch, N, s, Effect(w, s))
  <1> DEFINE S == {w}
  <1>1. <<w>> \in Seq(S) /\ \A x \in S : SimpleWrite(x, G, ch, N)
    OBVIOUS
  <1> HIDE DEF S
  <1>2. Simple(<<w>>, G, ch, N)
    BY <1>1, SimpleSeq
  <1> QED
    BY <1>2, EndsOne DEF Way

\* Nothing is a piece of a plan.
LEMMA WayNone ==
  ASSUME NEW G, NEW ch, NEW N, NEW s PROVE Way(<<>>, G, ch, N, s, s)
  <1> DEFINE S == {}
  <1>1. <<>> \in Seq(S) /\ \A x \in S : SimpleWrite(x, G, ch, N)
    OBVIOUS
  <1> HIDE DEF S
  <1>2. Simple(<<>>, G, ch, N)
    BY <1>1, SimpleSeq
  <1> QED
    BY <1>2, EndsNone DEF Way

\* The writes of the commands.
LEMMA Ways ==
  ASSUME NEW G, NEW ch, NEW N, NEW s
  PROVE  /\ \A id \in DOMAIN ch : ch[id].atoms.blob \notin G => Way(write_change(id), G, ch, N, s, s)
         /\ \A v, hs : Way(save_view(v, hs), G, ch, N, s,
                           [views |-> [s.views EXCEPT ![v] = hs], log |-> s.log, redo |-> s.redo])
         /\ \A v : Way(set_head(v), G, ch, N, s, s)
         /\ Way(pop, G, ch, N, s, [views |-> s.views, log |-> Front(s.log), redo |-> s.redo])
         /\ \A o : o.view \in N => Way(append(o), G, ch, N, s, [views |-> s.views, log |-> Append(s.log, o), redo |-> s.redo])
         /\ \A st : (\A i \in 1..Len(st) : st[i].view \in N) =>
               Way(save_redo(st), G, ch, N, s, [views |-> s.views, log |-> s.log, redo |-> st])
         /\ Way(remove_file, G, ch, N, s, s)
         /\ \A tree, q : tree.blob \notin G => Way(write_state(tree, q), G, ch, N, s, s)
  <1>1. ASSUME NEW id \in DOMAIN ch, ch[id].atoms.blob \notin G PROVE Way(write_change(id), G, ch, N, s, s)
    <2> DEFINE w == [w |-> "change", id |-> id]
    <2>1. SimpleWrite(w, G, ch, N) /\ Effect(w, s) = s
      BY <1>1 DEF SimpleWrite, Effect
    <2> HIDE DEF w
    <2>2. Way(<<w>>, G, ch, N, s, s)
      BY <2>1, WayOne
    <2> QED
      BY <2>2 DEF write_change, w
  <1>2. ASSUME NEW v, NEW hs
        PROVE  Way(save_view(v, hs), G, ch, N, s,
                   [views |-> [s.views EXCEPT ![v] = hs], log |-> s.log, redo |-> s.redo])
    <2> DEFINE w == [w |-> "view", view |-> v, heads |-> hs]
               t == [views |-> [s.views EXCEPT ![v] = hs], log |-> s.log, redo |-> s.redo]
    <2>1. SimpleWrite(w, G, ch, N) /\ Effect(w, s) = t
      BY DEF SimpleWrite, Effect
    <2> HIDE DEF w, t
    <2>2. Way(<<w>>, G, ch, N, s, t)
      BY <2>1, WayOne
    <2> QED
      BY <2>2 DEF save_view, w, t
  <1>3. ASSUME NEW v PROVE Way(set_head(v), G, ch, N, s, s)
    <2> DEFINE w == [w |-> "head", view |-> v]
    <2>1. SimpleWrite(w, G, ch, N) /\ Effect(w, s) = s
      BY DEF SimpleWrite, Effect
    <2> HIDE DEF w
    <2>2. Way(<<w>>, G, ch, N, s, s)
      BY <2>1, WayOne
    <2> QED
      BY <2>2 DEF set_head, w
  <1>4. Way(pop, G, ch, N, s, [views |-> s.views, log |-> Front(s.log), redo |-> s.redo])
    <2> DEFINE w == [w |-> "pop"]
               t == [views |-> s.views, log |-> Front(s.log), redo |-> s.redo]
    <2>1. SimpleWrite(w, G, ch, N) /\ Effect(w, s) = t
      BY DEF SimpleWrite, Effect
    <2> HIDE DEF w, t
    <2>2. Way(<<w>>, G, ch, N, s, t)
      BY <2>1, WayOne
    <2> QED
      BY <2>2 DEF pop, w, t
  <1>5. ASSUME NEW o, o.view \in N
        PROVE  Way(append(o), G, ch, N, s, [views |-> s.views, log |-> Append(s.log, o), redo |-> s.redo])
    <2> DEFINE w == [w |-> "append", op |-> o]
               t == [views |-> s.views, log |-> Append(s.log, o), redo |-> s.redo]
    <2>1. SimpleWrite(w, G, ch, N) /\ Effect(w, s) = t
      BY <1>5 DEF SimpleWrite, Effect
    <2> HIDE DEF w, t
    <2>2. Way(<<w>>, G, ch, N, s, t)
      BY <2>1, WayOne
    <2> QED
      BY <2>2 DEF append, w, t
  <1>6. ASSUME NEW st, \A i \in 1..Len(st) : st[i].view \in N
        PROVE  Way(save_redo(st), G, ch, N, s, [views |-> s.views, log |-> s.log, redo |-> st])
    <2> DEFINE w == [w |-> "redo", stack |-> st]
               t == [views |-> s.views, log |-> s.log, redo |-> st]
    <2>1. SimpleWrite(w, G, ch, N) /\ Effect(w, s) = t
      BY <1>6 DEF SimpleWrite, Effect
    <2> HIDE DEF w, t
    <2>2. Way(<<w>>, G, ch, N, s, t)
      BY <2>1, WayOne
    <2> QED
      BY <2>2 DEF save_redo, w, t
  <1>7. Way(remove_file, G, ch, N, s, s)
    <2> DEFINE w == [w |-> "rmblob"]
    <2>1. SimpleWrite(w, G, ch, N) /\ Effect(w, s) = s
      BY DEF SimpleWrite, Effect
    <2> HIDE DEF w
    <2>2. Way(<<w>>, G, ch, N, s, s)
      BY <2>1, WayOne
    <2> QED
      BY <2>2 DEF remove_file, w
  <1>8. ASSUME NEW tree, NEW q, tree.blob \notin G PROVE Way(write_state(tree, q), G, ch, N, s, s)
    <2> DEFINE w == [w |-> "wd", tree |-> tree, undo |-> q]
    <2>1. SimpleWrite(w, G, ch, N) /\ Effect(w, s) = s
      BY <1>8 DEF SimpleWrite, Effect
    <2> HIDE DEF w
    <2>2. Way(<<w>>, G, ch, N, s, s)
      BY <2>1, WayOne
    <2> QED
      BY <2>2 DEF write_state, w
  <1> QED
    BY <1>1, <1>2, <1>3, <1>4, <1>5, <1>6, <1>7, <1>8

\* log_operation: nothing can be done again, and the operation is the last.
LEMMA WayLogs ==
  ASSUME NEW G, NEW ch, NEW N, NEW s, NEW v \in N, NEW before, NEW after
  PROVE  Way(log_operation(v, before, after), G, ch, N, s,
             [views |-> s.views, log |-> Append(s.log, Op(v, before, after)), redo |-> <<>>])
  <1> DEFINE o == Op(v, before, after)
             r == [views |-> s.views, log |-> s.log, redo |-> <<>>]
             t == [views |-> s.views, log |-> Append(s.log, o), redo |-> <<>>]
             one == save_redo(<<>>)
             two == append(o)
  <1>1. o.view \in N
    BY DEF Op
  <1>2. Way(one, G, ch, N, s, r)
    <2>1. \A i \in 1..Len(<<>>) : <<>>[i].view \in N
      OBVIOUS
    <2> QED
      BY <2>1, Ways
  <1>3. Way(two, G, ch, N, r, t)
    <2> HIDE DEF o
    <2>1. [views |-> r.views, log |-> Append(r.log, o), redo |-> r.redo] = t
      OBVIOUS
    <2> HIDE DEF r, t
    <2> QED
      BY <1>1, <2>1, Ways
  <1> HIDE DEF o, r, t, one, two
  <1>4. Way(one \o two, G, ch, N, s, t)
    BY <1>2, <1>3, WayBoth
  <1> QED
    BY <1>4 DEF log_operation, one, two, t, o

\* A write is done, and its command goes on with q; nobody else is under way.
LEMMA WriteGoesOn ==
  ASSUME IInv, UndoUndisturbed, UndoInv, NEW p \in Proc, todo[p] # <<>>, NEW q,
         todo' = [todo EXCEPT ![p] = q], UNCHANGED <<cmd, crashes, content, lock, epoch>>,
         DOMAIN blobs' = Bytes, \A x \in store' : BytesOf(x) \notin Gone', LogNamesViews',
         Fits(cmd[p], q, Gone', content, Named'), GoesTo(cmd[p], q, Now', crashes),
         q = <<>> \/ Head(q).w # "blob"
  PROVE  UndoInv'
  <1>1. cmd[p] # "idle"
    BY DEF UndoInv
  <1>2. todo'[p] = q /\ \A r \in Proc : r # p => todo'[r] = <<>> /\ cmd[r] = "idle"
    BY <1>1, OneUnderWay DEF UndoInv, IInv, Plans
  <1>3. NothingGone'
    <2>1. \A x : BytesOf(x)' = BytesOf(x)
      BY DEF BytesOf
    <2> QED
      BY <2>1 DEF UndoInv, NothingGone
  <1>4. Settled'
    <2> SUFFICES ASSUME crashes' = 0, \A r \in Proc : todo'[r] = <<>> \/ Head(todo'[r]).w = "blob"
                 PROVE  Consistent(Now')
      BY DEF Settled
    <2>1. q = <<>>
      BY <1>2
    <2>2. PICK t : Ends(q, Now', t) /\ Consistent(t)
      BY DEF GoesTo
    <2> QED
      BY <2>1, <2>2, EndsNone
  <1>5. ASSUME NEW r \in Proc
        PROVE  /\ cmd'[r] \in Commands \cup {"idle"}
               /\ cmd'[r] = "idle" => todo'[r] = <<>>
               /\ Fits(cmd'[r], todo'[r], Gone', content', Named')
               /\ cmd'[r] # "idle" => GoesTo(cmd'[r], todo'[r], Now', crashes')
    <2>1. CASE r = p
      BY <1>1, <1>2, <2>1 DEF UndoInv
    <2>2. CASE r # p
      BY <1>2, <2>2 DEF UndoInv, Fits
    <2> QED
      BY <2>1, <2>2
  <1>6. LockHeld' /\ crashes' \in Nat
    BY DEF UndoInv, LockHeld
  <1> QED
    BY <1>3, <1>4, <1>5, <1>6 DEF UndoInv

\* All writes but copies are simple.
LEMMA SimpleHere ==
  ASSUME UndoInv, NEW p \in Proc, NEW kind, Doing(p, kind), kind \notin {"blob", "fill"}
  PROVE  /\ Simple(todo[p], Gone, content, Named)
         /\ todo[p] # <<>> /\ Head(todo[p]).w = kind /\ SimpleWrite(Head(todo[p]), Gone, content, Named)
  <1>1. todo[p] # <<>> /\ Head(todo[p]).w = kind
    BY DEF Doing
  <1>2. Simple(todo[p], Gone, content, Named)
    BY <1>1 DEF UndoInv, Fits
  <1> QED
    BY <1>1, <1>2, SimpleRest

\* A simple write is done.
LEMMA SimpleGoesOn ==
  ASSUME IInv, UndoUndisturbed, UndoInv, NEW p \in Proc, todo[p] # <<>>,
         Simple(todo[p], Gone, content, Named), Done(p),
         UNCHANGED <<cmd, crashes, content, lock, epoch, blobs>>, Named \subseteq Named',
         \A x \in store' : BytesOf(x) \notin Gone, LogNamesViews',
         Now' = Effect(Head(todo[p]), Now)
  PROVE  UndoInv'
  <1> DEFINE q == Tail(todo[p])
             G == Gone
  <1>1. todo' = [todo EXCEPT ![p] = q]
    BY DEF Done, IInv, Plans
  <1>2. Simple(q, G, content, Named)
    BY SimpleRest
  <1>3. Gone' = G
    BY DEF Gone
  <1>4. cmd[p] # "idle"
    BY DEF UndoInv
  <1>5. PICK t : Ends(todo[p], Now, t) /\ (crashes = 0 => Consistent(t)) /\ (cmd[p] = "undo" => Undone(t))
    BY <1>4 DEF UndoInv, GoesTo
  <1>6. Ends(q, Now', t)
    BY <1>5, EndsRest DEF Simple
  <1> HIDE DEF q
  <1>7. q = <<>> \/ Head(q).w # "blob"
    <2>1. ASSUME q # <<>> PROVE Head(q).w # "blob"
      <3>1. SimpleWrite(Head(q), G, content, Named)
        BY <1>2, <2>1, SimpleRest
      <3> QED
        BY <3>1 DEF SimpleWrite
    <2> QED
      BY <2>1
  <1>8. Simple(q, Gone', content, Named')
    BY <1>2, <1>3, SimpleOn, ExtendsItself
  <1>9. Fits(cmd[p], q, Gone', content, Named') /\ GoesTo(cmd[p], q, Now', crashes)
    BY <1>5, <1>6, <1>8 DEF Fits, GoesTo
  <1>10. DOMAIN blobs' = Bytes /\ \A x \in store' : BytesOf(x) \notin Gone'
    BY <1>3 DEF UndoInv, NothingGone
  <1> QED
    BY <1>1, <1>7, <1>9, <1>10, WriteGoesOn

\* Where no operation and no view changes.
LEMMA SameNow ==
  ASSUME UNCHANGED <<views, oplog, redo>>, UndoInv
  PROVE  Now' = Now /\ Named' = Named /\ LogNamesViews'
  BY DEF Now, Named, LogNamesViews, UndoInv

\* The writes that say nothing of views and operations.
LEMMA QuietGoesOn ==
  ASSUME IInv, UndoUndisturbed, UndoInv, NEW p \in Proc,
         WriteChange(p) \/ SetHead(p) \/ RemoveFile(p) \/ WriteState(p)
  PROVE  UndoInv'
  <1> DEFINE w == Head(todo[p])
  <1>1. PICK kind : Doing(p, kind) /\ kind \in {"change", "head", "rmblob", "wd"}
    BY DEF WriteChange, SetHead, RemoveFile, WriteState
  <1>2. Simple(todo[p], Gone, content, Named) /\ todo[p] # <<>> /\ w.w = kind /\ SimpleWrite(w, Gone, content, Named)
    BY <1>1, SimpleHere
  <1>3. UNCHANGED <<cmd, crashes, content, lock, epoch, blobs, views, oplog, redo>>
    BY DEF WriteChange, SetHead, RemoveFile, WriteState, unmoved, bounds
  <1>4. Done(p)
    <2>1. CASE WriteState(p)
      <3>1. w.tree.blob \notin Gone
        BY <1>2, <2>1 DEF WriteState, Doing, SimpleWrite
      <3> QED
        BY <2>1, <3>1 DEF WriteState, Gone
    <2>2. CASE ~WriteState(p)
      BY <2>2 DEF WriteChange, SetHead, RemoveFile
    <2> QED
      BY <2>1, <2>2
  <1>5. \A x \in store' : BytesOf(x) \notin Gone
    <2>1. CASE WriteChange(p)
      BY <1>2, <2>1 DEF WriteChange, Doing, SimpleWrite, BytesOf, UndoInv, NothingGone
    <2>2. CASE ~WriteChange(p)
      BY <2>2 DEF SetHead, RemoveFile, WriteState, UndoInv, NothingGone
    <2> QED
      BY <2>1, <2>2
  <1>6. Now' = Now /\ Named' = Named /\ LogNamesViews'
    BY <1>3, SameNow
  <1>7. Now' = Effect(w, Now)
    BY <1>1, <1>2, <1>6 DEF Effect
  <1> QED
    BY <1>2, <1>3, <1>4, <1>5, <1>6, <1>7, SimpleGoesOn

\* A view is saved.
LEMMA ViewGoesOn ==
  ASSUME IInv, Counted, UndoUndisturbed, UndoInv, NEW p \in Proc, SaveView(p) PROVE UndoInv'
  <1> DEFINE w == Head(todo[p])
  <1>1. Simple(todo[p], Gone, content, Named) /\ todo[p] # <<>> /\ w.w = "view"
    BY SimpleHere DEF SaveView
  <1>2. /\ UNCHANGED <<cmd, crashes, content, lock, epoch, blobs, store, oplog, redo>> /\ Done(p)
        /\ views' = [views EXCEPT ![w.view] = w.heads]
    BY DEF SaveView, unmoved, bounds
  <1>3. w.heads \subseteq Found /\ w.view \in View
    BY <1>1, WriteLeads DEF Leads
  <1>4. w.heads # None
    BY <1>3, HeadsAreSome DEF IInv
  <1>5. views \in [View -> (SUBSET Found) \cup {None}]
    BY DEF IInv, Rooted
  <1>6. Named \subseteq Named'
    BY <1>2, <1>3, <1>4, <1>5 DEF Named
  <1>7. LogNamesViews'
    BY <1>2, <1>6 DEF UndoInv, LogNamesViews
  <1>8. Now' = Effect(w, Now)
    BY <1>1, <1>2 DEF Now, Effect
  <1>9. \A x \in store' : BytesOf(x) \notin Gone
    BY <1>2 DEF UndoInv, NothingGone
  <1> QED
    BY <1>1, <1>2, <1>6, <1>7, <1>8, <1>9, SimpleGoesOn

\* The log or the redo stack is written.
LEMMA LogGoesThrough ==
  ASSUME IInv, UndoUndisturbed, UndoInv, NEW p \in Proc, PopOp(p) \/ AppendOp(p) \/ SaveRedo(p)
  PROVE  UndoInv'
  <1> DEFINE w == Head(todo[p])
  <1>1. PICK kind : Doing(p, kind) /\ kind \in {"pop", "append", "redo"}
    BY DEF PopOp, AppendOp, SaveRedo
  <1>2. Simple(todo[p], Gone, content, Named) /\ todo[p] # <<>> /\ w.w = kind /\ SimpleWrite(w, Gone, content, Named)
    BY <1>1, SimpleHere
  <1>3. UNCHANGED <<cmd, crashes, content, lock, epoch, blobs, store, views>> /\ Done(p)
    BY DEF PopOp, AppendOp, SaveRedo, unmoved, bounds
  <1>4. Named' = Named /\ \A x \in store' : BytesOf(x) \notin Gone
    BY <1>3 DEF Named, UndoInv, NothingGone
  <1>5. IsSeq(oplog)
    BY DEF IInv, Rooted
  <1>6. Now' = Effect(w, Now)
    BY <1>3 DEF Now, Effect, PopOp, AppendOp, SaveRedo, Doing
  <1>7. LogNamesViews'
    <2>1. CASE PopOp(p)
      <3>1. oplog' = Front(oplog) /\ redo' = redo
        BY <2>1 DEF PopOp
      <3>2. CASE oplog = <<>>
        <4>1. oplog' = SubSeq(<<>>, 1, 0 - 1)
          BY <3>1, <3>2 DEF Front
        <4>2. SubSeq(<<>>, 1, 0 - 1) = <<>>
          OBVIOUS
        <4> QED
          BY <1>4, <3>1, <3>2, <4>1, <4>2 DEF UndoInv, LogNamesViews
      <3>3. CASE oplog # <<>>
        <4>1. \A i \in 1..Len(oplog') : i \in 1..Len(oplog) /\ oplog'[i] = oplog[i]
          BY <1>5, <3>1, <3>3, OneLess
        <4> QED
          BY <1>4, <3>1, <4>1 DEF UndoInv, LogNamesViews
      <3> QED
        BY <3>2, <3>3
    <2>2. CASE AppendOp(p)
      <3>1. oplog' = Append(oplog, w.op) /\ redo' = redo /\ w.op.view \in Named
        BY <1>2, <2>2 DEF AppendOp, SimpleWrite, Doing
      <3>2. \A i \in 1..Len(oplog') : oplog'[i] = w.op \/ (i \in 1..Len(oplog) /\ oplog'[i] = oplog[i])
        BY <1>5, <3>1, OneMore
      <3> QED
        BY <1>4, <3>1, <3>2 DEF UndoInv, LogNamesViews
    <2>3. CASE SaveRedo(p)
      <3>1. redo' = w.stack /\ oplog' = oplog
        BY <2>3 DEF SaveRedo
      <3>2. \A i \in 1..Len(w.stack) : w.stack[i].view \in Named
        BY <1>2, <2>3 DEF SaveRedo, SimpleWrite, Doing
      <3> QED
        BY <1>4, <3>1, <3>2 DEF UndoInv, LogNamesViews
    <2> QED
      BY <2>1, <2>2, <2>3
  <1> QED
    BY <1>2, <1>3, <1>4, <1>6, <1>7, SimpleGoesOn

\* A plan whose first write is a copy, or its second half.
LEMMA CopyHere ==
  ASSUME IInv, UndoInv, NEW p \in Proc, NEW kind, Doing(p, kind), kind \in {"blob", "fill"}
  PROVE  /\ todo[p] # <<>> /\ cmd[p] # "idle" /\ Effect(Head(todo[p]), Now) = Now
         /\ kind = "fill" => Head(todo[p]).bytes # Absent /\ Simple(Tail(todo[p]), Gone, content, Named)
         /\ kind = "blob" => cmd[p] # "undo" /\ Simple(Tail(todo[p]), Gone \ {Head(todo[p]).v}, content, Named)
  <1>1. todo[p] # <<>> /\ Head(todo[p]).w = kind /\ cmd[p] # "idle"
    BY DEF Doing, UndoInv
  <1>2. ~Simple(todo[p], Gone, content, Named)
    <2> SUFFICES ASSUME Simple(todo[p], Gone, content, Named) PROVE FALSE
      OBVIOUS
    <2>1. SimpleWrite(Head(todo[p]), Gone, content, Named)
      BY <1>1, SimpleRest
    <2> QED
      BY <1>1, <2>1 DEF SimpleWrite
  <1>3. Effect(Head(todo[p]), Now) = Now
    BY <1>1 DEF Effect
  <1>4. Fits(cmd[p], todo[p], Gone, content, Named)
    BY DEF UndoInv
  <1> QED
    BY <1>1, <1>2, <1>3, <1>4 DEF Fits

\* Simple plans have no copies.
LEMMA NoCopy ==
  ASSUME NEW q, NEW G, NEW ch, NEW N, Simple(q, G, ch, N) PROVE q = <<>> \/ Head(q).w # "blob"
  <1>1. ASSUME q # <<>> PROVE Head(q).w # "blob"
    <2>1. SimpleWrite(Head(q), G, ch, N)
      BY <1>1, SimpleRest
    <2> QED
      BY <2>1 DEF SimpleWrite
  <1> QED
    BY <1>1

\* A copy: refused, not needed or begun.
LEMMA CopyBegins ==
  ASSUME IInv, UndoUndisturbed, UndoInv, NEW p \in Proc, WriteBlob(p) PROVE UndoInv'
  <1> DEFINE v == Head(todo[p]).v
             r == Tail(todo[p])
             G == Gone
  <1>1. Doing(p, "blob")
    BY DEF WriteBlob
  <1>2. /\ todo[p] # <<>> /\ cmd[p] # "idle" /\ Effect(Head(todo[p]), Now) = Now /\ cmd[p] # "undo"
        /\ Simple(r, G \ {v}, content, Named)
    BY <1>1, CopyHere
  <1>3. UNCHANGED <<cmd, crashes, content, lock, epoch, store, views, oplog, redo>>
    BY DEF WriteBlob, unmoved, bounds
  <1>4. Now' = Now /\ Named' = Named /\ LogNamesViews'
    BY <1>3, SameNow
  <1>5. PICK t : Ends(todo[p], Now, t) /\ (crashes = 0 => Consistent(t))
    BY <1>2 DEF UndoInv, GoesTo
  <1>6. Ends(r, Now, t)
    <2>1. IsSeq(todo[p])
      BY DEF IInv, Plans, Backed
    <2> QED
      BY <1>2, <1>5, <2>1, EndsRest
  <1>7. r = <<>> \/ Head(r).w # "blob"
    BY <1>2, NoCopy
  <1>8. \A x \in store' : BytesOf(x) \notin G
    BY <1>3 DEF UndoInv, NothingGone
  <1>9. DOMAIN blobs = Bytes /\ crashes' = crashes
    BY <1>3 DEF UndoInv, NothingGone
  <1>10. CASE todo' = [todo EXCEPT ![p] = <<>>] /\ blobs' = blobs
    <2>1. crashes = 0 => Consistent(Now)
      <3>1. \A s \in Proc : todo[s] = <<>> \/ Head(todo[s]).w = "blob"
        BY <1>1, <1>2, OneUnderWay DEF Doing, UndoInv
      <3> QED
        BY <3>1 DEF UndoInv, Settled
    <2>2. GoesTo(cmd[p], <<>>, Now', crashes)
      BY <1>2, <1>4, <2>1, EndsNone DEF GoesTo
    <2>3. Fits(cmd[p], <<>>, Gone', content, Named') /\ Gone' = G
      BY <1>10 DEF Fits, Gone
    <2>4. DOMAIN blobs' = Bytes /\ \A x \in store' : BytesOf(x) \notin Gone'
      BY <1>8, <1>9, <1>10, <2>3
    <2> QED
      BY <1>2, <1>3, <1>4, <1>10, <2>2, <2>3, <2>4, WriteGoesOn
  <1>11. CASE Done(p) /\ blobs[v] # Absent /\ blobs' = blobs
    <2>1. todo' = [todo EXCEPT ![p] = r]
      BY <1>11 DEF Done, IInv, Plans
    <2>2. Gone' = G /\ v \notin G /\ G \subseteq G \ {v}
      BY <1>11 DEF Gone
    <2> HIDE DEF r, v
    <2>3. Simple(r, Gone', content, Named')
      BY <1>2, <1>4, <2>2, SimpleOn, ExtendsItself
    <2>4. Fits(cmd[p], r, Gone', content, Named')
      BY <2>3 DEF Fits
    <2>5. GoesTo(cmd[p], r, Now', crashes)
      BY <1>2, <1>4, <1>5, <1>6 DEF GoesTo
    <2>6. DOMAIN blobs' = Bytes /\ \A x \in store' : BytesOf(x) \notin Gone'
      BY <1>8, <1>9, <1>11, <2>2
    <2> QED
      BY <1>2, <1>3, <1>4, <1>7, <2>1, <2>4, <2>5, <2>6, WriteGoesOn
  <1>12. CASE /\ todo' = [todo EXCEPT ![p] = <<[w |-> "fill", v |-> Head(todo[p]).v, bytes |-> wd.blob]>> \o Tail(@)]
              /\ wd.blob # Absent /\ blobs' = [blobs EXCEPT ![v] = Torn]
    <2> DEFINE w == [w |-> "fill", v |-> v, bytes |-> wd.blob]
               q == <<w>> \o r
    <2>1. todo' = [todo EXCEPT ![p] = q]
      BY <1>12 DEF IInv, Plans
    <2>2. Gone' \subseteq G \ {v}
      BY <1>9, <1>12 DEF Gone, Torn, Absent
    <2>3. w.w = "fill" /\ w.bytes # Absent
      BY <1>12
    <2>4. Effect(w, Now) = Now
      BY DEF Effect
    <2> HIDE DEF w, r, v
    <2>5. IsSeq(r) /\ IsSeq(<<w>>)
      <3>1. <<w>> \in Seq({w})
        OBVIOUS
      <3> QED
        BY <1>2, <3>1, SeqHasRange DEF Simple
    <2>6. Head(q) = w /\ Tail(q) = r /\ q # <<>>
      <3> DEFINE S == Range(r) \cup {w}
      <3>1. r \in Seq(S) /\ w \in S
        BY <2>5 DEF IsSeq
      <3> HIDE DEF S
      <3> QED
        BY <3>1
    <2>7. Ends(q, Now, t)
      <3>1. Ends(<<w>>, Now, Now)
        BY <2>4, EndsOne
      <3> QED
        BY <1>6, <2>5, <3>1, EndsBoth
    <2>8. Simple(r, Gone', content, Named')
      BY <1>2, <1>4, <2>2, SimpleOn, ExtendsItself
    <2> HIDE DEF q
    <2>9. Fits(cmd[p], q, Gone', content, Named')
      BY <2>3, <2>6, <2>8 DEF Fits
    <2>10. GoesTo(cmd[p], q, Now', crashes)
      BY <1>2, <1>4, <1>5, <2>7 DEF GoesTo
    <2>11. DOMAIN blobs' = Bytes /\ \A x \in store' : BytesOf(x) \notin Gone'
      BY <1>8, <1>9, <1>12, <2>2
    <2>12. Head(q).w # "blob"
      BY <2>3, <2>6
    <2> QED
      BY <1>2, <1>3, <1>4, <2>1, <2>9, <2>10, <2>11, <2>12, WriteGoesOn
  <1> QED
    BY <1>10, <1>11, <1>12 DEF WriteBlob

\* The bytes follow.
LEMMA CopyEnds ==
  ASSUME IInv, UndoUndisturbed, UndoInv, NEW p \in Proc, FillBlob(p) PROVE UndoInv'
  <1> DEFINE r == Tail(todo[p])
             G == Gone
  <1>1. Doing(p, "fill")
    BY DEF FillBlob
  <1>2. /\ todo[p] # <<>> /\ cmd[p] # "idle" /\ Effect(Head(todo[p]), Now) = Now
        /\ Head(todo[p]).bytes # Absent /\ Simple(r, G, content, Named)
    BY <1>1, CopyHere
  <1>3. /\ UNCHANGED <<cmd, crashes, content, lock, epoch, store, views, oplog, redo>> /\ Done(p)
        /\ blobs' = [blobs EXCEPT ![Head(todo[p]).v] = IF @ = Absent THEN @ ELSE Head(todo[p]).bytes]
    BY DEF FillBlob, unmoved, bounds
  <1>4. Now' = Now /\ Named' = Named /\ LogNamesViews'
    BY <1>3, SameNow
  <1>5. PICK t : Ends(todo[p], Now, t) /\ (crashes = 0 => Consistent(t)) /\ (cmd[p] = "undo" => Undone(t))
    BY <1>2 DEF UndoInv, GoesTo
  <1>6. Ends(r, Now, t)
    <2>1. IsSeq(todo[p])
      BY DEF IInv, Plans, Backed
    <2> QED
      BY <1>2, <1>5, <2>1, EndsRest
  <1>7. r = <<>> \/ Head(r).w # "blob"
    BY <1>2, NoCopy
  <1>8. Gone' \subseteq G
    BY <1>2, <1>3 DEF Gone
  <1>9. DOMAIN blobs' = Bytes /\ \A x \in store' : BytesOf(x) \notin Gone'
    BY <1>3, <1>8 DEF UndoInv, NothingGone
  <1>10. todo' = [todo EXCEPT ![p] = r]
    BY <1>3 DEF Done, IInv, Plans
  <1> HIDE DEF r
  <1>11. Simple(r, Gone', content, Named')
    BY <1>2, <1>4, <1>8, SimpleOn, ExtendsItself
  <1>12. Fits(cmd[p], r, Gone', content, Named') /\ GoesTo(cmd[p], r, Now', crashes)
    BY <1>4, <1>5, <1>6, <1>11 DEF Fits, GoesTo
  <1> QED
    BY <1>2, <1>3, <1>4, <1>7, <1>9, <1>10, <1>12, WriteGoesOn

\* The process is gone, killed or not; what it wrote stays.
LEMMA ProcessGone ==
  ASSUME IInv, UndoUndisturbed, UndoInv, NEW p \in Proc, Exit(p) \/ Crash(p) PROVE UndoInv'
  <1>1. /\ cmd' = [cmd EXCEPT ![p] = "idle"] /\ lock' = (IF lock = p THEN None ELSE lock)
        /\ UNCHANGED <<content, store, blobs, views, epoch, oplog, redo>>
    BY DEF Exit, Crash, bounds
  <1>2. cmd[p] # "idle"
    BY DEF Exit, Crash, UndoInv
  <1>3. todo'[p] = <<>> /\ \A r \in Proc : r # p => todo'[r] = todo[r]
    BY DEF Exit, Crash, IInv, Plans
  <1>4. cmd'[p] = "idle" /\ \A r \in Proc : r # p => cmd'[r] = cmd[r]
    BY <1>1 DEF UndoInv, LockHeld
  <1>5. \A r \in Proc : cmd'[r] = "idle" /\ todo'[r] = <<>>
    BY <1>2, <1>3, <1>4, OneUnderWay DEF UndoInv
  <1>6. Now' = Now /\ Named' = Named /\ LogNamesViews'
    BY <1>1, SameNow
  <1>7. Gone' = Gone /\ \A x : BytesOf(x)' = BytesOf(x)
    BY <1>1 DEF Gone, BytesOf
  <1>8. NothingGone'
    BY <1>1, <1>7 DEF UndoInv, NothingGone
  <1>9. Settled'
    <2>1. CASE Exit(p)
      <3>1. crashes' = crashes /\ \A r \in Proc : todo[r] = <<>>
        BY <1>2, <2>1, OneUnderWay DEF Exit, bounds, UndoInv
      <3> QED
        BY <1>6, <3>1 DEF UndoInv, Settled
    <2>2. CASE Crash(p)
      <3>1. crashes' # 0
        BY <2>2 DEF Crash, UndoInv
      <3> QED
        BY <3>1 DEF Settled
    <2> QED
      BY <2>1, <2>2
  <1>10. LockHeld'
    BY <1>1, <1>5 DEF LockHeld, UndoInv, Locked
  <1>11. crashes' \in Nat
    BY DEF Exit, Crash, bounds, UndoInv
  <1> QED
    BY <1>5, <1>6, <1>8, <1>9, <1>10, <1>11 DEF UndoInv, Fits

\* Nothing but the working directory changes.
LEMMA OnlyDirectory ==
  ASSUME UndoInv, UNCHANGED <<content, store, blobs, views, epoch, oplog, redo, lock, cmd, todo, crashes>>
  PROVE  UndoInv'
  <1>1. Now' = Now /\ Named' = Named /\ LogNamesViews'
    BY SameNow
  <1>2. Gone' = Gone /\ \A x : BytesOf(x)' = BytesOf(x)
    BY DEF Gone, BytesOf
  <1>3. NothingGone'
    BY <1>2 DEF UndoInv, NothingGone
  <1>4. Settled' /\ LockHeld' /\ crashes' \in Nat
    BY <1>1 DEF UndoInv, Settled, LockHeld
  <1> QED
    BY <1>1, <1>2, <1>3, <1>4 DEF UndoInv

\* Every write.
LEMMA WritesGoOn ==
  ASSUME IInv, Counted, UndoUndisturbed, UndoInv, NEW p \in Proc, Write(p) PROVE UndoInv'
  <1>1. ~SetEpoch(p) /\ ~RemoveChange(p) /\ ~RemoveBlobs(p) /\ ~Hang(p)
    <2> SUFFICES ASSUME NEW kind \in {"epoch", "unstore", "gc", "hang"}, Doing(p, kind) PROVE FALSE
      BY DEF SetEpoch, RemoveChange, RemoveBlobs, Hang
    <2>1. Head(todo[p]).w = kind /\ SimpleWrite(Head(todo[p]), Gone, content, Named)
      BY SimpleHere
    <2> QED
      BY <2>1 DEF SimpleWrite
  <1> QED
    BY <1>1, CopyBegins, CopyEnds, QuietGoesOn, ViewGoesOn, LogGoesThrough, ProcessGone DEF Write

\* An empty repository.
LEMMA InitGoesOn == ASSUME Init PROVE UndoInv
  <1>1. IsSeq(<<>>) /\ Len(<<>>) = 0 /\ DOMAIN <<>> = {}
    BY DEF IsSeq, Range
  <1>2. Now.views = views /\ Now.log = <<>> /\ Now.redo = <<>> /\ DOMAIN views = View
    BY DEF Init, Now
  <1>3. Consistent(Now)
    BY <1>1, <1>2 DEF Consistent
  <1>4. Settled
    BY <1>3 DEF Settled
  <1>5. LogNamesViews
    BY <1>1 DEF Init, LogNamesViews
  <1>6. NothingGone
    BY <1>1 DEF Init, NothingGone, Backwards
  <1>7. LockHeld
    BY DEF Init, LockHeld, Locked
  <1> QED
    BY <1>4, <1>5, <1>6, <1>7 DEF Init, UndoInv, Fits

-----------------------------------------------------------------------------
(* The commands, for undo and redo.                                           *)

\* Where a command goes if log and views agree when it begins.
Leaves(c, q) ==
  \E t : Ends(q, Now, t) /\ (Consistent(Now) => Consistent(t)) /\ (c = "undo" => Undone(t))

\* A command begins when nobody is under way.
LEMMA BeginGoesOn ==
  ASSUME IInv, UndoUndisturbed, UndoInv, NEW p \in Proc, cmd[p] = "idle", NEW c, NEW q, Begin(p, c, q),
         content' = content \/ \E change : Learn(change) /\ change.deps \subseteq Found,
         Fits(c, q, Gone, content', Named), Leaves(c, q)
  PROVE  UndoInv'
  <1>1. /\ UNCHANGED <<store, blobs, views, epoch, oplog, redo, crashes>> /\ c \in Commands
        /\ cmd' = [cmd EXCEPT ![p] = c] /\ todo' = [todo EXCEPT ![p] = q] /\ (c \in Locked => lock = None)
    BY DEF Begin, acquire_lock
  <1>2. \A r \in Proc : cmd[r] = "idle" /\ todo[r] = <<>>
    <2>1. ASSUME NEW r \in Proc, cmd[r] # "idle" PROVE FALSE
      <3>1. cmd[r] \in Commands /\ (cmd[r] \in Locked => lock = r)
        BY <2>1 DEF UndoInv, LockHeld
      <3>2. c \in Locked => lock # r
        BY <1>1, RepositoryAssumption
      <3> QED
        BY <1>1, <2>1, <3>1, <3>2 DEF UndoUndisturbed
    <2> QED
      BY <2>1 DEF UndoInv
  <1>3. /\ cmd'[p] = c /\ todo'[p] = q
        /\ \A r \in Proc : r # p => cmd'[r] = "idle" /\ todo'[r] = <<>>
    BY <1>1, <1>2 DEF UndoInv, LockHeld, IInv, Plans
  <1>4. Now' = Now /\ Named' = Named /\ LogNamesViews' /\ Gone' = Gone
    BY <1>1, SameNow DEF Gone
  <1>5. crashes = 0 => Consistent(Now)
    BY <1>2 DEF UndoInv, Settled
  <1>6. Settled'
    BY <1>1, <1>4, <1>5 DEF Settled
  <1>7. GoesTo(c, q, Now', crashes')
    BY <1>1, <1>4, <1>5 DEF Leaves, GoesTo
  <1>8. NothingGone'
    <2>1. CASE content' = content
      <3>1. \A x : BytesOf(x)' = BytesOf(x)
        BY <2>1 DEF BytesOf
      <3> QED
        BY <1>1, <1>4, <2>1, <3>1 DEF UndoInv, NothingGone
    <2>2. ASSUME NEW change, Learn(change), change.deps \subseteq Found, content' # content PROVE NothingGone'
      <3>1. content' = Append(content, change)
        BY <2>2 DEF Learn
      <3>2. PICK n : n = Len(content)
        OBVIOUS
      <3>3. n \in Nat /\ DOMAIN content = 1..n /\ DOMAIN content' = 1..(n + 1) /\ content'[n + 1] = change
            /\ \A x \in 1..n : content'[x] = content[x]
        <4> DEFINE S == Range(content) \cup {change}
        <4>1. content \in Seq(S) /\ change \in S
          BY DEF IInv, Rooted, IsSeq
        <4> HIDE DEF S
        <4> QED
          BY <3>1, <3>2, <4>1
      <3>4. Found \subseteq 1..n /\ store \subseteq Found
        BY <3>3 DEF IInv, Rooted, Ids, Found
      <3>5. Backwards(content')
        <4> SUFFICES ASSUME NEW x \in 1..(n + 1) PROVE content'[x].deps \subseteq 1..(x - 1)
          BY <3>3 DEF Backwards
        <4>1. CASE x \in 1..n
          BY <3>3, <4>1 DEF UndoInv, NothingGone, Backwards
        <4>2. CASE x = n + 1
          <5>1. x - 1 = n
            BY <3>3, <4>2
          <5> QED
            BY <2>2, <3>3, <3>4, <4>2, <5>1
        <4> QED
          BY <3>3, <4>1, <4>2
      <3>6. \A x \in store : BytesOf(x)' = BytesOf(x)
        BY <3>3, <3>4 DEF BytesOf
      <3> QED
        BY <1>1, <1>4, <3>5, <3>6 DEF UndoInv, NothingGone
    <2> QED
      BY <2>1, <2>2
  <1>9. LockHeld' /\ crashes' \in Nat
    BY <1>1, BeginLocks DEF UndoInv
  <1>10. ASSUME NEW r \in Proc
         PROVE  /\ cmd'[r] \in Commands \cup {"idle"}
                /\ cmd'[r] = "idle" => todo'[r] = <<>>
                /\ Fits(cmd'[r], todo'[r], Gone', content', Named')
                /\ cmd'[r] # "idle" => GoesTo(cmd'[r], todo'[r], Now', crashes')
    <2>1. CASE r = p
      <3>1. c # "idle"
        BY <1>1, Marks
      <3> QED
        BY <1>1, <1>3, <1>4, <1>7, <2>1, <3>1
    <2>2. CASE r # p
      BY <1>3, <2>2 DEF Fits
    <2> QED
      BY <2>1, <2>2
  <1> QED
    BY <1>4, <1>6, <1>8, <1>9, <1>10 DEF UndoInv

\* ... on its way.
LEMMA BeginOnWay ==
  ASSUME IInv, UndoUndisturbed, UndoInv, NEW p \in Proc, cmd[p] = "idle", NEW c, NEW q, Begin(p, c, q),
         content' = content \/ \E change : Learn(change) /\ change.deps \subseteq Found,
         NEW t, Way(q, Gone, content', Named, Now, t),
         Consistent(Now) => Consistent(t), c = "undo" => Undone(t)
  PROVE  UndoInv'
  <1>1. Fits(c, q, Gone, content', Named)
    BY DEF Fits, Way
  <1>2. Leaves(c, q)
    BY DEF Leaves, Way
  <1> QED
    BY <1>1, <1>2, BeginGoesOn

\* Without rewrites every stored history can be checked out, and its bytes are there.
LEMMA TreesThere ==
  ASSUME IInv, UndoInv, NEW hs, hs \subseteq Found
  PROVE  checkout(hs) = "ok" /\ TreeOf(hs).blob \notin Gone
  <1>1. checkout(hs) = "ok"
    BY Checkable DEF IInv, UndoInv, NothingGone
  <1>2. Found = store
    BY DEF UndoInv, NothingGone, Found
  <1> DEFINE B == {BytesOf(x) : x \in store} \cup {Absent}
  <1>3. Absent \in B /\ \A x \in store : deps(x) \subseteq store /\ BytesOf(x) \in B \cup {Keep}
    BY <1>2 DEF IInv, Rooted
  <1>4. \A b \in B : b \notin Gone
    BY Marks DEF UndoInv, NothingGone, Gone
  <1>5. IsSeq(content) /\ Backwards(content) /\ store \subseteq Ids
    BY <1>2 DEF IInv, Rooted, UndoInv, NothingGone
  <1> HIDE DEF B
  <1>6. TreeOf(hs).blob \in B
    BY <1>2, <1>3, <1>5, TreeBytes
  <1> QED
    BY <1>1, <1>4, <1>6

\* hydrate_heads goes round for no command.
LEMMA NeverHangs == ASSUME UndoInv, NEW p \in Proc PROVE ~BeginHung(p)
  <1> SUFFICES ASSUME NEW hs, hydrate_heads(hs) = "hang" PROVE FALSE
    BY Zenon DEF BeginHung
  <1>1. \A x : ~OnEpochCycle(x)
    BY Zenon DEF OnEpochCycle, UndoInv, NothingGone
  <1> QED
    BY <1>1 DEF hydrate_heads

\* A plan that begins with the copy of a file that has the bytes v.
Copying(q, v, G, ch, N, s, t) ==
  /\ IsSeq(q) /\ q # <<>> /\ Head(q) = [w |-> "blob", v |-> v]
  /\ Simple(Tail(q), G \ {v}, ch, N) /\ Ends(q, s, t)
Opening(q, v, G, ch, N, s, t) == IF v \in Bytes THEN Copying(q, v, G, ch, N, s, t) ELSE Way(q, G, ch, N, s, t)

\* The copy of the file at the start of a plan changes no view and no list.
LEMMA OpeningWith ==
  ASSUME NEW v, NEW G, NEW ch, NEW N, NEW s PROVE Opening(write_blob(v), v, G, ch, N, s, s)
  <1>1. CASE v \in Bytes
    <2> DEFINE w == [w |-> "blob", v |-> v]
               S == {w}
    <2>1. w \in S /\ Effect(w, s) = s
      BY DEF Effect
    <2>2. write_blob(v) = <<w>>
      BY <1>1 DEF write_blob
    <2> HIDE DEF w, S
    <2>3. <<w>> \in Seq(S) /\ <<w>> # <<>> /\ Head(<<w>>) = w /\ Tail(<<w>>) = <<>>
      BY <2>1
    <2>4. IsSeq(<<w>>)
      BY <2>3, SeqHasRange
    <2>5. Ends(<<w>>, s, s)
      BY <2>1, EndsOne
    <2>6. Simple(<<>>, G \ {v}, ch, N)
      BY WayNone DEF Way
    <2> QED
      BY <1>1, <2>2, <2>3, <2>4, <2>5, <2>6 DEF Opening, Copying, w
  <1>2. CASE v \notin Bytes
    BY <1>2, WayNone DEF Opening, write_blob
  <1> QED
    BY <1>1, <1>2

\* After the copy its blob is there, and what follows may count on it.
LEMMA OpeningThen ==
  ASSUME NEW v, NEW G, G \subseteq Bytes, NEW ch, NEW N, NEW s, NEW t, NEW u, NEW a, NEW b,
         Opening(a, v, G, ch, N, s, t), Way(b, G \ {v}, ch, N, t, u)
  PROVE  Opening(a \o b, v, G, ch, N, s, u)
  <1>1. CASE v \notin Bytes
    <2>1. G \ {v} = G
      BY <1>1
    <2> QED
      BY <1>1, <2>1, WayBoth DEF Opening
  <1>2. CASE v \in Bytes
    <2> DEFINE S == Range(a) \cup Range(b)
               H == G \ {v}
    <2>1. /\ IsSeq(a) /\ a # <<>> /\ Head(a) = [w |-> "blob", v |-> v]
          /\ Simple(Tail(a), H, ch, N) /\ Ends(a, s, t) /\ IsSeq(b) /\ Ends(b, t, u) /\ Simple(b, H, ch, N)
      BY <1>2 DEF Opening, Copying, Way, Simple
    <2>2. a \in Seq(S) /\ b \in Seq(S)
      BY <2>1 DEF IsSeq
    <2> HIDE DEF S, H
    <2>3. /\ a \o b \in Seq(S) /\ a \o b # <<>> /\ Head(a \o b) = Head(a)
          /\ Tail(a \o b) = Tail(a) \o b
      BY <2>1, <2>2
    <2>4. IsSeq(a \o b)
      BY <2>3, SeqHasRange
    <2>5. Ends(a \o b, s, u)
      BY <2>1, EndsBoth
    <2>6. Simple(Tail(a) \o b, H, ch, N)
      <3> DEFINE r == Tail(a)
                 T == Range(r) \cup Range(b)
      <3>1. r \in Seq(T) /\ b \in Seq(T) /\ \A w \in T : SimpleWrite(w, H, ch, N)
        BY <2>1 DEF Simple, IsSeq
      <3> HIDE DEF r, T
      <3>2. r \o b \in Seq(T)
        BY <3>1
      <3>3. Simple(r \o b, H, ch, N)
        BY <3>1, <3>2, SimpleSeq
      <3> QED
        BY <3>3 DEF r
    <2> QED
      BY <1>2, <2>1, <2>3, <2>4, <2>5, <2>6 DEF Opening, Copying, H
  <1> QED
    BY <1>1, <1>2

\* What a command that gives a view new heads, and logs it, ends with.
Logged(v, hs) ==
  [views |-> [views EXCEPT ![v] = hs], log |-> Append(oplog, Op(v, views[v], hs)), redo |-> <<>>]
Saved(v, hs) == [views |-> [views EXCEPT ![v] = hs], log |-> oplog, redo |-> redo]

\* Once a view is changed and the operation appended, log and views agree again.
LEMMA LoggedAgrees ==
  ASSUME IInv, NEW v \in Named, NEW hs, hs # None, Consistent(Now) PROVE Consistent(Logged(v, hs))
  <1>1. Now.views = views /\ Now.log = oplog
    BY DEF Now
  <1>2. v \in View /\ Now.views[v] # None
    BY <1>1 DEF Named
  <1>3. Consistent([views |-> [Now.views EXCEPT ![v] = hs],
                    log |-> Append(Now.log, Op(v, Now.views[v], hs)), redo |-> <<>>])
    BY <1>2, LogGoesOn
  <1> QED
    BY <1>1, <1>3 DEF Logged

\* save_view, and log_operation after it.
LEMMA SavesAndLogs ==
  ASSUME NEW G, NEW ch, NEW N, NEW v \in N, NEW hs
  PROVE  /\ Way(save_view(v, hs), G, ch, N, Now, Saved(v, hs))
         /\ Way(log_operation(v, views[v], hs), G, ch, N, Saved(v, hs), Logged(v, hs))
  <1>1. Way(save_view(v, hs), G, ch, N, Now, Saved(v, hs))
    <2>1. [views |-> [Now.views EXCEPT ![v] = hs], log |-> Now.log, redo |-> Now.redo] = Saved(v, hs)
      BY DEF Now, Saved
    <2>2. Way(save_view(v, hs), G, ch, N, Now, [views |-> [Now.views EXCEPT ![v] = hs], log |-> Now.log, redo |-> Now.redo])
      BY Ways
    <2> QED
      BY <2>1, <2>2
  <1>2. Way(log_operation(v, views[v], hs), G, ch, N, Saved(v, hs), Logged(v, hs))
    <2> DEFINE s == Saved(v, hs)
               o == Op(v, views[v], hs)
    <2>1. [views |-> s.views, log |-> Append(s.log, o), redo |-> <<>>] = Logged(v, hs)
      BY DEF Saved, Logged
    <2>2. Way(log_operation(v, views[v], hs), G, ch, N, s, [views |-> s.views, log |-> Append(s.log, o), redo |-> <<>>])
      <3> HIDE DEF s
      <3> QED
        BY WayLogs
    <2> QED
      BY <2>1, <2>2
  <1> QED
    BY <1>1, <1>2

\* A new change's id is no "none".
LEMMA IdIsSome ==
  ASSUME IInv', Counted', NEW id, id \in DOMAIN content' PROVE {id} # None
  <1>1. Len(content') \in Nat /\ DOMAIN content' = 1..Len(content')
    BY DEF IInv, Rooted, IsSeq
  <1>2. {id} \subseteq 1..MaxCommands
    BY <1>1, RepositoryAssumption DEF Counted
  <1> QED
    BY <1>2, RepositoryAssumption

\* commit_change.
LEMMA CommitGoesOn ==
  ASSUME IInv, IInv', Counted', UndoUndisturbed, UndoInv, NEW p \in Proc, cmd[p] = "idle", NEW c \in Locked, c # "undo",
         NEW d, d \subseteq Found, NEW atoms, NEW intent, Commit(p, c, d, atoms, intent)
  PROVE  UndoInv'
  <1> DEFINE change == NewChange(d, atoms, intent)
             id == IdOf(change)
             v == atoms.blob
             G == Gone
             one == write_blob(v)
             two == write_change(id)
             three == save_view(head, {id})
             four == log_operation(head, Tip, {id})
             q2 == one \o two
             q3 == q2 \o three
             q4 == q3 \o four
             t == Logged(head, {id})
  <1>1. Learn(change) /\ Begin(p, c, q4)
    BY DEF Commit
  <1>2. change.deps \subseteq Found /\ change.atoms.blob = v
    BY DEF NewChange
  <1>3. id \in DOMAIN content' /\ content'[id] = change
    BY <1>1, Learned DEF IInv, Rooted
  <1>4. {id} # None
    BY <1>3, IdIsSome
  <1>5. head \in Named /\ Tip = views[head]
    BY DEF IInv, Rooted, Tip
  <1>6. G \subseteq Bytes
    BY DEF Gone
  <1>7. Opening(one, v, G, content', Named, Now, Now)
    BY OpeningWith
  <1>8. Way(two, G \ {v}, content', Named, Now, Now)
    <2>1. content'[id].atoms.blob \notin G \ {v}
      BY <1>2, <1>3
    <2> HIDE DEF id, v, G
    <2> QED
      BY <1>3, <2>1, Ways
  <1>9. Way(three, G \ {v}, content', Named, Now, Saved(head, {id}))
    BY <1>5, SavesAndLogs
  <1>10. Way(four, G \ {v}, content', Named, Saved(head, {id}), t)
    BY <1>5, SavesAndLogs
  <1>11. Consistent(Now) => Consistent(t)
    BY <1>4, <1>5, LoggedAgrees
  <1> HIDE DEF change, id, v, one, two, three, four, q2, q3, q4, t
  <1>12. Opening(q2, v, G, content', Named, Now, Now)
    BY <1>6, <1>7, <1>8, OpeningThen DEF q2
  <1>13. Opening(q3, v, G, content', Named, Now, Saved(head, {id}))
    BY <1>6, <1>9, <1>12, OpeningThen DEF q3
  <1>14. Opening(q4, v, G, content', Named, Now, t)
    BY <1>6, <1>10, <1>13, OpeningThen DEF q4
  <1>15. CASE v \in Bytes
    <2>1. Copying(q4, v, G, content', Named, Now, t)
      BY <1>14, <1>15 DEF Opening
    <2>2. Head(q4).w = "blob" /\ Head(q4).v = v
      BY <2>1 DEF Copying
    <2>3. Fits(c, q4, Gone, content', Named)
      BY <2>1, <2>2 DEF Copying, Fits
    <2>4. Leaves(c, q4)
      BY <1>11, <2>1 DEF Copying, Leaves
    <2> QED
      BY <1>1, <1>2, <2>3, <2>4, BeginGoesOn
  <1>16. CASE v \notin Bytes
    <2>1. Way(q4, Gone, content', Named, Now, t)
      BY <1>14, <1>16 DEF Opening
    <2> QED
      BY <1>1, <1>2, <1>11, <2>1, BeginOnWay
  <1> QED
    BY <1>15, <1>16

\* snap, snapshot and fork_empty_snapshot.
LEMMA SnapGoesOn ==
  ASSUME IInv, IInv', Counted', UndoUndisturbed, UndoInv, NEW p \in Proc, cmd[p] = "idle", Snap(p) \/ Fork(p)
  PROVE  UndoInv'
  <1>1. Tip \subseteq Found /\ {"snap", "fork"} \subseteq Locked
    BY TipFound DEF Locked
  <1>2. CASE Snap(p)
    <2>1. PICK intent, atoms : Commit(p, "snap", Tip, atoms, intent)
      BY <1>2 DEF Snap
    <2> QED
      BY <1>1, <2>1, CommitGoesOn
  <1>3. CASE Fork(p)
    <2>1. PICK intent : Commit(p, "fork", Tip, Untouched, intent)
      BY <1>3 DEF Fork
    <2> QED
      BY <1>1, <2>1, CommitGoesOn
  <1> QED
    BY <1>2, <1>3

\* finalize_snapshot.
LEMMA FinalizeGoesOn ==
  ASSUME IInv, IInv', Counted', UndoUndisturbed, UndoInv, NEW p \in Proc, cmd[p] = "idle", Finalize(p)
  PROVE  UndoInv'
  <1>1. PICK old \in Tip, intent \in Intent :
          LET change == NewChange(deps(old), content[old].atoms, intent)
              id == IdOf(change)
          IN  /\ Learn(change)
              /\ Begin(p, "finalize", write_change(id) \o save_view(head, {id}) \o log_operation(head, Tip, {id}))
    BY DEF Finalize
  <1>2. Tip \subseteq GraphOf(Tip)
    BY DEF Finalize
  <1>3. old \in store /\ deps(old) \subseteq Found
    BY <1>2, TipFound DEF GraphOf
  <1>4. PICK change : change = NewChange(deps(old), content[old].atoms, intent)
    OBVIOUS
  <1> DEFINE id == IdOf(change)
             G == Gone
             one == write_change(id)
             two == save_view(head, {id})
             three == log_operation(head, Tip, {id})
             q2 == one \o two
             q == q2 \o three
             t == Logged(head, {id})
  <1>5. Learn(change) /\ Begin(p, "finalize", q)
    BY <1>1, <1>4
  <1>6. change.deps \subseteq Found /\ change.atoms.blob \notin G
    BY <1>3, <1>4 DEF NewChange, UndoInv, NothingGone, BytesOf
  <1>7. id \in DOMAIN content' /\ content'[id] = change
    BY <1>5, Learned DEF IInv, Rooted
  <1>8. {id} # None
    BY <1>7, IdIsSome
  <1>9. head \in Named /\ Tip = views[head]
    BY DEF IInv, Rooted, Tip
  <1>10. Way(one, G, content', Named, Now, Now)
    <2>1. content'[id].atoms.blob \notin G
      BY <1>6, <1>7
    <2> HIDE DEF id, G
    <2> QED
      BY <1>7, <2>1, Ways
  <1>11. Way(two, G, content', Named, Now, Saved(head, {id}))
    BY <1>9, SavesAndLogs
  <1>12. Way(three, G, content', Named, Saved(head, {id}), t)
    BY <1>9, SavesAndLogs
  <1>13. Consistent(Now) => Consistent(t)
    BY <1>8, <1>9, LoggedAgrees
  <1> HIDE DEF id, one, two, three, q2, q, t
  <1>14. Way(q2, G, content', Named, Now, Saved(head, {id}))
    BY <1>10, <1>11, WayBoth DEF q2
  <1>15. Way(q, Gone, content', Named, Now, t)
    BY <1>12, <1>14, WayBoth DEF q
  <1> QED
    BY <1>5, <1>6, <1>13, <1>15, BeginOnWay

\* abandon_heads.
LEMMA AbandonGoesOn ==
  ASSUME IInv, Counted, UndoUndisturbed, UndoInv, NEW p \in Proc, cmd[p] = "idle", Abandon(p) PROVE UndoInv'
  <1>1. PICK old \in Tip \cap store :
          Begin(p, "abandon",
                save_view(head, deps(old))
                \o Then(deps(old), write_state(TreeOf(deps(old)), <<>>)
                                   \o log_operation(head, Tip, deps(old))))
    BY DEF Abandon
  <1> DEFINE hs == deps(old)
             G == Gone
             save == save_view(head, hs)
             write == write_state(TreeOf(hs), <<>>)
             log == log_operation(head, Tip, hs)
             d1 == write \o log
             d2 == Then(hs, d1)
             q == save \o d2
             s == Saved(head, hs)
             t == Logged(head, hs)
  <1>2. Begin(p, "abandon", q) /\ content' = content
    BY <1>1 DEF Abandon
  <1>3. hs \subseteq Found /\ hs # None
    BY TipFound, HeadsAreSome DEF IInv
  <1>4. head \in Named /\ Tip = views[head]
    BY DEF IInv, Rooted, Tip
  <1> HIDE DEF hs
  <1>5. checkout(hs) = "ok" /\ TreeOf(hs).blob \notin G
    BY <1>3, TreesThere
  <1>6. Way(save, G, content', Named, Now, s) /\ Way(log, G, content', Named, s, t)
    BY <1>4, SavesAndLogs
  <1>7. Way(write, G, content', Named, s, s)
    BY <1>5, Ways
  <1>8. Consistent(Now) => Consistent(t)
    BY <1>3, <1>4, LoggedAgrees
  <1>9. d2 = d1
    BY <1>5 DEF Then
  <1> HIDE DEF save, write, log, d1, d2, q, s, t
  <1>10. Way(d2, G, content', Named, s, t)
    BY <1>6, <1>7, <1>9, WayBoth DEF d1
  <1>11. Way(q, Gone, content', Named, Now, t)
    BY <1>6, <1>10, WayBoth DEF q
  <1> QED
    BY <1>2, <1>8, <1>11, BeginOnWay

\* op_restore and op_revert.
LEMMA ApplyGoesOn ==
  ASSUME IInv, Counted, UndoUndisturbed, UndoInv, NEW p \in Proc, cmd[p] = "idle", NEW c, c # "undo",
         NEW next, next \subseteq Found, ApplyOperationHeads(p, c, next)
  PROVE  UndoInv'
  <1> DEFINE back == save_view(head, Tip) \o write_state(TreeOf(Tip), <<>>)
             G == Gone
             save == save_view(head, next)
             write == write_state(TreeOf(next), back)
             log == log_operation(head, Tip, next)
             d1 == write \o log
             d2 == Then(next, d1)
             q == save \o d2
             s == Saved(head, next)
             t == Logged(head, next)
  <1>1. Begin(p, c, q) /\ content' = content
    BY DEF ApplyOperationHeads
  <1> HIDE DEF back
  <1>2. next # None
    BY HeadsAreSome DEF IInv
  <1>3. head \in Named /\ Tip = views[head]
    BY DEF IInv, Rooted, Tip
  <1>4. checkout(next) = "ok" /\ TreeOf(next).blob \notin G
    BY TreesThere
  <1>5. Way(save, G, content', Named, Now, s) /\ Way(log, G, content', Named, s, t)
    BY <1>3, SavesAndLogs
  <1>6. Way(write, G, content', Named, s, s)
    BY <1>4, Ways
  <1>7. Consistent(Now) => Consistent(t)
    BY <1>2, <1>3, LoggedAgrees
  <1>8. d2 = d1
    BY <1>4 DEF Then
  <1> HIDE DEF save, write, log, d1, d2, q, s, t
  <1>9. Way(d2, G, content', Named, s, t)
    BY <1>5, <1>6, <1>8, WayBoth DEF d1
  <1>10. Way(q, Gone, content', Named, Now, t)
    BY <1>5, <1>9, WayBoth DEF q
  <1> QED
    BY <1>1, <1>7, <1>10, BeginOnWay

\* op restore and op revert log what they do to each view.
LEMMA OperationsGoOn ==
  ASSUME IInv, Counted, UndoUndisturbed, UndoInv, NEW p \in Proc, cmd[p] = "idle", OpRestore(p) \/ OpRevert(p)
  PROVE  UndoInv'
  <1>1. \A i \in DOMAIN oplog : oplog[i].after \subseteq Found /\ oplog[i].before \subseteq Found
    <2>1. DOMAIN oplog = 1..Len(oplog)
      BY DEF IInv, Rooted, IsSeq
    <2> QED
      BY <2>1 DEF IInv, Rooted, OpLeads
  <1> QED
    BY <1>1, ApplyGoesOn DEF OpRestore, OpRevert

\* create_view.
LEMMA CreateViewGoesOn ==
  ASSUME IInv, UndoUndisturbed, UndoInv, NEW p \in Proc, cmd[p] = "idle", CreateView(p) PROVE UndoInv'
  <1>1. PICK v \in View : views[v] = None /\ Begin(p, "view", save_view(v, Tip)) /\ content' = content
    BY DEF CreateView
  <1> DEFINE q == save_view(v, Tip)
             t == [views |-> [Now.views EXCEPT ![v] = Tip], log |-> Now.log, redo |-> Now.redo]
  <1>2. Way(q, Gone, content', Named, Now, t)
    BY Ways
  <1>3. Consistent(Now) => Consistent(t)
    <2>1. Now.views[v] = None
      BY <1>1 DEF Now
    <2> QED
      BY <2>1, ViewAdded
  <1> HIDE DEF q, t
  <1>4. Begin(p, "view", q)
    BY <1>1 DEF q
  <1> QED
    BY <1>1, <1>2, <1>3, <1>4, BeginOnWay

\* switch_view.
LEMMA SwitchViewGoesOn ==
  ASSUME IInv, UndoUndisturbed, UndoInv, NEW p \in Proc, cmd[p] = "idle", SwitchView(p) PROVE UndoInv'
  <1>1. PICK v \in View : /\ views[v] # None /\ content' = content
                          /\ Begin(p, "switch", write_state(TreeOf(views[v]), <<>>) \o set_head(v))
    BY DEF SwitchView
  <1> DEFINE write == write_state(TreeOf(views[v]), <<>>)
             set == set_head(v)
             q == write \o set
  <1>2. views[v] \subseteq Found
    BY <1>1, TipFound DEF Named
  <1>3. TreeOf(views[v]).blob \notin Gone
    BY <1>2, TreesThere
  <1>4. Way(write, Gone, content', Named, Now, Now) /\ Way(set, Gone, content', Named, Now, Now)
    BY <1>3, Ways
  <1> HIDE DEF write, set
  <1>5. Way(q, Gone, content', Named, Now, Now)
    BY <1>4, WayBoth
  <1> HIDE DEF q
  <1>6. Begin(p, "switch", q)
    BY <1>1 DEF q, write, set
  <1> QED
    BY <1>1, <1>5, <1>6, BeginOnWay

\* undo: the last operation leaves the log for the redo stack.
LEMMA UndoGoesOn ==
  ASSUME IInv, Counted, UndoUndisturbed, UndoInv, NEW p \in Proc, cmd[p] = "idle", Undo(p) PROVE UndoInv'
  <1> DEFINE op == Last(oplog)
             now == views[op.view]
             drop == IF TreeOf(now).blob # Absent /\ TreeOf(op.before).blob = Absent
                     THEN remove_file ELSE <<>>
             write == write_state(TreeOf(op.before), <<>>)
             redone == push_redo(op)
             d1 == drop \o write
             d2 == d1 \o redone
             d3 == Then(op.before, d2)
             save == save_view(op.view, op.before)
             d4 == save \o d3
             d5 == Then(now, d4)
             q == pop \o d5
             vs == [views EXCEPT ![op.view] = op.before]
             s1 == [views |-> views, log |-> Front(oplog), redo |-> redo]
             s2 == [views |-> vs, log |-> Front(oplog), redo |-> redo]
             t == [views |-> vs, log |-> Front(oplog), redo |-> Append(redo, op)]
             G == Gone
  <1>1. oplog # <<>> /\ Begin(p, "undo", q) /\ content' = content
    BY Zenon DEF Undo
  <1>2. OpLeads(op, Found)
    BY <1>1, LastLeads DEF IInv, Rooted
  <1>3. op.view \in View /\ op.before \subseteq Found /\ op.before # None
    BY <1>2, HeadsAreSome DEF OpLeads, IInv
  <1>4. op.view \in Named
    <2>1. Len(oplog) \in 1..Len(oplog) /\ op = oplog[Len(oplog)]
      BY <1>1, OneLess DEF IInv, Rooted
    <2> QED
      BY <2>1 DEF UndoInv, LogNamesViews
  <1>5. now \subseteq Found
    BY <1>4, TipFound
  <1>6. checkout(now) = "ok" /\ checkout(op.before) = "ok" /\ TreeOf(op.before).blob \notin G
    BY <1>3, <1>5, TreesThere
  <1>7. IsSeq(redo) /\ IsSeq(oplog) /\ DOMAIN views = View
    BY DEF IInv, Rooted
  <1>8. Consistent(Now) => Consistent(t)
    <2> SUFFICES ASSUME Consistent(Now) PROVE Consistent(t)
      OBVIOUS
    <2>1. Now.views = views /\ Now.log = oplog /\ Now.redo = redo
      BY DEF Now
    <2>2. Now.log # <<>> /\ op = Last(Now.log)
      BY <1>1, <2>1
    <2> HIDE DEF op
    <2>3. Consistent([views |-> [Now.views EXCEPT ![op.view] = op.before],
                      log |-> Front(Now.log), redo |-> Append(Now.redo, op)])
      BY <1>3, <2>2, LastUndone
    <2> QED
      BY <2>1, <2>3
  <1> HIDE DEF op
  <1>9. Undone(t)
    <2>1. Append(redo, op) # <<>> /\ Last(Append(redo, op)) = op
      BY <1>7, OneMore
    <2>2. vs[op.view] = op.before
      BY <1>3, <1>7
    <2> HIDE DEF vs
    <2> QED
      BY <2>1, <2>2 DEF Undone
  <1> HIDE DEF vs
  <1>10. Way(pop, G, content', Named, Now, s1)
    <2>1. s1 = [views |-> Now.views, log |-> Front(Now.log), redo |-> Now.redo]
      BY DEF Now
    <2>2. Way(pop, G, content', Named, Now, [views |-> Now.views, log |-> Front(Now.log), redo |-> Now.redo])
      BY Ways
    <2> QED
      BY <2>1, <2>2
  <1>11. Way(save, G, content', Named, s1, s2)
    <2>1. s2 = [views |-> [s1.views EXCEPT ![op.view] = op.before], log |-> s1.log, redo |-> s1.redo]
      BY DEF vs
    <2> HIDE DEF s1
    <2>2. Way(save, G, content', Named, s1, [views |-> [s1.views EXCEPT ![op.view] = op.before], log |-> s1.log, redo |-> s1.redo])
      BY Ways
    <2> QED
      BY <2>1, <2>2
  <1>12. Way(drop, G, content', Named, s2, s2) /\ Way(write, G, content', Named, s2, s2)
    BY <1>6, Ways, WayNone
  <1>13. Way(redone, G, content', Named, s2, t)
    <2>1. \A i \in 1..Len(Append(redo, op)) : Append(redo, op)[i].view \in Named
      <3>1. \A i \in 1..Len(Append(redo, op)) :
               Append(redo, op)[i] = op \/ (i \in 1..Len(redo) /\ Append(redo, op)[i] = redo[i])
        BY <1>7, OneMore
      <3> QED
        BY <1>4, <3>1 DEF UndoInv, LogNamesViews
    <2>2. t = [views |-> s2.views, log |-> s2.log, redo |-> Append(redo, op)]
      OBVIOUS
    <2> HIDE DEF s2, t
    <2>3. Way(save_redo(Append(redo, op)), G, content', Named, s2, [views |-> s2.views, log |-> s2.log, redo |-> Append(redo, op)])
      BY <2>1, Ways
    <2> QED
      BY <2>2, <2>3 DEF push_redo
  <1>14. d5 = d4 /\ d3 = d2
    BY <1>6 DEF Then
  <1> HIDE DEF drop, write, redone, d1, d2, d3, save, d4, d5, q, s1, s2, t
  <1>15. Way(d1, G, content', Named, s2, s2)
    BY <1>12, WayBoth DEF d1
  <1>16. Way(d3, G, content', Named, s2, t)
    BY <1>13, <1>14, <1>15, WayBoth DEF d2
  <1>17. Way(d5, G, content', Named, s1, t)
    BY <1>11, <1>14, <1>16, WayBoth DEF d4
  <1>18. Way(q, Gone, content', Named, Now, t)
    BY <1>10, <1>17, WayBoth DEF q
  <1> QED
    BY <1>1, <1>8, <1>9, <1>18, BeginOnWay

\* redo: it goes back to the log.
LEMMA RedoGoesOn ==
  ASSUME IInv, Counted, UndoUndisturbed, UndoInv, NEW p \in Proc, cmd[p] = "idle", Redo(p) PROVE UndoInv'
  <1> DEFINE op == Last(redo)
             back == save_view(op.view, op.before) \o write_state(TreeOf(op.before), <<>>)
             save == save_view(op.view, op.after)
             write == write_state(TreeOf(op.after), back)
             log == append(op)
             rest == save_redo(Front(redo))
             d1 == write \o log
             d2 == d1 \o rest
             d3 == Then(op.after, d2)
             q == save \o d3
             vs == [views EXCEPT ![op.view] = op.after]
             s1 == [views |-> vs, log |-> oplog, redo |-> redo]
             s2 == [views |-> vs, log |-> Append(oplog, op), redo |-> redo]
             t == [views |-> vs, log |-> Append(oplog, op), redo |-> Front(redo)]
             G == Gone
  <1>1. redo # <<>> /\ Begin(p, "redo", q) /\ content' = content
    BY Zenon DEF Redo
  <1>2. OpLeads(op, Found)
    BY <1>1, LastLeads DEF IInv, Rooted
  <1>3. op.view \in View /\ op.after \subseteq Found /\ op.after # None
    BY <1>2, HeadsAreSome DEF OpLeads, IInv
  <1>4. IsSeq(redo) /\ IsSeq(oplog) /\ DOMAIN views = View
    BY DEF IInv, Rooted
  <1>5. op.view \in Named
    <2>1. Len(redo) \in 1..Len(redo) /\ op = redo[Len(redo)]
      BY <1>1, <1>4, OneLess
    <2> QED
      BY <2>1 DEF UndoInv, LogNamesViews
  <1>6. checkout(op.after) = "ok" /\ TreeOf(op.after).blob \notin G
    BY <1>3, TreesThere
  <1>7. Consistent(Now) => Consistent(t)
    <2> SUFFICES ASSUME Consistent(Now) PROVE Consistent(t)
      OBVIOUS
    <2>1. Now.views = views /\ Now.log = oplog /\ Now.redo = redo
      BY DEF Now
    <2>2. Now.redo # <<>> /\ op = Last(Now.redo)
      BY <1>1, <2>1
    <2> HIDE DEF op
    <2>3. Consistent([views |-> [Now.views EXCEPT ![op.view] = op.after],
                      log |-> Append(Now.log, op), redo |-> Front(Now.redo)])
      BY <1>3, <2>2, LastRedone
    <2> QED
      BY <2>1, <2>3
  <1> HIDE DEF op, vs, back
  <1>8. Way(save, G, content', Named, Now, s1)
    <2>1. s1 = [views |-> [Now.views EXCEPT ![op.view] = op.after], log |-> Now.log, redo |-> Now.redo]
      BY DEF Now, vs
    <2>2. Way(save, G, content', Named, Now, [views |-> [Now.views EXCEPT ![op.view] = op.after], log |-> Now.log, redo |-> Now.redo])
      BY Ways
    <2> QED
      BY <2>1, <2>2
  <1>9. Way(write, G, content', Named, s1, s1)
    BY <1>6, Ways
  <1>10. Way(log, G, content', Named, s1, s2)
    <2>1. s2 = [views |-> s1.views, log |-> Append(s1.log, op), redo |-> s1.redo]
      OBVIOUS
    <2> HIDE DEF s1, s2
    <2>2. Way(append(op), G, content', Named, s1, [views |-> s1.views, log |-> Append(s1.log, op), redo |-> s1.redo])
      BY <1>5, Ways
    <2> QED
      BY <2>1, <2>2
  <1>11. Way(rest, G, content', Named, s2, t)
    <2>1. \A i \in 1..Len(Front(redo)) : Front(redo)[i].view \in Named
      <3>1. \A i \in 1..Len(Front(redo)) : i \in 1..Len(redo) /\ Front(redo)[i] = redo[i]
        BY <1>1, <1>4, OneLess
      <3> QED
        BY <3>1 DEF UndoInv, LogNamesViews
    <2>2. t = [views |-> s2.views, log |-> s2.log, redo |-> Front(redo)]
      OBVIOUS
    <2> HIDE DEF s2, t
    <2>3. Way(save_redo(Front(redo)), G, content', Named, s2, [views |-> s2.views, log |-> s2.log, redo |-> Front(redo)])
      BY <2>1, Ways
    <2> QED
      BY <2>2, <2>3
  <1>12. d3 = d2
    BY <1>6 DEF Then
  <1> HIDE DEF save, write, log, rest, d1, d2, d3, q, s1, s2, t
  <1>13. Way(d1, G, content', Named, s1, s2)
    BY <1>9, <1>10, WayBoth DEF d1
  <1>14. Way(d3, G, content', Named, s1, t)
    BY <1>11, <1>12, <1>13, WayBoth DEF d2
  <1>15. Way(q, Gone, content', Named, Now, t)
    BY <1>8, <1>14, WayBoth DEF q
  <1> QED
    BY <1>1, <1>7, <1>15, BeginOnWay

\* Every command, of those that are issued.
LEMMA CommandGoesOn ==
  ASSUME IInv, Counted, IInv', Counted', UndoUndisturbed, UndoInv, NEW p \in Proc, Command(p) PROVE UndoInv'
  <1>1. cmd[p] = "idle"
    BY DEF Command
  <1>2. ~Amend(p) /\ ~Gc(p) /\ ~Compact(p)
    <2>1. \A c \in {"amend", "gc", "compact"} : \A q : ~Begin(p, c, q)
      BY DEF Begin, UndoUndisturbed
    <2>2. ~Amend(p)
      BY <2>1 DEF Amend
    <2>3. ~Gc(p)
      BY <2>1 DEF Gc
    <2>4. ~Compact(p)
      BY <2>1, Zenon DEF Compact
    <2> QED
      BY <2>2, <2>3, <2>4
  <1> QED
    BY <1>1, <1>2, NeverHangs, SnapGoesOn, FinalizeGoesOn, UndoGoesOn, RedoGoesOn, AbandonGoesOn,
       OperationsGoOn, CreateViewGoesOn, SwitchViewGoesOn DEF Command

\* For any number of crashes, log, views, redo stack and plans agree in every state.
LEMMA UndoInvHolds == ASSUME UndoUndisturbed PROVE Spec => [](IInv /\ Counted /\ UndoInv)
  <1> DEFINE Inv == IInv /\ Counted /\ UndoInv
  <1>1. Init => Inv
    <2>1. Init => Counted
      BY RepositoryAssumption DEF Init, Counted
    <2> QED
      BY <2>1, InitSound, InitGoesOn
  <1>2. Inv /\ [Next]_vars => Inv'
    <2> SUFFICES ASSUME Inv, [Next]_vars PROVE Inv'
      OBVIOUS
    <2>1. IInv' /\ Counted'
      BY StepSound
    <2>2. CASE UNCHANGED vars
      <3>1. UNCHANGED <<content, store, blobs, views, epoch, oplog, redo, lock, cmd, todo, crashes>>
        BY <2>2 DEF vars, bounds
      <3> QED
        BY <2>1, <3>1, OnlyDirectory
    <2>3. CASE Edit
      <3>1. UNCHANGED <<content, store, blobs, views, epoch, oplog, redo, lock, cmd, todo, crashes>>
        BY <2>3 DEF Edit
      <3> QED
        BY <2>1, <3>1, OnlyDirectory
    <2>4. ASSUME NEW p \in Proc, Command(p) PROVE UndoInv'
      BY <2>1, <2>4, CommandGoesOn
    <2>5. ASSUME NEW p \in Proc, Write(p) PROVE UndoInv'
      BY <2>5, WritesGoOn
    <2>6. ASSUME NEW p \in Proc, Crash(p) PROVE UndoInv'
      BY <2>6, ProcessGone
    <2> QED
      BY <2>1, <2>2, <2>3, <2>4, <2>5, <2>6 DEF Next
  <1> HIDE DEF Inv
  <1>3. Spec => []Inv
    BY <1>1, <1>2, PTL DEF Spec
  <1> QED
    BY <1>3 DEF Inv

\* Every undo gets to its end, undo takes back what was done last, and redo repeats
\* what was undone last (UndoIsFaithful): log, views and redo stack agree whenever no
\* command is under way, and what is left of one leads to where they agree again.
THEOREM UndoAlwaysFaithful == ASSUME UndoUndisturbed PROVE Spec => []UndoIsFaithful
  <1> DEFINE Inv == IInv /\ Counted /\ UndoInv
  <1>1. Inv => UndoIsFaithful
    <2> SUFFICES ASSUME Inv PROVE UndoIsFaithful
      OBVIOUS
    <2>1. ASSUME Quiet, crashes = 0 PROVE Consistent(Now)
      BY <2>1 DEF Quiet, UndoInv, Settled
    <2>2. LogMatchesViews /\ RedoReplays
      <3>1. CASE Quiet /\ crashes = 0
        BY <2>1, <3>1, ConsistentIsFaithful
      <3>2. CASE ~(Quiet /\ crashes = 0)
        BY <3>2 DEF LogMatchesViews, RedoReplays
      <3> QED
        BY <3>1, <3>2
    <2>3. UndoCompletes
      <3> SUFFICES ASSUME NEW p \in Proc, cmd[p] = "undo", todo[p] = <<>>
                   PROVE  redo # <<>> /\ views[Last(redo).view] = Last(redo).before
        BY DEF UndoCompletes
      <3>1. Undone(Now)
        BY EndsNone DEF UndoInv, GoesTo
      <3> QED
        BY <3>1 DEF Undone, Now
    <2> QED
      BY <2>2, <2>3 DEF UndoIsFaithful
  <1> QED
    BY <1>1, UndoInvHolds, PTL

-----------------------------------------------------------------------------
(* The working directory.                                                     *)

\* What CleanStaysClean needs, besides what UndoIsFaithful does: nobody is killed, for
\* the first part of a blob stays and is written to the directory later.
CleanUndisturbed == UndoUndisturbed /\ MaxCrashes = 0

\* The files of directory d are those of tree t, but for raw files that t does not have.
Conforms(d, t) == d.rs = t.rs /\ (t.blob # Absent => d.blob = t.blob)

\* Write w takes the current view, HEAD being hd, and the directory to t or leaves them.
Aimed(w, ch, hd, vs, t) ==
  /\ w.w \notin {"blob", "fill"}
  /\ w.w = "view" /\ w.view = hd => TreeOfIn(ch, w.heads) = t
  /\ w.w = "head" => TreeOfIn(ch, vs[w.view]) = t
  /\ w.w = "wd" => w.tree = t
  /\ w.w = "rmblob" => t.blob = Absent
Turns(w, hd) == w.w = "head" \/ (w.w = "view" /\ w.view = hd)

\* After the writes in W the current view and the directory are at t.
Aims(W, ch, hd, vs, d, t) ==
  /\ \A w \in W : Aimed(w, ch, hd, vs, t)
  /\ (\E w \in W : w.w = "head") => \A w \in W : w.w # "view"
  /\ TreeOfIn(ch, vs[hd]) = t \/ \E w \in W : Turns(w, hd)
  /\ Conforms(d, t) \/ \E w \in W : w.w = "wd"
AimsAt(W, t) == Aims(W, content, head, views, wd, t)

\* What a command that found the directory clean leads to.
CleanInv ==
  was = "clean" /\ ~meddled =>
    /\ Quiet => Conforms(wd, Current)
    /\ \A p \in Proc : cmd[p] # "idle" => \E t : AimsAt(Range(todo[p]), t)

\* The writes of a plan: its first and the others; those of its pieces.
LEMMA FirstAndRest ==
  ASSUME NEW q, IsSeq(q), q # <<>> PROVE Range(q) = {Head(q)} \cup Range(Tail(q))
  <1>1. Len(q) \in Nat /\ Len(q) >= 1 /\ DOMAIN q = 1..Len(q) /\ Head(q) = q[1]
    BY DEF IsSeq
  <1>2. DOMAIN Tail(q) = 1..(Len(q) - 1) /\ \A i \in 1..(Len(q) - 1) : Tail(q)[i] = q[i + 1]
    BY DEF IsSeq
  <1>3. \A i \in 1..Len(q) : i = 1 \/ (i - 1 \in 1..(Len(q) - 1) /\ q[i] = Tail(q)[i - 1])
    BY <1>1, <1>2
  <1>4. \A i \in 1..(Len(q) - 1) : i + 1 \in 1..Len(q)
    BY <1>1
  <1>5. ASSUME NEW i \in 1..Len(q) PROVE q[i] \in {Head(q)} \cup Range(Tail(q))
    <2>1. CASE i = 1
      BY <1>1, <2>1
    <2>2. CASE i # 1
      <3> DEFINE t == Tail(q)
      <3>1. i - 1 \in DOMAIN t /\ q[i] = t[i - 1]
        BY <1>2, <1>3, <2>2
      <3> HIDE DEF t
      <3>2. t[i - 1] \in Range(t)
        BY <3>1 DEF Range
      <3> QED
        BY <3>1, <3>2 DEF t
    <2> QED
      BY <2>1, <2>2
  <1>6. Range(Tail(q)) \subseteq Range(q)
    BY <1>1, <1>2, <1>4 DEF Range
  <1>7. Head(q) \in Range(q)
    BY <1>1 DEF Range
  <1>8. Range(q) \subseteq {Head(q)} \cup Range(Tail(q))
    BY <1>1, <1>5 DEF Range
  <1> QED
    BY <1>6, <1>7, <1>8

\* The writes of two pieces.
LEMMA RangeBoth ==
  ASSUME NEW a, IsSeq(a), NEW b, IsSeq(b) PROVE IsSeq(a \o b) /\ Range(a \o b) = Range(a) \cup Range(b)
  <1>1. IsSeq(a \o b) /\ DOMAIN a = 1..Len(a) /\ DOMAIN b = 1..Len(b) /\ DOMAIN (a \o b) = 1..Len(a \o b)
    BY ConcatSeq DEF IsSeq
  <1>2. /\ Len(a) \in Nat /\ Len(b) \in Nat /\ Len(a \o b) = Len(a) + Len(b)
        /\ \A i \in 1..Len(a) : (a \o b)[i] = a[i]
        /\ \A i \in 1..Len(b) : (a \o b)[Len(a) + i] = b[i]
    BY ConcatSeq
  <1>3. \A i \in 1..(Len(a) + Len(b)) : i \in 1..Len(a) \/ (i - Len(a) \in 1..Len(b) /\ Len(a) + (i - Len(a)) = i)
    BY <1>2
  <1>4. \A i \in 1..Len(b) : Len(a) + i \in 1..(Len(a) + Len(b))
    BY <1>2
  <1>5. \A i \in 1..Len(a) : i \in 1..(Len(a) + Len(b))
    BY <1>2
  <1>6. Range(a \o b) \subseteq Range(a) \cup Range(b)
    BY <1>1, <1>2, <1>3 DEF Range
  <1>7. Range(a) \subseteq Range(a \o b)
    BY <1>1, <1>2, <1>5 DEF Range
  <1>8. Range(b) \subseteq Range(a \o b)
    BY <1>1, <1>2, <1>4 DEF Range
  <1> QED
    BY <1>1, <1>6, <1>7, <1>8

\* A piece of one write.
LEMMA RangeOne == ASSUME NEW w PROVE IsSeq(<<w>>) /\ Range(<<w>>) = {w}
  BY DEF IsSeq, Range

\* No piece at all.
LEMMA RangeNone == IsSeq(<<>>) /\ Range(<<>>) = {}
  BY DEF IsSeq, Range

-----------------------------------------------------------------------------
(* Trees.                                                                     *)

\* What TreeOf is of a change: that of what it depends on, with its atoms.
LEMMA TreeUnfolds ==
  ASSUME NEW c, IsSeq(c), Backwards(c)
  PROVE  /\ TreeOfIn(c, {}) = EmptyTree
         /\ \A x \in DOMAIN c : TreeOfIn(c, {x}) = apply_change(TreeOfIn(c, c[x].deps), c[x].atoms)
         /\ \A hs : hs # {} => TreeOfIn(c, hs) = TreeOfIn(c, {CHOOSE h \in hs : TRUE})
  <1> DEFINE m == Len(c)
             f == CHOOSE f : f = [i \in 1..m |-> apply_change(
                       IF c[i].deps = {} THEN EmptyTree
                       ELSE f[CHOOSE d \in c[i].deps : TRUE], c[i].atoms)]
  <1>1. m \in Nat /\ DOMAIN c = 1..m
    BY DEF IsSeq
  <1>2. \A hs : TreeOfIn(c, hs) = IF hs = {} THEN EmptyTree ELSE f[CHOOSE h \in hs : TRUE]
    BY Zenon DEF TreeOfIn
  <1>3. f = [i \in 1..m |-> apply_change(
                       IF c[i].deps = {} THEN EmptyTree
                       ELSE f[CHOOSE d \in c[i].deps : TRUE], c[i].atoms)]
    <2>1. \E g : IsTree(g, m, c)
      BY TreeExists
    <2> QED
      BY <2>1, Zenon DEF IsTree
  <1> HIDE DEF f
  <1>4. \A x : TreeOfIn(c, {x}) = f[x]
    <2>1. \A x : (CHOOSE h \in {x} : TRUE) = x
      OBVIOUS
    <2> QED
      BY <1>2, <2>1
  <1>5. ASSUME NEW x \in DOMAIN c PROVE f[x] = apply_change(TreeOfIn(c, c[x].deps), c[x].atoms)
    <2>1. f[x] = apply_change(IF c[x].deps = {} THEN EmptyTree
                              ELSE f[CHOOSE d \in c[x].deps : TRUE], c[x].atoms)
      BY <1>1, <1>3, Zenon
    <2> QED
      BY <1>2, <2>1
  <1> QED
    BY <1>2, <1>4, <1>5

\* New contents change no tree.
LEMMA TreeExtends ==
  ASSUME NEW c, IsSeq(c), Backwards(c), NEW e, IsSeq(e), Backwards(e), Extends(e, c),
         NEW hs, hs \subseteq DOMAIN c
  PROVE  TreeOfIn(e, hs) = TreeOfIn(c, hs)
  <1> DEFINE m == Len(c)
             S == {k \in Nat : \A i \in DOMAIN c : i <= k => TreeOfIn(e, {i}) = TreeOfIn(c, {i})}
  <1>1. m \in Nat /\ DOMAIN c = 1..m
    BY DEF IsSeq
  <1>2. \A i \in DOMAIN c : i \in DOMAIN e /\ e[i] = c[i]
    BY DEF Extends
  <1>3. ASSUME NEW k \in Nat, k \in S, NEW gs, gs \subseteq DOMAIN c, \A g \in gs : g <= k
        PROVE  TreeOfIn(e, gs) = TreeOfIn(c, gs)
    <2>1. CASE gs = {}
      BY <2>1, TreeUnfolds
    <2>2. CASE gs # {}
      <3> DEFINE h == CHOOSE h \in gs : TRUE
      <3>1. h \in gs
        BY <2>2
      <3>2. TreeOfIn(e, {h}) = TreeOfIn(c, {h})
        <4> HIDE DEF h
        <4> QED
          BY <1>3, <3>1
      <3>3. TreeOfIn(e, gs) = TreeOfIn(e, {h}) /\ TreeOfIn(c, gs) = TreeOfIn(c, {h})
        BY <2>2, TreeUnfolds
      <3> QED
        BY <3>2, <3>3
    <2> QED
      BY <2>1, <2>2
  <1>4. 0 \in S
    BY <1>1
  <1>5. ASSUME NEW k \in 1..m, k - 1 \in S PROVE k \in S
    <2> SUFFICES ASSUME NEW i \in DOMAIN c, i <= k PROVE TreeOfIn(e, {i}) = TreeOfIn(c, {i})
      OBVIOUS
    <2>1. k - 1 \in Nat /\ c[i].deps \subseteq 1..(i - 1)
      BY DEF Backwards
    <2>2. c[i].deps \subseteq DOMAIN c /\ \A g \in c[i].deps : g <= k - 1
      BY <1>1, <2>1
    <2> HIDE DEF S
    <2>3. TreeOfIn(e, c[i].deps) = TreeOfIn(c, c[i].deps)
      BY <1>3, <1>5, <2>1, <2>2
    <2> QED
      BY <1>2, <2>3, TreeUnfolds
  <1>6. m \in S
    <2> HIDE DEF S
    <2>1. 0..m \subseteq S
      BY <1>1, <1>4, <1>5, UpToInduction
    <2> QED
      BY <1>1, <2>1
  <1>7. \A g \in hs : g <= m
    BY <1>1
  <1> HIDE DEF S
  <1> QED
    BY <1>1, <1>3, <1>6, <1>7

\* A tree has the two files, and a change that touches neither has the same tree.
LEMMA TreeFiles ==
  ASSUME NEW c, IsSeq(c), Backwards(c), NEW hs, hs \subseteq DOMAIN c
  PROVE  apply_change(TreeOfIn(c, hs), Untouched) = TreeOfIn(c, hs)
  <1>1. \A s, a : apply_change(apply_change(s, a), Untouched) = apply_change(s, a)
    BY DEF apply_change, Untouched
  <1>2. apply_change(EmptyTree, Untouched) = EmptyTree
    BY DEF apply_change, Untouched, EmptyTree
  <1>3. CASE hs = {}
    BY <1>2, <1>3, TreeUnfolds
  <1>4. CASE hs # {}
    <2>1. (CHOOSE h \in hs : TRUE) \in DOMAIN c
      BY <1>4
    <2>2. PICK h \in DOMAIN c : TreeOfIn(c, hs) = TreeOfIn(c, {h})
      BY <1>4, <2>1, TreeUnfolds
    <2> QED
      BY <1>1, <2>2, TreeUnfolds
  <1> QED
    BY <1>3, <1>4

-----------------------------------------------------------------------------
(* The steps, for the working directory.                                      *)

\* The first write of a plan is done: the others still lead to t.
LEMMA AimGoesOn ==
  ASSUME NEW w, NEW R, NEW ch, NEW hd, NEW vs, NEW d, NEW t, Aims({w} \cup R, ch, hd, vs, d, t)
  PROVE  /\ w.w \notin {"view", "head", "wd", "rmblob"} => Aims(R, ch, hd, vs, d, t)
         /\ w.w = "view" => \A us : us[hd] = (IF w.view = hd THEN w.heads ELSE vs[hd]) => Aims(R, ch, hd, us, d, t)
         /\ w.w = "head" => Aims(R, ch, w.view, vs, d, t)
         /\ w.w = "wd" => \A e : Conforms(e, t) => Aims(R, ch, hd, vs, e, t)
         /\ w.w = "rmblob" => \A e : e.rs = d.rs => Aims(R, ch, hd, vs, e, t)
  <1>1. Aimed(w, ch, hd, vs, t) /\ \A x \in R : Aimed(x, ch, hd, vs, t)
    BY DEF Aims
  <1>2. \A x \in R : x.w = "head" \/ w.w = "head" => x.w # "view" /\ w.w # "view"
    BY DEF Aims
  <1>3. (\E x \in R : x.w = "head") => \A x \in R : x.w # "view"
    BY DEF Aims
  <1>4. TreeOfIn(ch, vs[hd]) = t \/ Turns(w, hd) \/ \E x \in R : Turns(x, hd)
    BY DEF Aims
  <1>5. Conforms(d, t) \/ w.w = "wd" \/ \E x \in R : x.w = "wd"
    BY DEF Aims
  <1>6. w.w \notin {"view", "head", "wd", "rmblob"} => Aims(R, ch, hd, vs, d, t)
    BY <1>1, <1>3, <1>4, <1>5 DEF Aims, Turns
  <1>7. ASSUME w.w = "view", NEW us, us[hd] = (IF w.view = hd THEN w.heads ELSE vs[hd])
        PROVE  Aims(R, ch, hd, us, d, t)
    <2>1. \A x \in R : x.w # "head" /\ Aimed(x, ch, hd, us, t)
      BY <1>1, <1>2, <1>7 DEF Aimed
    <2>2. TreeOfIn(ch, us[hd]) = t \/ \E x \in R : Turns(x, hd)
      BY <1>1, <1>4, <1>7 DEF Aimed, Turns
    <2> QED
      BY <1>5, <1>7, <2>1, <2>2 DEF Aims
  <1>8. ASSUME w.w = "head" PROVE Aims(R, ch, w.view, vs, d, t)
    <2>1. \A x \in R : x.w # "view" /\ Aimed(x, ch, w.view, vs, t)
      BY <1>1, <1>2, <1>8 DEF Aimed
    <2>2. TreeOfIn(ch, vs[w.view]) = t
      BY <1>1, <1>8 DEF Aimed
    <2> QED
      BY <1>5, <1>8, <2>1, <2>2 DEF Aims
  <1>9. ASSUME w.w = "wd", NEW e, Conforms(e, t) PROVE Aims(R, ch, hd, vs, e, t)
    BY <1>1, <1>3, <1>4, <1>9 DEF Aims, Turns
  <1>10. ASSUME w.w = "rmblob", NEW e, e.rs = d.rs PROVE Aims(R, ch, hd, vs, e, t)
    <2>1. Conforms(d, t) => Conforms(e, t)
      BY <1>1, <1>10 DEF Aimed, Conforms
    <2> QED
      BY <1>1, <1>3, <1>4, <1>5, <1>10, <2>1 DEF Aims, Turns
  <1> QED
    BY <1>6, <1>7, <1>8, <1>9, <1>10

\* Who writes runs a command.
LEMMA BusyWriter == ASSUME UndoInv, NEW p \in Proc, Write(p) PROVE cmd[p] # "idle"
  <1>1. CASE Exit(p)
    BY <1>1 DEF Exit
  <1>2. CASE ~Exit(p)
    <2>1. todo[p] # <<>>
      BY <1>2 DEF Write, WriteBlob, FillBlob, WriteChange, SaveView, SetHead, SetEpoch, PopOp, AppendOp, SaveRedo,
         RemoveChange, RemoveBlobs, RemoveFile, WriteState, Hang, Doing
    <2> QED
      BY <2>1 DEF UndoInv
  <1> QED
    BY <1>1, <1>2

\* Each write of a command whose plan leads to t.
LEMMA WriteKeepsAim ==
  ASSUME IInv, UndoUndisturbed, UndoInv, BlobsUndisturbed, BlobInv, NEW p \in Proc, Write(p), ~Exit(p),
         NEW t, AimsAt(Range(todo[p]), t)
  PROVE  /\ AimsAt(Range(todo[p]), t)' /\ cmd' = cmd /\ was' = was /\ meddled' = meddled
         /\ cmd[p] # "idle"
  <1> DEFINE w == Head(todo[p])
             R == Range(Tail(todo[p]))
  <1>1. todo[p] # <<>>
    BY DEF Write, WriteBlob, FillBlob, WriteChange, SaveView, SetHead, SetEpoch, PopOp, AppendOp, SaveRedo,
       RemoveChange, RemoveBlobs, RemoveFile, WriteState, Hang, Doing
  <1>2. IsSeq(todo[p]) /\ p \in DOMAIN todo /\ DOMAIN views = View /\ head \in View
    <2>1. IsSeq(todo[p])
      BY DEF IInv, Plans, Backed
    <2>2. p \in DOMAIN todo
      BY DEF IInv, Plans
    <2>3. DOMAIN views = View /\ head \in View
      BY DEF IInv, Rooted, Named
    <2> QED
      BY <2>1, <2>2, <2>3
  <1>3. Range(todo[p]) = {w} \cup R
    BY <1>1, <1>2, FirstAndRest
  <1>4. Aims({w} \cup R, content, head, views, wd, t)
    BY <1>3 DEF AimsAt
  <1>5. w.w \notin {"blob", "fill"}
    BY <1>4 DEF Aims, Aimed
  <1>6. cmd[p] # "idle"
    BY <1>1 DEF UndoInv
  <1>7. ~WriteBlob(p) /\ ~FillBlob(p)
    BY <1>5 DEF WriteBlob, FillBlob, Doing
  <1>8. ~SetEpoch(p) /\ ~RemoveChange(p) /\ ~RemoveBlobs(p) /\ ~Hang(p)
    <2> SUFFICES ASSUME NEW kind \in {"epoch", "unstore", "gc", "hang"}, Doing(p, kind) PROVE FALSE
      BY DEF SetEpoch, RemoveChange, RemoveBlobs, Hang
    <2>1. SimpleWrite(w, Gone, content, Named) /\ w.w = kind
      BY SimpleHere
    <2> QED
      BY <2>1 DEF SimpleWrite
  <1>9. ASSUME todo'[p] = Tail(todo[p]), UNCHANGED <<content, cmd, was, meddled>>,
               Aims(R, content, head', views', wd', t)
        PROVE  AimsAt(Range(todo[p]), t)' /\ cmd' = cmd /\ was' = was /\ meddled' = meddled
    BY <1>9 DEF AimsAt
  <1> HIDE DEF w, R
  <1>10. Done(p) => todo'[p] = Tail(todo[p])
    BY <1>2 DEF Done
  <1>11. CASE WriteChange(p) \/ PopOp(p) \/ AppendOp(p) \/ SaveRedo(p)
    <2>1. /\ Done(p) /\ UNCHANGED <<content, cmd, was, meddled, head, views, wd>>
          /\ w.w \in {"change", "pop", "append", "redo"}
      BY <1>11 DEF WriteChange, PopOp, AppendOp, SaveRedo, unmoved, past, Doing, w
    <2> QED
      BY <1>4, <1>6, <1>9, <1>10, <2>1, AimGoesOn
  <1>12. CASE SaveView(p)
    <2>1. /\ Done(p) /\ UNCHANGED <<content, cmd, was, meddled, head, wd>> /\ w.w = "view"
          /\ views' = [views EXCEPT ![w.view] = w.heads]
      BY <1>12 DEF SaveView, unmoved, past, Doing, w
    <2>2. views'[head] = IF w.view = head THEN w.heads ELSE views[head]
      BY <1>2, <2>1
    <2> QED
      BY <1>4, <1>6, <1>9, <1>10, <2>1, <2>2, AimGoesOn
  <1>13. CASE SetHead(p)
    <2>1. /\ Done(p) /\ UNCHANGED <<content, cmd, was, meddled, views, wd>> /\ w.w = "head" /\ head' = w.view
      BY <1>13 DEF SetHead, past, Doing, w
    <2> QED
      BY <1>4, <1>6, <1>9, <1>10, <2>1, AimGoesOn
  <1>14. CASE RemoveFile(p)
    <2>1. /\ Done(p) /\ UNCHANGED <<content, cmd, was, meddled, views, head>> /\ w.w = "rmblob"
          /\ wd' = [wd EXCEPT !.blob = Absent]
      BY <1>14 DEF RemoveFile, unmoved, past, Doing, w
    <2>2. wd'.rs = wd.rs
      BY <2>1 DEF BlobInv, DirectoryFits, File
    <2> QED
      BY <1>4, <1>6, <1>9, <1>10, <2>1, <2>2, AimGoesOn
  <1>15. CASE WriteState(p)
    <2>1. w.w = "wd" /\ w.tree = t /\ Doing(p, "wd")
      BY <1>4, <1>15 DEF WriteState, Doing, w, Aims, Aimed
    <2>2. t.blob \notin Gone
      <3>1. SimpleWrite(w, Gone, content, Named)
        BY <2>1, SimpleHere DEF w
      <3> QED
        BY <2>1, <3>1 DEF SimpleWrite
    <2>3. t.blob \in Contents
      <3>1. PlanFits(p)
        BY DEF BlobInv
      <3>2. PlainWrite(w)
        BY <1>1, <2>1, <3>1 DEF PlanFits, BlobFirst, w
      <3> QED
        BY <2>1, <3>2 DEF PlainWrite
    <2>4. t.blob # Absent => blobs[t.blob] = t.blob
      <3> SUFFICES ASSUME t.blob # Absent, blobs[t.blob] # t.blob PROVE FALSE
        OBVIOUS
      <3>1. t.blob \in Bytes /\ blobs[t.blob] # Absent
        BY <2>2, <2>3 DEF Contents, Gone
      <3>2. PICK r \in Proc : Pending(r, t.blob)
        BY <3>1 DEF BlobInv, BlobsFit
      <3>3. r = p
        BY <2>1, <3>2, NobodyElse
      <3> QED
        BY <1>5, <3>2, <3>3 DEF Pending, w
    <2>5. /\ Done(p) /\ UNCHANGED <<content, cmd, was, meddled, views, head>>
          /\ wd' = [rs |-> t.rs, blob |-> IF t.blob = Absent THEN wd.blob ELSE blobs[t.blob]]
      BY <1>15, <2>1, <2>2 DEF WriteState, unmoved, past, w, Gone
    <2>6. Conforms(wd', t)
      BY <2>4, <2>5 DEF Conforms
    <2> QED
      BY <1>4, <1>6, <1>9, <1>10, <2>1, <2>5, <2>6, AimGoesOn
  <1> QED
    BY <1>7, <1>8, <1>11, <1>12, <1>13, <1>14, <1>15 DEF Write

\* A process writes, or is done.
LEMMA WriteStaysClean ==
  ASSUME IInv, UndoUndisturbed, UndoInv, BlobsUndisturbed, BlobInv, CleanInv, NEW p \in Proc, Write(p)
  PROVE  CleanInv'
  <1>1. CASE Exit(p)
    <2>1. /\ cmd' = [cmd EXCEPT ![p] = "idle"] /\ cmd[p] # "idle" /\ todo[p] = <<>>
          /\ UNCHANGED <<content, head, views, wd, was, meddled>>
      BY <1>1 DEF Exit, past
    <2>2. \A r \in Proc : cmd'[r] = "idle"
      BY <2>1, OneUnderWay DEF UndoInv, LockHeld
    <2> SUFFICES ASSUME was = "clean", ~meddled PROVE Conforms(wd, Current)
      <3>1. Conforms(wd, Current)' <=> Conforms(wd, Current)
        BY <2>1 DEF Conforms, Current, TreeOf
      <3> QED
        BY <2>1, <2>2, <3>1 DEF CleanInv
    <2>3. PICK t : AimsAt(Range(todo[p]), t)
      BY <2>1 DEF CleanInv
    <2>4. Aims({}, content, head, views, wd, t)
      BY <2>1, <2>3, RangeNone DEF AimsAt
    <2> QED
      BY <2>4 DEF Aims, Current, TreeOf
  <1>2. CASE ~Exit(p) /\ was = "clean" /\ ~meddled
    <2>1. cmd[p] # "idle"
      BY <1>2, BusyWriter
    <2>2. PICK t : AimsAt(Range(todo[p]), t)
      BY <1>2, <2>1 DEF CleanInv
    <2>3. /\ AimsAt(Range(todo[p]), t)' /\ cmd' = cmd /\ was' = was /\ meddled' = meddled
      BY <1>2, <2>2, WriteKeepsAim
    <2>4. \A r \in Proc : cmd'[r] # "idle" => r = p
      BY <2>1, <2>3, OneUnderWay
    <2>5. ~Quiet'
      BY <2>1, <2>3 DEF Quiet
    <2> QED
      BY <2>3, <2>4, <2>5 DEF CleanInv
  <1>3. CASE ~Exit(p) /\ ~(was = "clean" /\ ~meddled)
    <2>1. was' = was /\ meddled' = meddled
      BY <1>3 DEF Write, WriteBlob, FillBlob, WriteChange, SaveView, SetHead, SetEpoch, PopOp, AppendOp,
         SaveRedo, RemoveChange, RemoveBlobs, RemoveFile, WriteState, Hang, unmoved, past
    <2> QED
      BY <1>3, <2>1 DEF CleanInv
  <1> QED
    BY <1>1, <1>2, <1>3

\* The writes of the pieces that plans are put together from.
LEMMA Pieces ==
  ASSUME NEW v, NEW hs, NEW x, NEW t, NEW undo, NEW o, NEW s, NEW old
  PROVE  /\ IsSeq(save_view(v, hs)) /\ Range(save_view(v, hs)) = {[w |-> "view", view |-> v, heads |-> hs]}
         /\ IsSeq(write_change(x)) /\ Range(write_change(x)) = {[w |-> "change", id |-> x]}
         /\ IsSeq(set_head(v)) /\ Range(set_head(v)) = {[w |-> "head", view |-> v]}
         /\ IsSeq(write_state(t, undo)) /\ Range(write_state(t, undo)) = {[w |-> "wd", tree |-> t, undo |-> undo]}
         /\ IsSeq(pop) /\ Range(pop) = {[w |-> "pop"]}
         /\ IsSeq(append(o)) /\ Range(append(o)) = {[w |-> "append", op |-> o]}
         /\ IsSeq(save_redo(s)) /\ Range(save_redo(s)) = {[w |-> "redo", stack |-> s]}
         /\ IsSeq(remove_file) /\ Range(remove_file) = {[w |-> "rmblob"]}
         /\ IsSeq(log_operation(v, old, hs))
         /\ Range(log_operation(v, old, hs)) = {[w |-> "redo", stack |-> <<>>], [w |-> "append", op |-> Op(v, old, hs)]}
  <1>1. IsSeq(save_view(v, hs)) /\ Range(save_view(v, hs)) = {[w |-> "view", view |-> v, heads |-> hs]}
    BY RangeOne DEF save_view
  <1>2. IsSeq(write_change(x)) /\ Range(write_change(x)) = {[w |-> "change", id |-> x]}
    BY RangeOne DEF write_change
  <1>3. IsSeq(set_head(v)) /\ Range(set_head(v)) = {[w |-> "head", view |-> v]}
    BY RangeOne DEF set_head
  <1>4. IsSeq(write_state(t, undo)) /\ Range(write_state(t, undo)) = {[w |-> "wd", tree |-> t, undo |-> undo]}
    BY RangeOne DEF write_state
  <1>5. IsSeq(pop) /\ Range(pop) = {[w |-> "pop"]}
    BY RangeOne DEF pop
  <1>6. \A op : IsSeq(append(op)) /\ Range(append(op)) = {[w |-> "append", op |-> op]}
    BY RangeOne DEF append
  <1>7. \A st : IsSeq(save_redo(st)) /\ Range(save_redo(st)) = {[w |-> "redo", stack |-> st]}
    BY RangeOne DEF save_redo
  <1>8. IsSeq(remove_file) /\ Range(remove_file) = {[w |-> "rmblob"]}
    BY RangeOne DEF remove_file
  <1> DEFINE a == save_redo(<<>>)
             b == append(Op(v, old, hs))
  <1>9. /\ IsSeq(a) /\ Range(a) = {[w |-> "redo", stack |-> <<>>]}
        /\ IsSeq(b) /\ Range(b) = {[w |-> "append", op |-> Op(v, old, hs)]}
    BY <1>6, <1>7
  <1>10. log_operation(v, old, hs) = a \o b
    BY DEF log_operation
  <1> HIDE DEF a, b
  <1>11. /\ IsSeq(log_operation(v, old, hs))
         /\ Range(log_operation(v, old, hs)) = {[w |-> "redo", stack |-> <<>>], [w |-> "append", op |-> Op(v, old, hs)]}
    BY <1>9, <1>10, RangeBoth
  <1> QED
    BY <1>1, <1>2, <1>3, <1>4, <1>5, <1>6, <1>7, <1>8, <1>11

\* A command begins whose plan leads from a clean directory to t.
LEMMA BeginStaysClean ==
  ASSUME IInv, UndoUndisturbed, UndoInv, NEW p \in Proc, cmd[p] = "idle", NEW c, NEW q, Begin(p, c, q),
         NEW t, was' = "clean" => Aims(Range(q), content', head, views, wd, t)
  PROVE  CleanInv'
  <1>1. /\ c \in Commands /\ cmd' = [cmd EXCEPT ![p] = c] /\ todo' = [todo EXCEPT ![p] = q]
        /\ UNCHANGED <<head, views, wd, meddled>> /\ (c \in Locked => lock = None)
    BY DEF Begin, acquire_lock
  <1>2. \A r \in Proc : cmd[r] = "idle"
    <2> SUFFICES ASSUME NEW r \in Proc, cmd[r] # "idle" PROVE FALSE
      OBVIOUS
    <2>1. cmd[r] \in Commands /\ r # p
      BY DEF UndoInv
    <2>2. Commands \subseteq Locked
      BY <2>1 DEF UndoUndisturbed
    <2>3. lock = None /\ lock = r
      BY <1>1, <2>1, <2>2 DEF UndoInv, LockHeld
    <2> QED
      BY <2>3, RepositoryAssumption
  <1>3. c # "idle"
    BY <1>1, Marks
  <1>4. cmd'[p] = c /\ \A r \in Proc : r # p => cmd'[r] = "idle"
    BY <1>1, <1>2 DEF UndoInv, LockHeld
  <1>5. todo'[p] = q
    BY <1>1 DEF IInv, Plans
  <1>6. ~Quiet'
    BY <1>3, <1>4 DEF Quiet
  <1>7. was' = "clean" => AimsAt(Range(todo[p]), t)'
    BY <1>1, <1>5 DEF AimsAt
  <1> QED
    BY <1>4, <1>6, <1>7 DEF CleanInv

\* When a command found the directory clean.
LEMMA FoundClean ==
  ASSUME NEW p, NEW c, NEW q, Begin(p, c, q), was' = "clean"
  PROVE  /\ wd = TreeOf(Tip)
         /\ c = "undo" => Last(oplog).view = head
         /\ c = "redo" => Last(redo).view = head
  BY DEF Begin

\* What saves hs as the heads of the view, writes its tree and more of no concern.
LEMMA AimsAtTree ==
  ASSUME NEW hs, NEW undo, NEW W,
         \A w \in W : w.w \in {"pop", "append", "redo"} \/ (w.w = "rmblob" /\ TreeOf(hs).blob = Absent)
  PROVE  Aims({[w |-> "view", view |-> head, heads |-> hs], [w |-> "wd", tree |-> TreeOf(hs), undo |-> undo]} \cup W,
              content, head, views, wd, TreeOf(hs))
  <1> DEFINE t == TreeOf(hs)
             a == [w |-> "view", view |-> head, heads |-> hs]
             b == [w |-> "wd", tree |-> t, undo |-> undo]
             S == {a, b} \cup W
  <1>1. TreeOfIn(content, hs) = t
    BY DEF TreeOf
  <1>2. \A w \in W : w.w \in {"pop", "append", "redo"} \/ (w.w = "rmblob" /\ t.blob = Absent)
    OBVIOUS
  <1> HIDE DEF t
  <1>3. Aimed(a, content, head, views, t) /\ Aimed(b, content, head, views, t)
    BY <1>1 DEF Aimed
  <1>4. \A w \in W : Aimed(w, content, head, views, t) /\ w.w # "head"
    BY <1>2 DEF Aimed
  <1>5. \A w \in S : Aimed(w, content, head, views, t) /\ w.w # "head"
    BY <1>3, <1>4
  <1>6. a \in S /\ Turns(a, head) /\ b \in S /\ b.w = "wd"
    BY DEF Turns
  <1> HIDE DEF a, b, S
  <1>7. Aims(S, content, head, views, wd, t)
    BY <1>5, <1>6 DEF Aims
  <1> QED
    BY <1>7 DEF S, a, b, t

\* abandon_heads.
LEMMA AbandonStaysClean ==
  ASSUME IInv, UndoUndisturbed, UndoInv, NEW p \in Proc, cmd[p] = "idle", Abandon(p) PROVE CleanInv'
  <1>1. PICK old \in Tip \cap store :
          Begin(p, "abandon",
                save_view(head, deps(old))
                \o Then(deps(old), write_state(TreeOf(deps(old)), <<>>)
                                   \o log_operation(head, Tip, deps(old))))
    BY DEF Abandon
  <1> DEFINE hs == deps(old)
             save == save_view(head, hs)
             write == write_state(TreeOf(hs), <<>>)
             log == log_operation(head, Tip, hs)
             d1 == write \o log
             d2 == Then(hs, d1)
             q == save \o d2
             W == {[w |-> "redo", stack |-> <<>>], [w |-> "append", op |-> Op(head, Tip, hs)]}
             a == [w |-> "view", view |-> head, heads |-> hs]
             b == [w |-> "wd", tree |-> TreeOf(hs), undo |-> <<>>]
  <1>2. Begin(p, "abandon", q) /\ content' = content
    BY <1>1 DEF Abandon
  <1>3. hs \subseteq Found
    BY TipFound
  <1>4. d2 = d1
    BY <1>3, TreesThere DEF Then
  <1>5. IsSeq(save) /\ IsSeq(write) /\ IsSeq(log) /\ Range(save) = {a} /\ Range(write) = {b} /\ Range(log) = W
    BY Pieces
  <1>6. Aims({a, b} \cup W, content, head, views, wd, TreeOf(hs))
    <2> HIDE DEF hs
    <2>1. \A w \in W : w.w \in {"pop", "append", "redo"}
      OBVIOUS
    <2> HIDE DEF W
    <2> QED
      BY <2>1, AimsAtTree
  <1> HIDE DEF hs, save, write, log, d1, d2, q, W, a, b
  <1>7. IsSeq(d1) /\ Range(d1) = {b} \cup W
    BY <1>5, RangeBoth DEF d1
  <1>8. Range(q) = {a, b} \cup W
    BY <1>4, <1>5, <1>7, RangeBoth DEF q
  <1> QED
    BY <1>2, <1>6, <1>8, BeginStaysClean

\* op_restore and op_revert.
LEMMA ApplyStaysClean ==
  ASSUME IInv, UndoUndisturbed, UndoInv, NEW p \in Proc, cmd[p] = "idle", NEW c,
         NEW next, next \subseteq Found, ApplyOperationHeads(p, c, next)
  PROVE  CleanInv'
  <1> DEFINE back == save_view(head, Tip) \o write_state(TreeOf(Tip), <<>>)
             save == save_view(head, next)
             write == write_state(TreeOf(next), back)
             log == log_operation(head, Tip, next)
             d1 == write \o log
             d2 == Then(next, d1)
             q == save \o d2
             W == {[w |-> "redo", stack |-> <<>>], [w |-> "append", op |-> Op(head, Tip, next)]}
             a == [w |-> "view", view |-> head, heads |-> next]
             b == [w |-> "wd", tree |-> TreeOf(next), undo |-> back]
  <1>1. Begin(p, c, q) /\ content' = content
    BY DEF ApplyOperationHeads
  <1>2. d2 = d1
    BY TreesThere DEF Then
  <1> HIDE DEF back
  <1>3. IsSeq(save) /\ IsSeq(write) /\ IsSeq(log) /\ Range(save) = {a} /\ Range(write) = {b} /\ Range(log) = W
    BY Pieces
  <1>4. Aims({a, b} \cup W, content, head, views, wd, TreeOf(next))
    <2>1. \A w \in W : w.w \in {"pop", "append", "redo"}
      OBVIOUS
    <2> HIDE DEF W
    <2> QED
      BY <2>1, AimsAtTree
  <1> HIDE DEF save, write, log, d1, d2, q, W, a, b
  <1>5. IsSeq(d1) /\ Range(d1) = {b} \cup W
    BY <1>3, RangeBoth DEF d1
  <1>6. Range(q) = {a, b} \cup W
    BY <1>2, <1>3, <1>5, RangeBoth DEF q
  <1> QED
    BY <1>1, <1>4, <1>6, BeginStaysClean

\* They go to the heads after or before any logged operation.
LEMMA OperationsStayClean ==
  ASSUME IInv, UndoUndisturbed, UndoInv, NEW p \in Proc, cmd[p] = "idle", OpRestore(p) \/ OpRevert(p)
  PROVE  CleanInv'
  <1>1. \A i \in DOMAIN oplog : oplog[i].after \subseteq Found /\ oplog[i].before \subseteq Found
    <2>1. DOMAIN oplog = 1..Len(oplog)
      BY DEF IInv, Rooted, IsSeq
    <2> QED
      BY <2>1 DEF IInv, Rooted, OpLeads
  <1> QED
    BY <1>1, ApplyStaysClean DEF OpRestore, OpRevert

\* A commit of a change whose tree is that of the view.
LEMMA SameTreeStaysClean ==
  ASSUME IInv, UndoUndisturbed, UndoInv, NEW p \in Proc, cmd[p] = "idle", NEW c, NEW id, NEW o, NEW q, Begin(p, c, q),
         Range(q) = {[w |-> "change", id |-> id], [w |-> "view", view |-> head, heads |-> {id}]}
                    \cup {[w |-> "redo", stack |-> <<>>], [w |-> "append", op |-> o]},
         TreeOfIn(content', {id}) = TreeOf(Tip)
  PROVE  CleanInv'
  <1> DEFINE t == TreeOf(Tip)
             a == [w |-> "view", view |-> head, heads |-> {id}]
             S == {[w |-> "change", id |-> id], a} \cup {[w |-> "redo", stack |-> <<>>], [w |-> "append", op |-> o]}
  <1>1. ASSUME was' = "clean" PROVE Aims(Range(q), content', head, views, wd, t)
    <2>1. wd = t
      BY <1>1, FoundClean
    <2>2. TreeOfIn(content', {id}) = t
      OBVIOUS
    <2> HIDE DEF t
    <2>3. \A w \in S : Aimed(w, content', head, views, t) /\ w.w # "head"
      <3>1. Aimed(a, content', head, views, t) /\ a.w # "head"
        BY <2>2 DEF Aimed
      <3>2. \A w \in S : w = a \/ w.w \in {"change", "redo", "append"}
        OBVIOUS
      <3>3. \A w : w.w \in {"change", "redo", "append"} => Aimed(w, content', head, views, t)
        BY DEF Aimed
      <3> HIDE DEF a, S
      <3> QED
        BY <3>1, <3>2, <3>3
    <2>4. a \in S /\ Turns(a, head)
      BY DEF Turns
    <2>5. Conforms(wd, t)
      BY <2>1 DEF Conforms
    <2> HIDE DEF S, a
    <2>6. Aims(S, content', head, views, wd, t)
      BY <2>3, <2>4, <2>5 DEF Aims
    <2> QED
      BY <2>6 DEF S, a
  <1> HIDE DEF t
  <1> QED
    BY <1>1, BeginStaysClean

\* The pieces of a commit.
LEMMA OnePieces ==
  ASSUME NEW v, NEW id, NEW old
  PROVE  /\ IsSeq(write_change(id)) /\ Range(write_change(id)) = {[w |-> "change", id |-> id]}
         /\ IsSeq(save_view(v, {id})) /\ Range(save_view(v, {id})) = {[w |-> "view", view |-> v, heads |-> {id}]}
         /\ IsSeq(log_operation(v, old, {id}))
         /\ Range(log_operation(v, old, {id}))
              = {[w |-> "redo", stack |-> <<>>], [w |-> "append", op |-> Op(v, old, {id})]}
  <1>1. IsSeq(write_change(id)) /\ Range(write_change(id)) = {[w |-> "change", id |-> id]}
    BY Pieces
  <1> DEFINE hs == {id}
  <1> HIDE DEF hs
  <1>2. IsSeq(save_view(v, hs)) /\ Range(save_view(v, hs)) = {[w |-> "view", view |-> v, heads |-> hs]}
    BY Pieces
  <1>3. /\ IsSeq(log_operation(v, old, hs))
        /\ Range(log_operation(v, old, hs)) = {[w |-> "redo", stack |-> <<>>], [w |-> "append", op |-> Op(v, old, hs)]}
    BY Pieces
  <1> QED
    BY <1>1, <1>2, <1>3 DEF hs

\* Contents before and after a change is made.
LEMMA TreesAfter ==
  ASSUME IInv, IInv', UndoInv, UndoInv', NEW change, Learn(change)
  PROVE  /\ \A hs : hs \subseteq Ids => TreeOfIn(content', hs) = TreeOf(hs)
         /\ TreeOfIn(content', {IdOf(change)}) = apply_change(TreeOfIn(content', change.deps), change.atoms)
         /\ \A hs : hs \subseteq Ids => apply_change(TreeOf(hs), Untouched) = TreeOf(hs)
         /\ \A x \in Ids : TreeOf({x}) = apply_change(TreeOf(deps(x)), content[x].atoms)
  <1>1. IsSeq(content) /\ IsSeq(content')
    BY DEF IInv, Rooted
  <1>2. Backwards(content) /\ Backwards(content')
    BY DEF UndoInv, NothingGone, Backwards
  <1>3. Extends(content', content) /\ IdOf(change) \in DOMAIN content' /\ content'[IdOf(change)] = change
    BY <1>1, Learned
  <1>4. \A hs : hs \subseteq Ids => TreeOfIn(content', hs) = TreeOf(hs)
    BY <1>1, <1>2, <1>3, TreeExtends DEF TreeOf, Ids
  <1>5. TreeOfIn(content', {IdOf(change)}) = apply_change(TreeOfIn(content', change.deps), change.atoms)
    BY <1>1, <1>2, <1>3, TreeUnfolds
  <1>6. \A hs : hs \subseteq Ids => apply_change(TreeOf(hs), Untouched) = TreeOf(hs)
    BY <1>1, <1>2, TreeFiles DEF TreeOf, Ids
  <1>7. \A x \in Ids : TreeOf({x}) = apply_change(TreeOf(deps(x)), content[x].atoms)
    BY <1>1, <1>2, TreeUnfolds DEF TreeOf, deps, Ids
  <1> QED
    BY <1>4, <1>5, <1>6, <1>7

\* finalize_snapshot.
LEMMA FinalizeStaysClean ==
  ASSUME IInv, IInv', UndoUndisturbed, UndoInv, UndoInv', NEW p \in Proc, cmd[p] = "idle", Finalize(p)
  PROVE  CleanInv'
  <1>1. PICK old \in Tip, intent \in Intent :
          LET change == NewChange(deps(old), content[old].atoms, intent)
              id == IdOf(change)
          IN  /\ Learn(change)
              /\ Begin(p, "finalize", write_change(id) \o save_view(head, {id}) \o log_operation(head, Tip, {id}))
    BY DEF Finalize
  <1>2. Cardinality(Tip) = 1 /\ Tip \subseteq Found /\ Found \subseteq Ids
    BY TipFound DEF Finalize, IInv, Rooted
  <1>3. Tip = {old}
    <2>1. IsFiniteSet(Ids)
      <3>1. Len(content) \in Nat /\ Ids = 1..Len(content)
        BY DEF IInv, Rooted, IsSeq, Ids
      <3> QED
        BY <3>1, FS_Interval
    <2>2. IsFiniteSet(Tip)
      BY <1>2, <2>1, FS_Subset
    <2> QED
      BY <1>2, <2>2, FS_Singleton
  <1>4. PICK change : change = NewChange(deps(old), content[old].atoms, intent)
    OBVIOUS
  <1> DEFINE id == IdOf(change)
             one == write_change(id)
             two == save_view(head, {id})
             three == log_operation(head, Tip, {id})
             q2 == one \o two
             q == q2 \o three
             a == [w |-> "change", id |-> id]
             b == [w |-> "view", view |-> head, heads |-> {id}]
             W == {[w |-> "redo", stack |-> <<>>], [w |-> "append", op |-> Op(head, Tip, {id})]}
  <1>5. Learn(change) /\ Begin(p, "finalize", q)
    BY <1>1, <1>4
  <1>6. change.deps = deps(old) /\ change.atoms = content[old].atoms /\ old \in Ids /\ deps(old) \subseteq Ids
    <2>1. old \in Ids
      BY <1>2
    <2>2. deps(old) \subseteq 1..(old - 1) /\ Ids = 1..Len(content) /\ Len(content) \in Nat
      BY <2>1 DEF UndoInv, NothingGone, Backwards, deps, Ids, IInv, Rooted, IsSeq
    <2>3. deps(old) \subseteq Ids
      BY <2>1, <2>2
    <2> QED
      BY <1>4, <2>1, <2>3 DEF NewChange
  <1>7. TreeOfIn(content', {id}) = TreeOf(Tip)
    BY <1>3, <1>5, <1>6, TreesAfter
  <1>8. IsSeq(one) /\ IsSeq(two) /\ IsSeq(three) /\ Range(one) = {a} /\ Range(two) = {b} /\ Range(three) = W
    <2>1. IsSeq(one) /\ Range(one) = {a}
      BY OnePieces, Zenon
    <2>2. IsSeq(two) /\ Range(two) = {b}
      BY OnePieces, Zenon
    <2>3. IsSeq(three) /\ Range(three) = W
      <3> DEFINE hs == {id}
                 V == {[w |-> "redo", stack |-> <<>>], [w |-> "append", op |-> Op(head, Tip, hs)]}
      <3> HIDE DEF hs
      <3>1. IsSeq(log_operation(head, Tip, hs)) /\ Range(log_operation(head, Tip, hs)) = V
        BY Pieces
      <3> QED
        BY <3>1 DEF hs
    <2> HIDE DEF one, two, three, a, b, W
    <2> QED
      BY <2>1, <2>2, <2>3
  <1> HIDE DEF id, one, two, three, q2, q, W, a, b
  <1>9. IsSeq(q2) /\ Range(q2) = {a, b}
    BY <1>8, RangeBoth DEF q2
  <1>10. Range(q) = {a, b} \cup W
    BY <1>8, <1>9, RangeBoth DEF q
  <1> QED
    BY <1>5, <1>7, <1>10, SameTreeStaysClean DEF a, b, W

\* fork_empty_snapshot.
LEMMA ForkStaysClean ==
  ASSUME IInv, IInv', UndoUndisturbed, UndoInv, UndoInv', NEW p \in Proc, cmd[p] = "idle", Fork(p)
  PROVE  CleanInv'
  <1>1. PICK intent \in Intent : Commit(p, "fork", Tip, Untouched, intent)
    BY DEF Fork
  <1>2. PICK change : change = NewChange(Tip, Untouched, intent)
    OBVIOUS
  <1> DEFINE id == IdOf(change)
             none == write_blob(Untouched.blob)
             one == write_change(id)
             two == save_view(head, {id})
             three == log_operation(head, Tip, {id})
             q1 == none \o one
             q2 == q1 \o two
             q == q2 \o three
             a == [w |-> "change", id |-> id]
             b == [w |-> "view", view |-> head, heads |-> {id}]
             W == {[w |-> "redo", stack |-> <<>>], [w |-> "append", op |-> Op(head, Tip, {id})]}
  <1>3. Learn(change) /\ Begin(p, "fork", q)
    BY <1>1, <1>2 DEF Commit
  <1>4. change.deps = Tip /\ change.atoms = Untouched /\ Tip \subseteq Ids
    BY <1>2, TipFound DEF NewChange, IInv, Rooted
  <1>5. TreeOfIn(content', {id}) = TreeOf(Tip)
    <2>1. TreeOfIn(content', {id}) = apply_change(TreeOfIn(content', Tip), Untouched)
      BY <1>3, <1>4, TreesAfter
    <2>2. TreeOfIn(content', Tip) = TreeOf(Tip) /\ apply_change(TreeOf(Tip), Untouched) = TreeOf(Tip)
      BY <1>3, <1>4, TreesAfter
    <2> QED
      BY <2>1, <2>2
  <1>6. IsSeq(one) /\ IsSeq(two) /\ IsSeq(three) /\ Range(one) = {a} /\ Range(two) = {b} /\ Range(three) = W
    <2>1. IsSeq(one) /\ Range(one) = {a}
      BY OnePieces, Zenon
    <2>2. IsSeq(two) /\ Range(two) = {b}
      BY OnePieces, Zenon
    <2>3. IsSeq(three) /\ Range(three) = W
      <3> DEFINE hs == {id}
                 V == {[w |-> "redo", stack |-> <<>>], [w |-> "append", op |-> Op(head, Tip, hs)]}
      <3> HIDE DEF hs
      <3>1. IsSeq(log_operation(head, Tip, hs)) /\ Range(log_operation(head, Tip, hs)) = V
        BY Pieces
      <3> QED
        BY <3>1 DEF hs
    <2> HIDE DEF one, two, three, a, b, W
    <2> QED
      BY <2>1, <2>2, <2>3
  <1>7. none = <<>>
    BY Marks DEF write_blob, Untouched, File
  <1> HIDE DEF id, none, one, two, three, q1, q2, q, W, a, b
  <1>8. IsSeq(q1) /\ Range(q1) = {a}
    BY <1>6, <1>7, RangeNone, RangeBoth DEF q1
  <1>9. IsSeq(q2) /\ Range(q2) = {a, b}
    BY <1>6, <1>8, RangeBoth DEF q2
  <1>10. Range(q) = {a, b} \cup W
    BY <1>6, <1>9, RangeBoth DEF q
  <1> QED
    BY <1>3, <1>5, <1>10, SameTreeStaysClean DEF a, b, W

\* snap and snapshot record a directory that is not clean.
LEMMA SnapStaysClean ==
  ASSUME IInv, UndoUndisturbed, UndoInv, NEW p \in Proc, cmd[p] = "idle", Snap(p) PROVE CleanInv'
  <1>1. PICK intent \in Intent, staged \in SUBSET File :
           LET all == delta(TreeOf(Tip))
               atoms == [f \in File |-> IF f \in staged \/ all[f] = Absent THEN all[f] ELSE Keep]
           IN  atoms # Untouched /\ Commit(p, "snap", Tip, atoms, intent)
    BY DEF Snap
  <1>2. PICK q : Begin(p, "snap", q)
    BY <1>1 DEF Commit
  <1>3. was' # "clean"
    <2> SUFFICES ASSUME wd = TreeOf(Tip) PROVE FALSE
      BY <1>2, FoundClean
    <2> DEFINE all == delta(TreeOf(Tip))
               atoms == [f \in File |-> IF f \in staged \/ all[f] = Absent THEN all[f] ELSE Keep]
    <2>1. \A f \in File : all[f] = Keep
      BY DEF delta
    <2> HIDE DEF all
    <2>2. atoms = Untouched
      BY <2>1 DEF Untouched
    <2> QED
      BY <1>1, <2>2 DEF all
  <1> QED
    BY <1>3 DEF CleanInv

\* create_view makes another view than the current one.
LEMMA CreateViewStaysClean ==
  ASSUME IInv, UndoUndisturbed, UndoInv, NEW p \in Proc, cmd[p] = "idle", CreateView(p) PROVE CleanInv'
  <1>1. PICK v \in View : views[v] = None /\ Begin(p, "view", save_view(v, Tip)) /\ content' = content
    BY DEF CreateView
  <1> DEFINE q == save_view(v, Tip)
             a == [w |-> "view", view |-> v, heads |-> Tip]
             t == TreeOf(Tip)
  <1>2. v # head
    BY <1>1 DEF IInv, Rooted, Named
  <1>3. Range(q) = {a}
    BY Pieces
  <1>4. TreeOfIn(content, views[head]) = t
    BY DEF TreeOf, Tip
  <1>5. ASSUME was' = "clean" PROVE Conforms(wd, t)
    BY <1>1, <1>5, FoundClean DEF Conforms
  <1> HIDE DEF t
  <1>6. Aimed(a, content, head, views, t) /\ a.w = "view"
    BY <1>2 DEF Aimed
  <1> HIDE DEF a
  <1>7. was' = "clean" => Aims(Range(q), content', head, views, wd, t)
    BY <1>1, <1>3, <1>4, <1>5, <1>6 DEF Aims
  <1>8. Begin(p, "view", q)
    BY <1>1
  <1> HIDE DEF q
  <1> QED
    BY <1>7, <1>8, BeginStaysClean

\* switch_view.
LEMMA SwitchViewStaysClean ==
  ASSUME IInv, UndoUndisturbed, UndoInv, NEW p \in Proc, cmd[p] = "idle", SwitchView(p) PROVE CleanInv'
  <1>1. PICK v \in View : /\ views[v] # None /\ content' = content
                          /\ Begin(p, "switch", write_state(TreeOf(views[v]), <<>>) \o set_head(v))
    BY DEF SwitchView
  <1> DEFINE t == TreeOf(views[v])
             write == write_state(t, <<>>)
             set == set_head(v)
             q == write \o set
             a == [w |-> "wd", tree |-> t, undo |-> <<>>]
             b == [w |-> "head", view |-> v]
  <1>2. Begin(p, "switch", q)
    BY <1>1
  <1>3. IsSeq(write) /\ IsSeq(set) /\ Range(write) = {a} /\ Range(set) = {b}
    BY Pieces
  <1>4. TreeOfIn(content, views[v]) = t
    BY DEF TreeOf
  <1> HIDE DEF t
  <1>5. Aimed(a, content, head, views, t) /\ Aimed(b, content, head, views, t)
    BY <1>4 DEF Aimed
  <1>6. a.w = "wd" /\ b.w = "head" /\ Turns(b, head)
    BY DEF Turns
  <1> HIDE DEF write, set, q, a, b
  <1>7. Range(q) = {a, b}
    BY <1>3, RangeBoth DEF q
  <1>8. Aims(Range(q), content', head, views, wd, t)
    BY <1>1, <1>5, <1>6, <1>7 DEF Aims
  <1> QED
    BY <1>2, <1>8, BeginStaysClean

\* undo writes the tree of the heads it goes back to.
LEMMA UndoStaysClean ==
  ASSUME IInv, UndoUndisturbed, UndoInv, NEW p \in Proc, cmd[p] = "idle", Undo(p) PROVE CleanInv'
  <1> DEFINE op == Last(oplog)
             now == views[op.view]
             hs == op.before
             t == TreeOf(hs)
             drop == IF TreeOf(now).blob # Absent /\ t.blob = Absent THEN remove_file ELSE <<>>
             save == save_view(op.view, hs)
             write == write_state(t, <<>>)
             redone == push_redo(op)
             d1 == drop \o write
             d2 == d1 \o redone
             d3 == Then(hs, d2)
             d4 == save \o d3
             d5 == Then(now, d4)
             q == pop \o d5
             D == Range(drop)
             a == [w |-> "view", view |-> op.view, heads |-> hs]
             b == [w |-> "wd", tree |-> t, undo |-> <<>>]
             c == [w |-> "pop"]
             r == [w |-> "redo", stack |-> Append(redo, op)]
             W == {c, r} \cup D
  <1>1. oplog # <<>> /\ Begin(p, "undo", q) /\ content' = content
    BY Zenon DEF Undo
  <1>2. OpLeads(op, Found)
    BY <1>1, LastLeads DEF IInv, Rooted
  <1>3. hs \subseteq Found
    BY <1>2 DEF OpLeads
  <1>4. now \subseteq Found
    <2>1. Len(oplog) \in 1..Len(oplog) /\ op = oplog[Len(oplog)]
      BY <1>1, OneLess DEF IInv, Rooted
    <2>2. op.view \in Named
      BY <2>1 DEF UndoInv, LogNamesViews
    <2> QED
      BY <2>2, TipFound
  <1> HIDE DEF op
  <1>5. d5 = d4 /\ d3 = d2
    BY <1>3, <1>4, TreesThere DEF Then
  <1>6. IsSeq(drop) /\ \A w \in D : w.w = "rmblob" /\ t.blob = Absent
    <2>1. IsSeq(remove_file) /\ Range(remove_file) = {[w |-> "rmblob"]}
      BY Pieces
    <2> HIDE DEF t, now
    <2> QED
      BY <2>1, RangeNone
  <1>7. IsSeq(save) /\ Range(save) = {a} /\ IsSeq(write) /\ Range(write) = {b}
    <2> HIDE DEF hs, t
    <2>1. IsSeq(save) /\ Range(save) = {a}
      BY Pieces, Zenon
    <2>2. IsSeq(write) /\ Range(write) = {b}
      BY RangeOne DEF write_state
    <2> QED
      BY <2>1, <2>2
  <1>8. IsSeq(pop) /\ Range(pop) = {c} /\ IsSeq(redone) /\ Range(redone) = {r}
    BY Pieces DEF push_redo
  <1>9. ASSUME was' = "clean" PROVE Aims({a, b} \cup W, content, head, views, wd, t)
    <2>1. op.view = head
      BY <1>1, <1>9, FoundClean DEF op
    <2> HIDE DEF D, drop
    <2>2. \A w \in W : w.w \in {"pop", "append", "redo"} \/ (w.w = "rmblob" /\ TreeOf(hs).blob = Absent)
      BY <1>6
    <2> HIDE DEF W, hs
    <2> QED
      BY <2>1, <2>2, AimsAtTree
  <1> HIDE DEF now, hs, t, drop, save, write, redone, d1, d2, d3, d4, d5, q, D, a, b, c, r, W
  <1>10. IsSeq(d1) /\ Range(d1) = D \cup {b}
    BY <1>6, <1>7, RangeBoth DEF d1, D
  <1>11. IsSeq(d2) /\ Range(d2) = D \cup {b, r}
    BY <1>8, <1>10, RangeBoth DEF d2
  <1>12. IsSeq(d4) /\ Range(d4) = D \cup {a, b, r}
    BY <1>5, <1>7, <1>11, RangeBoth DEF d4
  <1>13. Range(q) = D \cup {a, b, c, r}
    BY <1>5, <1>8, <1>12, RangeBoth DEF q
  <1>14. Range(q) = {a, b} \cup W
    BY <1>13 DEF W
  <1> QED
    BY <1>1, <1>9, <1>14, BeginStaysClean

\* redo writes the tree of the heads it comes to.
LEMMA RedoStaysClean ==
  ASSUME IInv, UndoUndisturbed, UndoInv, NEW p \in Proc, cmd[p] = "idle", Redo(p) PROVE CleanInv'
  <1> DEFINE op == Last(redo)
             hs == op.after
             t == TreeOf(hs)
             back == save_view(op.view, op.before) \o write_state(TreeOf(op.before), <<>>)
             save == save_view(op.view, hs)
             write == write_state(t, back)
             log == append(op)
             rest == save_redo(Front(redo))
             d1 == write \o log
             d2 == d1 \o rest
             d3 == Then(hs, d2)
             q == save \o d3
             a == [w |-> "view", view |-> op.view, heads |-> hs]
             b == [w |-> "wd", tree |-> t, undo |-> back]
             c == [w |-> "append", op |-> op]
             r == [w |-> "redo", stack |-> Front(redo)]
             W == {c, r}
  <1>1. redo # <<>> /\ Begin(p, "redo", q) /\ content' = content
    BY Zenon DEF Redo
  <1>2. OpLeads(op, Found)
    BY <1>1, LastLeads DEF IInv, Rooted
  <1>3. hs \subseteq Found
    BY <1>2 DEF OpLeads
  <1> HIDE DEF op, back
  <1>4. d3 = d2
    BY <1>3, TreesThere DEF Then
  <1>5. IsSeq(save) /\ Range(save) = {a} /\ IsSeq(write) /\ Range(write) = {b}
    <2> HIDE DEF hs, t
    <2>1. IsSeq(save) /\ Range(save) = {a}
      BY Pieces, Zenon
    <2>2. IsSeq(write) /\ Range(write) = {b}
      BY RangeOne DEF write_state
    <2> QED
      BY <2>1, <2>2
  <1>6. IsSeq(log) /\ Range(log) = {c} /\ IsSeq(rest) /\ Range(rest) = {r}
    BY Pieces
  <1>7. ASSUME was' = "clean" PROVE Aims({a, b} \cup W, content, head, views, wd, t)
    <2>1. op.view = head
      BY <1>1, <1>7, FoundClean DEF op
    <2>2. \A w \in W : w.w \in {"pop", "append", "redo"}
      OBVIOUS
    <2> HIDE DEF W, hs
    <2> QED
      BY <2>1, <2>2, AimsAtTree
  <1> HIDE DEF hs, t, save, write, log, rest, d1, d2, d3, q, a, b, c, r, W
  <1>8. IsSeq(d1) /\ Range(d1) = {b, c}
    BY <1>5, <1>6, RangeBoth DEF d1
  <1>9. IsSeq(d2) /\ Range(d2) = {b, c, r}
    BY <1>6, <1>8, RangeBoth DEF d2
  <1>10. Range(q) = {a, b} \cup W
    BY <1>4, <1>5, <1>9, RangeBoth DEF q, W
  <1> QED
    BY <1>1, <1>7, <1>10, BeginStaysClean

\* Every command, of those that are issued.
LEMMA CommandStaysClean ==
  ASSUME IInv, IInv', UndoUndisturbed, UndoInv, UndoInv', NEW p \in Proc, Command(p) PROVE CleanInv'
  <1>1. cmd[p] = "idle"
    BY DEF Command
  <1>2. ~Amend(p) /\ ~Gc(p) /\ ~Compact(p)
    <2>1. \A c \in {"amend", "gc", "compact"} : \A q : ~Begin(p, c, q)
      BY DEF Begin, UndoUndisturbed
    <2>2. ~Amend(p)
      BY <2>1 DEF Amend
    <2>3. ~Gc(p)
      BY <2>1 DEF Gc
    <2>4. ~Compact(p)
      BY <2>1, Zenon DEF Compact
    <2> QED
      BY <2>2, <2>3, <2>4
  <1> QED
    BY <1>1, <1>2, NeverHangs, SnapStaysClean, FinalizeStaysClean, ForkStaysClean, UndoStaysClean,
       RedoStaysClean, AbandonStaysClean, OperationsStayClean, CreateViewStaysClean,
       SwitchViewStaysClean DEF Command

\* An empty repository in an empty directory.
LEMMA InitIsClean == ASSUME Init, UndoInv PROVE CleanInv
  <1>1. views[head] = {} /\ wd = EmptyTree /\ \A p \in Proc : cmd[p] = "idle"
    BY RepositoryAssumption DEF Init
  <1>2. TreeOf({}) = EmptyTree
    BY Zenon DEF TreeOf, TreeOfIn
  <1>3. Current = EmptyTree
    BY <1>1, <1>2 DEF Current
  <1> QED
    BY <1>1, <1>3 DEF CleanInv, Conforms

\* A directory that a command found as the current view has it is left as the then
\* current view has it, but for raw files that this view does not have
\* (CleanStaysClean): what is left of the command's plan leads view and directory to
\* the same tree.
THEOREM DirectoryFollowsView == ASSUME CleanUndisturbed PROVE Spec => []CleanStaysClean
  <1>1. UndoUndisturbed /\ BlobsUndisturbed
    BY Marks DEF CleanUndisturbed, UndoUndisturbed, BlobsUndisturbed, Locked
  <1> DEFINE Inv == IInv /\ UndoInv /\ (~meddled => BlobInv)
             Clean == CleanInv
  <1>2. Spec => []Inv
    <2>1. Spec => [](IInv /\ Counted /\ UndoInv)
      BY <1>1, UndoInvHolds
    <2>2. Spec => [](IInv /\ (~meddled => BlobInv))
      BY <1>1, BlobInvHolds
    <2> QED
      BY <2>1, <2>2, PTL
  <1>3. Init /\ Inv => Clean
    BY InitIsClean
  <1>4. Inv /\ Inv' /\ Clean /\ [Next]_vars => Clean'
    <2> SUFFICES ASSUME Inv, Inv', CleanInv, [Next]_vars PROVE CleanInv'
      OBVIOUS
    <2>1. CASE UNCHANGED vars
      <3>1. UNCHANGED <<content, views, head, wd, cmd, todo, was, meddled>>
        BY <2>1 DEF vars, past
      <3> QED
        BY <3>1 DEF CleanInv, AimsAt, Quiet, Current, TreeOf
    <2>2. CASE Edit
      BY <2>2 DEF Edit, CleanInv
    <2>3. ASSUME NEW p \in Proc, Command(p) PROVE CleanInv'
      BY <1>1, <2>3, CommandStaysClean
    <2>4. ASSUME NEW p \in Proc, Crash(p) PROVE CleanInv'
      BY <2>4 DEF Crash, CleanInv
    <2>5. ASSUME NEW p \in Proc, Write(p) PROVE CleanInv'
      <3>1. meddled' = meddled
        BY <2>5, WriteMeddlesNot
      <3> QED
        BY <1>1, <2>5, <3>1, WriteStaysClean DEF CleanInv
    <2> QED
      BY <2>1, <2>2, <2>3, <2>4, <2>5 DEF Next
  <1>5. Clean => CleanStaysClean
    BY DEF CleanInv, CleanStaysClean, Conforms
  <1> HIDE DEF Inv, Clean
  <1> QED
    BY <1>2, <1>3, <1>4, <1>5, PTL DEF Spec
=============================================================================
