----------------------------- MODULE SyncProofs -----------------------------
(* Proofs about Sync, for any number of clients, any authors and transports,   *)
(* and every bound.  In this order: what a walk over the changes reaches, and  *)
(* so the ancestors; queues; the delta of a push; the inductive invariant; the  *)
(* types; what the others may count on outlasts a step; the steps one by one;   *)
(* the theorems; and the same for NativeSync, whose clients use no other        *)
(* transport.                                                                  *)
EXTENDS NativeSync, Induction, SequenceTheorems, FiniteSetTheorems

-----------------------------------------------------------------------------
(* Walks.                                                                    *)

Numbers == 1..MaxChanges

\* A walk leads to lower numbers.
Downward(leads) ==
  /\ DOMAIN leads \subseteq Numbers
  /\ \A x \in DOMAIN leads : leads[x] \subseteq 1..(x - 1)

\* The levels of a walk.
Levels(hs, leads) ==
  LET Level[n \in 0..MaxChanges] ==
        IF n = 0 THEN hs
        ELSE LET s == Level[n - 1] IN s \cup UNION {leads[x] : x \in s \cap DOMAIN leads}
  IN Level

\* The levels of Reached are those: what it computes is what it says.
LEMMA LevelsAreLevels ==
  ASSUME NEW hs, NEW leads
  PROVE  AreLevels(Levels(hs, leads), MaxChanges, hs, leads)
  <1>1. \E L : AreLevels(L, MaxChanges, hs, leads)
    BY LevelsExist, SyncAssumption
  <1>2. \E L : L = [n \in 0..MaxChanges |-> IF n = 0 THEN hs ELSE LET s == L[n - 1] IN s \cup UNION {leads[x] : x \in s \cap DOMAIN leads}]
    BY <1>1, Zenon DEF AreLevels, Further
  <1> QED
    BY <1>2, Zenon DEF Levels, AreLevels, Further

\* The last level is what the walk reaches; the first is where it starts, and
\* each follows from the one before.
LEMMA LastLevel ==
  ASSUME NEW hs, NEW leads
  PROVE  LET L == Levels(hs, leads)
         IN  /\ Reached(hs, leads) = L[MaxChanges]
             /\ L[0] = hs
             /\ \A n \in 1..MaxChanges : L[n] = Further(L[n - 1], leads)
  <1> DEFINE L == Levels(hs, leads)
  <1>1. Reached(hs, leads) = L[MaxChanges]
    BY Zenon DEF Reached, Levels
  <1>2. AreLevels(L, MaxChanges, hs, leads)
    BY LevelsAreLevels
  <1> HIDE DEF L
  <1>3. ASSUME NEW n \in 0..MaxChanges
        PROVE  L[n] = IF n = 0 THEN hs ELSE Further(L[n - 1], leads)
    BY <1>2, Zenon DEF AreLevels
  <1>4. 0 \in 0..MaxChanges /\ \A n \in 1..MaxChanges : n \in 0..MaxChanges /\ n # 0
    BY SyncAssumption
  <1>5. L[0] = hs /\ \A n \in 1..MaxChanges : L[n] = Further(L[n - 1], leads)
    BY <1>3, <1>4, Zenon
  <1> QED
    BY <1>1, <1>5 DEF L

\* A walk does not lose where it starts from.
LEMMA ReachesItsStart ==
  ASSUME NEW hs, NEW leads
  PROVE  hs \subseteq Reached(hs, leads)
  <1> DEFINE L == Levels(hs, leads)
             S == {n \in Nat : hs \subseteq L[n]}
  <1>1. /\ Reached(hs, leads) = L[MaxChanges]
        /\ L[0] = hs
        /\ \A n \in 1..MaxChanges : L[n] = Further(L[n - 1], leads)
    BY LastLevel
  <1> HIDE DEF L
  <1>2. 0 \in S
    BY <1>1
  <1>3. ASSUME NEW n \in 1..MaxChanges, n - 1 \in S PROVE n \in S
    <2>1. L[n - 1] \subseteq L[n]
      BY <1>1 DEF Further
    <2> QED
      BY <1>3, <2>1
  <1> HIDE DEF S
  <1>4. 0..MaxChanges \subseteq S
    BY <1>2, <1>3, UpToInduction, SyncAssumption
  <1> QED
    BY <1>1, <1>4, SyncAssumption DEF S

\* It stays in every set that has its start and is closed under what it follows.
LEMMA ReachedIsLeast ==
  ASSUME NEW hs, NEW leads, NEW T, hs \subseteq T,
         \A x \in T \cap DOMAIN leads : leads[x] \subseteq T
  PROVE  Reached(hs, leads) \subseteq T
  <1> DEFINE L == Levels(hs, leads)
             S == {n \in Nat : L[n] \subseteq T}
  <1>1. /\ Reached(hs, leads) = L[MaxChanges]
        /\ L[0] = hs
        /\ \A n \in 1..MaxChanges : L[n] = Further(L[n - 1], leads)
    BY LastLevel
  <1> HIDE DEF L
  <1>2. 0 \in S
    BY <1>1
  <1>3. ASSUME NEW n \in 1..MaxChanges, n - 1 \in S PROVE n \in S
    <2>1. L[n - 1] \subseteq T
      BY <1>3
    <2>2. Further(L[n - 1], leads) \subseteq T
      BY <2>1 DEF Further
    <2> QED
      BY <1>1, <2>2
  <1> HIDE DEF S
  <1>4. 0..MaxChanges \subseteq S
    BY <1>2, <1>3, UpToInduction, SyncAssumption
  <1> QED
    BY <1>1, <1>4, SyncAssumption DEF S

\* A walk that only leads to lower numbers is over after as many levels as there
\* are numbers: what it reaches is closed.
LEMMA ReachedIsClosed ==
  ASSUME NEW hs, hs \subseteq Numbers, NEW leads, Downward(leads)
  PROVE  \A x \in Reached(hs, leads) \cap DOMAIN leads : leads[x] \subseteq Reached(hs, leads)
  <1> DEFINE L == Levels(hs, leads)
             S == {n \in Nat : \A x \in L[n] \cap DOMAIN leads : leads[x] \subseteq L[n] \/ x <= MaxChanges - n}
  <1>1. /\ Reached(hs, leads) = L[MaxChanges]
        /\ L[0] = hs
        /\ \A n \in 1..MaxChanges : L[n] = Further(L[n - 1], leads)
    BY LastLevel
  <1> HIDE DEF L
  <1> USE SyncAssumption
  <1>2. 0 \in S
    <2>1. \A x \in hs : x \in 1..MaxChanges
      BY DEF Numbers
    <2>2. \A x \in L[0] : x <= MaxChanges - 0
      BY <1>1, <2>1
    <2> QED
      BY <2>2
  <1>3. ASSUME NEW n \in 1..MaxChanges, n - 1 \in S PROVE n \in S
    <2> DEFINE K == L[n - 1]
    <2>1. L[n] = K \cup UNION {leads[x] : x \in K \cap DOMAIN leads}
      BY <1>1 DEF Further
    <2>2. \A y \in K \cap DOMAIN leads : leads[y] \subseteq K \/ y <= MaxChanges - (n - 1)
      BY <1>3
    <2> HIDE DEF K
    <2>3. ASSUME NEW x \in L[n] \cap DOMAIN leads, ~(leads[x] \subseteq L[n])
          PROVE  x <= MaxChanges - n
      <3>1. x \notin K
        BY <2>1, <2>3
      <3>2. PICK y \in K \cap DOMAIN leads : x \in leads[y]
        BY <2>1, <2>3, <3>1
      <3>3. y <= MaxChanges - (n - 1)
        BY <2>2, <3>1, <3>2
      <3>4. y \in Numbers /\ x \in 1..(y - 1)
        BY <3>2 DEF Downward
      <3> QED
        BY <3>3, <3>4 DEF Numbers
    <2> QED
      BY <2>3
  <1> HIDE DEF S
  <1>4. 0..MaxChanges \subseteq S
    BY <1>2, <1>3, UpToInduction
  <1>5. MaxChanges \in S
    BY <1>4
  <1>6. \A x \in L[MaxChanges] \cap DOMAIN leads : leads[x] \subseteq L[MaxChanges] \/ x <= 0
    BY <1>5 DEF S
  <1>7. \A x \in DOMAIN leads : ~(x <= 0)
    BY DEF Downward, Numbers
  <1> QED
    BY <1>1, <1>6, <1>7

-----------------------------------------------------------------------------
(* What changes hold, and their ancestors.                                   *)

Content == [deps : SUBSET Numbers, author : Authors \cup {"server"}, origin : Numbers]

\* Changes are numbered as they are made, and depend on those made before.
Contents(ch) ==
  /\ \E k \in 0..MaxChanges : ch \in [1..k -> Content]
  /\ \A x \in DOMAIN ch : ch[x].deps \subseteq 1..(x - 1)

\* What a change is holds for good.
Extends(new, ch) == DOMAIN ch \subseteq DOMAIN new /\ \A x \in DOMAIN ch : new[x] = ch[x]

\* ancestors(Ids, hs), of the changes ch.
Anc(ch, hs) == Reached(hs, [x \in DOMAIN ch |-> ch[x].deps])

\* What a change depends on is a change, made before.
LEMMA ContentsFacts ==
  ASSUME NEW ch, Contents(ch)
  PROVE  /\ DOMAIN ch \subseteq Numbers
         /\ \A x \in DOMAIN ch : /\ ch[x] \in Content /\ ch[x].deps \subseteq DOMAIN ch
                                 /\ ch[x].deps \subseteq 1..(x - 1)
                                 /\ ch[x].origin \in Numbers
         /\ Downward([x \in DOMAIN ch |-> ch[x].deps])
  <1>1. PICK k \in 0..MaxChanges : ch \in [1..k -> Content]
    BY DEF Contents
  <1>2. DOMAIN ch = 1..k /\ 1..k \subseteq Numbers
    BY <1>1, SyncAssumption DEF Numbers
  <1>3. ASSUME NEW x \in DOMAIN ch
        PROVE  ch[x] \in Content /\ ch[x].deps \subseteq 1..(x - 1) /\ 1..(x - 1) \subseteq 1..k
    BY <1>1, <1>2 DEF Contents
  <1>4. \A x \in DOMAIN ch : ch[x].origin \in Numbers
    BY <1>3 DEF Content
  <1>5. Downward([x \in DOMAIN ch |-> ch[x].deps])
    BY <1>2, <1>3 DEF Downward
  <1> QED
    BY <1>2, <1>3, <1>4, <1>5

\* The ancestors are the least set that has the heads and what its members depend on.
LEMMA AncIsClosed ==
  ASSUME NEW ch, Contents(ch), NEW hs, hs \subseteq DOMAIN ch
  PROVE  /\ hs \subseteq Anc(ch, hs)
         /\ Anc(ch, hs) \subseteq DOMAIN ch
         /\ \A x \in Anc(ch, hs) : ch[x].deps \subseteq Anc(ch, hs)
  <1> DEFINE leads == [x \in DOMAIN ch |-> ch[x].deps]
  <1>1. /\ DOMAIN ch \subseteq Numbers
        /\ \A x \in DOMAIN ch : ch[x].deps \subseteq DOMAIN ch
        /\ Downward(leads)
    BY ContentsFacts
  <1>2. DOMAIN leads = DOMAIN ch /\ \A x \in DOMAIN ch : leads[x] = ch[x].deps
    OBVIOUS
  <1>3. Anc(ch, hs) = Reached(hs, leads)
    BY DEF Anc
  <1> HIDE DEF leads
  <1>4. hs \subseteq Reached(hs, leads)
    BY ReachesItsStart
  <1>5. Reached(hs, leads) \subseteq DOMAIN ch
    <2>1. \A x \in DOMAIN ch \cap DOMAIN leads : leads[x] \subseteq DOMAIN ch
      BY <1>1, <1>2
    <2> QED
      BY <2>1, ReachedIsLeast
  <1>6. \A x \in Reached(hs, leads) \cap DOMAIN leads : leads[x] \subseteq Reached(hs, leads)
    <2>1. hs \subseteq Numbers
      BY <1>1
    <2> QED
      BY <1>1, <2>1, ReachedIsClosed
  <1> QED
    BY <1>2, <1>3, <1>4, <1>5, <1>6

\* Nothing else is reached: a closed set with the heads has the ancestors.
LEMMA AncIsLeast ==
  ASSUME NEW ch, NEW hs, NEW T, hs \subseteq T,
         \A x \in T \cap DOMAIN ch : ch[x].deps \subseteq T
  PROVE  Anc(ch, hs) \subseteq T
  <1> DEFINE leads == [x \in DOMAIN ch |-> ch[x].deps]
  <1>1. \A x \in T \cap DOMAIN leads : leads[x] \subseteq T
    OBVIOUS
  <1> HIDE DEF leads
  <1>2. Reached(hs, leads) \subseteq T
    BY <1>1, ReachedIsLeast
  <1> QED
    BY <1>2 DEF Anc, leads

\* The ancestors of ancestors are ancestors.
LEMMA AncWithin ==
  ASSUME NEW ch, Contents(ch), NEW hs, NEW gs, gs \subseteq DOMAIN ch, hs \subseteq Anc(ch, gs)
  PROVE  Anc(ch, hs) \subseteq Anc(ch, gs)
  BY AncIsClosed, AncIsLeast

\* More heads have more ancestors.
LEMMA AncOfMore ==
  ASSUME NEW ch, Contents(ch), NEW hs, NEW gs, gs \subseteq DOMAIN ch, hs \subseteq gs
  PROVE  Anc(ch, hs) \subseteq Anc(ch, gs)
  BY AncIsClosed, AncWithin

\* The ancestors of several changes are those of each.
LEMMA AncOfEach ==
  ASSUME NEW ch, Contents(ch), NEW hs, hs \subseteq DOMAIN ch
  PROVE  Anc(ch, hs) = UNION {Anc(ch, {x}) : x \in hs}
  <1> DEFINE T == UNION {Anc(ch, {x}) : x \in hs}
  <1>1. \A x \in hs : {x} \subseteq DOMAIN ch
    OBVIOUS
  <1>2. \A x \in hs : x \in Anc(ch, {x}) /\ \A y \in Anc(ch, {x}) : ch[y].deps \subseteq Anc(ch, {x})
    BY <1>1, AncIsClosed
  <1>3. hs \subseteq T /\ \A y \in T : ch[y].deps \subseteq T
    BY <1>2
  <1> HIDE DEF T
  <1>4. Anc(ch, hs) \subseteq T
    BY <1>3, AncIsLeast
  <1>5. \A x \in hs : Anc(ch, {x}) \subseteq Anc(ch, hs)
    BY AncOfMore
  <1> QED
    BY <1>4, <1>5 DEF T

\* Those of one change are itself and those of what it depends on.
LEMMA AncOfOne ==
  ASSUME NEW ch, Contents(ch), NEW x \in DOMAIN ch
  PROVE  Anc(ch, {x}) = {x} \cup Anc(ch, ch[x].deps)
  <1> DEFINE T == {x} \cup Anc(ch, ch[x].deps)
  <1>1. ch[x].deps \subseteq DOMAIN ch
    BY ContentsFacts
  <1>2. /\ ch[x].deps \subseteq Anc(ch, ch[x].deps)
        /\ \A y \in Anc(ch, ch[x].deps) : ch[y].deps \subseteq Anc(ch, ch[x].deps)
    BY <1>1, AncIsClosed
  <1>3. {x} \subseteq T /\ \A y \in T : ch[y].deps \subseteq T
    BY <1>2
  <1> HIDE DEF T
  <1>4. Anc(ch, {x}) \subseteq T
    BY <1>3, AncIsLeast
  <1>5. x \in Anc(ch, {x}) /\ ch[x].deps \subseteq Anc(ch, {x})
    BY AncIsClosed
  <1>6. Anc(ch, ch[x].deps) \subseteq Anc(ch, {x})
    BY <1>5, AncWithin
  <1> QED
    BY <1>4, <1>5, <1>6 DEF T

\* A change never gets other ancestors.
LEMMA AncIsForGood ==
  ASSUME NEW ch, Contents(ch), NEW new, Contents(new), Extends(new, ch),
         NEW hs, hs \subseteq DOMAIN ch
  PROVE  Anc(new, hs) = Anc(ch, hs)
  <1>1. hs \subseteq DOMAIN new
    BY DEF Extends
  <1>2. /\ hs \subseteq Anc(ch, hs) /\ Anc(ch, hs) \subseteq DOMAIN ch
        /\ \A x \in Anc(ch, hs) : ch[x].deps \subseteq Anc(ch, hs)
    BY AncIsClosed
  <1>3. /\ hs \subseteq Anc(new, hs)
        /\ \A x \in Anc(new, hs) : new[x].deps \subseteq Anc(new, hs)
    BY <1>1, AncIsClosed
  <1>4. Anc(new, hs) \subseteq Anc(ch, hs)
    <2>1. \A x \in Anc(ch, hs) : new[x].deps \subseteq Anc(ch, hs)
      BY <1>2 DEF Extends
    <2> QED
      BY <1>2, <2>1, AncIsLeast
  <1>5. Anc(ch, hs) \subseteq Anc(new, hs)
    <2>1. \A x \in Anc(new, hs) \cap DOMAIN ch : ch[x].deps \subseteq Anc(new, hs)
      BY <1>3 DEF Extends
    <2> QED
      BY <1>3, <2>1, AncIsLeast
  <1> QED
    BY <1>4, <1>5

-----------------------------------------------------------------------------
(* Queues.                                                                   *)

\* The members of a queue, and what is left when its head is taken.
LEMMA MembersOf ==
  ASSUME NEW S, NEW s \in Seq(S)
  PROVE  /\ ToSet(s) \subseteq S
         /\ DOMAIN s = 1..Len(s)
         /\ s # <<>> => /\ Head(s) = s[1] /\ Len(s) \in Nat \ {0}
                        /\ Head(s) \in ToSet(s)
                        /\ Tail(s) \in Seq(S)
                        /\ ToSet(s) = {Head(s)} \cup ToSet(Tail(s))
  <1>1. ToSet(s) \subseteq S /\ DOMAIN s = 1..Len(s)
    BY DEF ToSet
  <1>2. ASSUME s # <<>>
        PROVE  /\ Head(s) = s[1] /\ Len(s) \in Nat \ {0}
               /\ Head(s) \in ToSet(s)
               /\ Tail(s) \in Seq(S)
               /\ ToSet(s) = {Head(s)} \cup ToSet(Tail(s))
    <2>1. Head(s) = s[1] /\ Len(s) \in Nat \ {0}
      BY <1>2
    <2>2. Tail(s) \in Seq(S) /\ Len(Tail(s)) = Len(s) - 1
          /\ \A i \in 1..Len(Tail(s)) : Tail(s)[i] = s[i + 1]
      BY <1>2, HeadTailProperties
    <2> DEFINE t == Tail(s)
    <2> HIDE DEF t
    <2>3. t \in Seq(S) /\ Len(t) = Len(s) - 1 /\ \A i \in 1..Len(t) : t[i] = s[i + 1]
      BY <2>2 DEF t
    <2>4. ToSet(s) \subseteq {s[1]} \cup ToSet(t)
      <3>1. ASSUME NEW i \in 1..Len(s), i # 1 PROVE s[i] \in ToSet(t)
        <4>1. i - 1 \in 1..Len(t) /\ (i - 1) + 1 = i
          BY <2>1, <2>3, <3>1
        <4>2. t[i - 1] = s[i] /\ i - 1 \in DOMAIN t
          BY <2>3, <4>1
        <4> QED
          BY <4>2 DEF ToSet
      <3> QED
        BY <3>1 DEF ToSet
    <2>5. {s[1]} \cup ToSet(t) \subseteq ToSet(s)
      BY <2>1, <2>3 DEF ToSet
    <2> QED
      BY <2>1, <2>3, <2>4, <2>5 DEF t
  <1> QED
    BY <1>1, <1>2

\* What is appended to a queue joins its members.
LEMMA MembersOfConcat ==
  ASSUME NEW S, NEW s \in Seq(S), NEW t \in Seq(S)
  PROVE  s \o t \in Seq(S) /\ ToSet(s \o t) = ToSet(s) \cup ToSet(t)
  <1> DEFINE u == s \o t
  <1>1. /\ u \in Seq(S) /\ Len(u) = Len(s) + Len(t)
        /\ \A i \in 1..Len(s) + Len(t) : u[i] = IF i <= Len(s) THEN s[i] ELSE t[i - Len(s)]
    BY ConcatProperties
  <1> HIDE DEF u
  <1>2. ToSet(u) \subseteq ToSet(s) \cup ToSet(t)
    <2>1. ASSUME NEW i \in 1..Len(u) PROVE u[i] \in ToSet(s) \cup ToSet(t)
      <3>1. CASE i <= Len(s)
        <4>1. u[i] = s[i] /\ i \in DOMAIN s
          BY <1>1, <3>1
        <4> QED
          BY <4>1 DEF ToSet
      <3>2. CASE ~(i <= Len(s))
        <4>1. u[i] = t[i - Len(s)] /\ i - Len(s) \in DOMAIN t
          BY <1>1, <3>2
        <4> QED
          BY <4>1 DEF ToSet
      <3> QED
        BY <3>1, <3>2
    <2> QED
      BY <1>1, <2>1 DEF ToSet
  <1>3. ToSet(s) \subseteq ToSet(u)
    <2>1. \A i \in DOMAIN s : i \in DOMAIN u /\ u[i] = s[i]
      BY <1>1
    <2> QED
      BY <2>1 DEF ToSet
  <1>4. ToSet(t) \subseteq ToSet(u)
    <2>1. ASSUME NEW i \in DOMAIN t
          PROVE  i + Len(s) \in DOMAIN u /\ u[i + Len(s)] = t[i]
      <3>1. i \in 1..Len(t) /\ Len(s) \in Nat /\ Len(t) \in Nat
        OBVIOUS
      <3>2. i + Len(s) \in 1..Len(s) + Len(t) /\ ~(i + Len(s) <= Len(s)) /\ (i + Len(s)) - Len(s) = i
        BY <3>1
      <3> QED
        BY <1>1, <3>2
    <2> QED
      BY <2>1 DEF ToSet
  <1> QED
    BY <1>1, <1>2, <1>3, <1>4 DEF u

\* A finite set has an order, and every order has all of the set.
LEMMA OrdersOf ==
  ASSUME NEW S, IsFiniteSet(S)
  PROVE  /\ SetToSeqs(S) # {}
         /\ \A q \in SetToSeqs(S) : q \in Seq(S) /\ ToSet(q) = S
  <1> DEFINE D == 1..Cardinality(S)
  <1>1. Cardinality(S) \in Nat /\ ExistsBijection(D, S)
    BY FS_CardinalityType
  <1>2. SetToSeqs(S) = {f \in [D -> S] : \A i, j \in D : i # j => f[i] # f[j]}
    BY DEF SetToSeqs
  <1>3. IsFiniteSet(D) /\ Cardinality(D) = Cardinality(S)
    BY <1>1, FS_Interval
  <1>4. SetToSeqs(S) # {}
    BY <1>1, <1>2 DEF ExistsBijection, Bijection, Injection, IsInjective
  <1>5. ASSUME NEW q \in SetToSeqs(S) PROVE q \in Seq(S) /\ ToSet(q) = S
    <2>1. q \in [D -> S] /\ \A i, j \in D : i # j => q[i] # q[j]
      BY <1>2
    <2>2. q \in Injection(D, S)
      BY <2>1 DEF Injection, IsInjective
    <2>3. q \in Surjection(D, S)
      BY <1>3, <2>2, FS_Injection
    <2> HIDE DEF D
    <2>4. ToSet(q) = S
      BY <2>1, <2>3 DEF ToSet, Surjection
    <2>5. q \in Seq(S)
      BY <1>1, <2>1, SeqDef DEF D
    <2> QED
      BY <2>4, <2>5
  <1> QED
    BY <1>4, <1>5

\* Reversed, a queue has the same members (Post sends the roots first).
LEMMA MembersReversed ==
  ASSUME NEW S, NEW s \in Seq(S)
  PROVE  /\ Reverse(s) \in Seq(S)
         /\ Len(Reverse(s)) = Len(s)
         /\ \A i \in 1..Len(s) : Reverse(s)[i] = s[(Len(s) - i) + 1]
         /\ ToSet(Reverse(s)) = ToSet(s)
  <1> DEFINE r == Reverse(s)
             n == Len(s)
  <1>1. n \in Nat /\ DOMAIN s = 1..n /\ \A i \in 1..n : s[i] \in S
    OBVIOUS
  <1>2. r = [i \in 1..n |-> s[(n - i) + 1]]
    BY DEF Reverse
  <1> HIDE DEF r, n
  <1>3. \A i \in 1..n : (n - i) + 1 \in 1..n /\ (n - ((n - i) + 1)) + 1 = i
    BY <1>1
  <1>4. r \in [1..n -> S] /\ \A i \in 1..n : r[i] = s[(n - i) + 1]
    BY <1>1, <1>2, <1>3
  <1>5. r \in Seq(S) /\ Len(r) = n /\ DOMAIN r = 1..n
    BY <1>1, <1>4
  <1>6. ToSet(r) \subseteq ToSet(s)
    BY <1>1, <1>3, <1>4, <1>5 DEF ToSet
  <1>7. ASSUME NEW i \in 1..n PROVE s[i] \in ToSet(r)
    <2>1. r[(n - i) + 1] = s[i] /\ (n - i) + 1 \in 1..n
      BY <1>3, <1>4
    <2> QED
      BY <1>5, <2>1 DEF ToSet
  <1>8. ToSet(s) \subseteq ToSet(r)
    BY <1>1, <1>7 DEF ToSet
  <1> QED
    BY <1>4, <1>5, <1>6, <1>8 DEF r, n

-----------------------------------------------------------------------------
(* The delta of a push.                                                      *)

\* There are finitely many changes: a set of them can be queued.
LEMMA ChangesAreFinite ==
  ASSUME NEW ch, Contents(ch), NEW s, s \subseteq DOMAIN ch
  PROVE  IsFiniteSet(s)
  <1>1. s \in SUBSET Numbers
    BY ContentsFacts
  <1>2. IsFiniteSet(1..MaxChanges)
    BY FS_Interval, SyncAssumption
  <1>3. IsFiniteSet(Numbers)
    BY <1>2 DEF Numbers
  <1> QED
    BY <1>1, <1>3, FS_Subset

\* What a change depends on has fewer ancestors.
LEMMA DependenciesAreLower ==
  ASSUME NEW ch, Contents(ch), NEW x \in DOMAIN ch, NEW y \in ch[x].deps
  PROVE  Cardinality(Anc(ch, {y})) < Cardinality(Anc(ch, {x}))
  <1>0. /\ DOMAIN ch \subseteq Numbers
        /\ \A z \in DOMAIN ch : ch[z].deps \subseteq DOMAIN ch /\ ch[z].deps \subseteq 1..(z - 1)
    BY ContentsFacts
  <1>1. /\ y \in DOMAIN ch /\ y \in 1..(x - 1) /\ x \in Nat
        /\ \A z \in DOMAIN ch : z \in Nat /\ ch[z].deps \subseteq 1..(z - 1)
    BY <1>0 DEF Numbers
  <1>2. {y} \subseteq DOMAIN ch /\ {x} \subseteq DOMAIN ch
    BY <1>1
  <1>3. Anc(ch, {y}) \subseteq Anc(ch, {x})
    <2>1. y \in Anc(ch, {x})
      BY <1>2, AncIsClosed
    <2> QED
      BY <1>2, <2>1, AncWithin
  <1>4. x \in Anc(ch, {x})
    BY <1>2, AncIsClosed
  <1>5. x \notin Anc(ch, {y})
    <2>1. {y} \subseteq 1..(x - 1)
      BY <1>1
    <2>2. \A z \in 1..(x - 1) \cap DOMAIN ch : ch[z].deps \subseteq 1..(x - 1)
      BY <1>1
    <2>3. Anc(ch, {y}) \subseteq 1..(x - 1)
      BY <2>1, <2>2, AncIsLeast
    <2> QED
      BY <1>1, <2>3
  <1>6. IsFiniteSet(Anc(ch, {x})) /\ IsFiniteSet(Anc(ch, {y}))
    BY <1>2, AncIsClosed, ChangesAreFinite
  <1>7. Cardinality(Anc(ch, {x})) \in Nat /\ Cardinality(Anc(ch, {y})) \in Nat
    BY <1>6, FS_CardinalityType
  <1>8. /\ Cardinality(Anc(ch, {y})) <= Cardinality(Anc(ch, {x}))
        /\ Cardinality(Anc(ch, {x})) = Cardinality(Anc(ch, {y})) => Anc(ch, {x}) = Anc(ch, {y})
    <2>1. Anc(ch, {y}) \in SUBSET Anc(ch, {x})
      BY <1>3
    <2> QED
      BY <1>6, <2>1, FS_Subset
  <1> QED
    BY <1>4, <1>5, <1>7, <1>8

\* With what is cut off, the delta has all that its changes depend on, and each
\* of them after the change itself; and it has the heads.
LEMMA DeltaIsClosed ==
  ASSUME Contents(change), NEW c, store[c] \subseteq Ids, view[c] \subseteq Ids,
         NEW cut, NEW q \in push_delta(c, cut)
  PROVE  /\ q \in Seq(Ids)
         /\ view[c] \subseteq cut \cup ToSet(q)
         /\ \A i \in 1..Len(q) :
              change[q[i]].deps \subseteq cut \cup {q[j] : j \in (i + 1)..Len(q)}
  <1> DEFINE leads == [x \in store[c] |-> IF x \in cut THEN {} ELSE change[x].deps]
             all == Reached(view[c], leads)
             delta == all \ cut
             Height(x) == Cardinality(ancestors(Ids, {x}))
  <1>1. /\ delta \subseteq store[c]
        /\ q \in SetToSeqs(delta)
        /\ \A i, j \in DOMAIN q : Height(q[i]) < Height(q[j]) => j < i
    <2>1. push_delta(c, cut) =
            IF delta \subseteq store[c]
            THEN {s \in SetToSeqs(delta) : \A i, j \in DOMAIN s : Height(s[i]) < Height(s[j]) => j < i}
            ELSE {}
      BY Zenon DEF push_delta
    <2> HIDE DEF delta, Height
    <2> QED
      BY <2>1
  <1>2. /\ DOMAIN change \subseteq Numbers
        /\ \A x \in Ids : change[x].deps \subseteq 1..(x - 1) /\ change[x].deps \subseteq Ids
    BY ContentsFacts DEF Ids
  <1>3. Downward(leads)
    BY <1>2 DEF Downward, Ids
  <1>4. DOMAIN leads = store[c] /\ \A x \in store[c] : x \notin cut => leads[x] = change[x].deps
    OBVIOUS
  <1> HIDE DEF leads
  <1>5. view[c] \subseteq all
    BY ReachesItsStart
  <1>6. \A x \in all \cap DOMAIN leads : leads[x] \subseteq all
    <2>1. view[c] \subseteq Numbers
      BY <1>2 DEF Ids
    <2> QED
      BY <1>3, <2>1, ReachedIsClosed
  <1> HIDE DEF all
  <1>7. delta \subseteq Ids
    BY <1>1
  <1>8. \A x \in delta : change[x].deps \subseteq cut \cup delta
    BY <1>1, <1>4, <1>6
  <1>9. view[c] \subseteq cut \cup delta
    BY <1>5
  <1>10. IsFiniteSet(delta)
    BY <1>7, ChangesAreFinite DEF Ids
  <1> HIDE DEF delta
  <1>11. q \in Seq(delta) /\ ToSet(q) = delta
    BY <1>1, <1>10, OrdersOf
  <1>12. q \in Seq(Ids)
    BY <1>7, <1>11
  <1>13. DOMAIN q = 1..Len(q) /\ Len(q) \in Nat
    BY <1>11
  <1>14. ASSUME NEW i \in 1..Len(q), NEW y \in change[q[i]].deps, y \notin cut
         PROVE  y \in {q[j] : j \in (i + 1)..Len(q)}
    <2>1. q[i] \in delta /\ q[i] \in Ids
      BY <1>7, <1>11
    <2>2. y \in delta
      BY <1>8, <1>14, <2>1
    <2>3. PICK j \in 1..Len(q) : y = q[j]
      BY <1>11, <1>13, <2>2 DEF ToSet
    <2>4. Cardinality(Anc(change, {y})) < Cardinality(Anc(change, {q[i]}))
      BY <1>14, <2>1, DependenciesAreLower DEF Ids
    <2>5. Height(y) < Height(q[i])
      BY <2>4 DEF Anc, ancestors, Ids
    <2>6. i < j
      BY <1>1, <1>13, <2>3, <2>5
    <2> QED
      BY <1>13, <2>3, <2>6
  <1> QED
    BY <1>9, <1>11, <1>12, <1>14

-----------------------------------------------------------------------------
(* The invariant, from types to what each process may count on.              *)

Fetches(ids) ==
  [at : {"fetch", "blob"}, command : {"pull", "push"}, via : Transports, heads : SUBSET ids,
   work : SUBSET Numbers, graph : SUBSET ids, queue : Seq(ids), seen : SUBSET ids]

Sends(ids) ==
  [at : {"send", "sendblob", "wait"}, command : {"push"}, via : Transports, heads : SUBSET ids,
   queue : Seq(ids), remote : SUBSET ids, work : SUBSET Numbers]

Posts(ids) ==
  [at : {"write", "loaded"}, todo : Seq(ids), heads : SUBSET ids,
   map : UNION {[d -> ids] : d \in SUBSET ids}, existing : SUBSET ids]

Ends == [command : {"none", "pull", "push"}, result : {"ok", "failed", "killed"}, work : SUBSET Numbers]

Typed ==
  /\ Contents(change)
  /\ store \in [Repos -> SUBSET Ids]
  /\ view \in [Repos -> SUBSET Ids]
  /\ proc \in [Clients -> {Idle} \cup Fetches(Ids) \cup Sends(Ids)]
  /\ post \in [Clients -> {None} \cup Posts(Ids)]
  /\ last \in [Clients -> Ends]
  /\ acked \subseteq Ids /\ direct \subseteq Ids

\* A process that fetches, and one that has read the hub's view to write it by path.
Pulls(p) == p.at \in {"fetch", "blob"}
ByPath(p) == p.at \in {"send", "sendblob"} /\ p.via = "path"

\* Where nothing was left half written, the store st has what its changes depend
\* on, but for what the fetch p has queued: and what it has seen is in the store.
FetchGoesOn(ch, st, p, whole) ==
  /\ whole => \A x \in st : (p.at = "blob" => x # Head(p.queue)) =>
                ch[x].deps \subseteq st \cup (IF Pulls(p) THEN ToSet(p.queue) ELSE {})
  /\ Pulls(p) => p.seen \subseteq st
  /\ p.at = "blob" => p.queue # <<>> /\ Head(p.queue) \in st

\* The changes of the hub with no transient author in their history, but for what
\* was pushed as it is.
Publishable(ch, hub, dir) == {x \in hub : \A y \in Anc(ch, {x}) \ Anc(ch, dir) : ch[y].author # "transient"}
Published == Publishable(change, store[Hub], direct)

\* A push by path has queued what the hub lacks.
SendGoesOn(ch, hub, pub, p) ==
  /\ p.at = "sendblob" => p.via = "path"
  /\ ByPath(p) =>
       /\ p.heads \subseteq hub \cup ToSet(p.queue)
       /\ \A x \in ToSet(p.queue) : ch[x].deps \subseteq hub \cup ToSet(p.queue)
       /\ p.at = "sendblob" => p.queue # <<>> /\ Head(p.queue) \in hub
       /\ p.remote \subseteq pub

\* So has a push over HTTP; what a change depends on comes after it.
DeltaClosed(ch, pub, p) ==
  (p.at = "send" /\ p.via = "http") =>
    /\ p.heads \subseteq pub \cup ToSet(p.queue)
    /\ \A i \in 1..Len(p.queue) :
         ch[p.queue[i]].deps \subseteq pub \cup {p.queue[j] : j \in (i + 1)..Len(p.queue)}

\* The items of some changes and all that they depend on.
WorkOf(ch, hs) == {ch[x].origin : x \in Anc(ch, hs)}

\* A POST has published what it has written, or a change that has all of its work.
PostClosed(ch, hub, pub, q) ==
  q # None =>
    /\ q.heads \subseteq pub \cup DOMAIN q.map \cup ToSet(q.todo)
    /\ \A i \in 1..Len(q.todo) :
         ch[q.todo[i]].deps \subseteq pub \cup DOMAIN q.map \cup {q.todo[j] : j \in 1..(i - 1)}
    /\ DOMAIN q.map \subseteq hub
    /\ \A x \in DOMAIN q.map : q.map[x] \in pub /\ WorkOf(ch, {x}) \subseteq WorkOf(ch, {q.map[x]})
    /\ q.existing \subseteq pub
    /\ q.at = "loaded" => q.todo = <<>>

\* What was acknowledged is in every view of the hub that will be written back.
AckedRead(ch, a, p, q) ==
  /\ ByPath(p) => a \subseteq Anc(ch, p.remote)
  /\ (q # None /\ q.at = "loaded") => a \subseteq Anc(ch, q.existing)

OneAtATime(p, q) == p.at \in {"send", "sendblob", "fetch", "blob"} => q = None

\* A push has the work of the view v in its hands until it is over.
WorkKept(ch, p, q, l, v) ==
  /\ (p = Idle /\ l.command = "push" /\ l.result = "ok") => l.work \subseteq WorkOf(ch, v)
  /\ p.at \in {"send", "sendblob", "wait"} => p.heads = v /\ p.work \subseteq WorkOf(ch, v)
  /\ p.at = "wait" => p.via = "http" /\ (q # None => q.heads = p.heads)
  /\ (Pulls(p) /\ p.command = "push") => p.work \subseteq WorkOf(ch, p.heads)

ClientSound(c) ==
  /\ FetchGoesOn(change, store[c], proc[c], c \notin interrupted)
  /\ SendGoesOn(change, store[Hub], Published, proc[c])
  /\ DeltaClosed(change, Published, proc[c])
  /\ PostClosed(change, store[Hub], Published, post[c])
  /\ AckedRead(change, acked, proc[c], post[c])
  /\ OneAtATime(proc[c], post[c])
  /\ WorkKept(change, proc[c], post[c], last[c], view[c])

\* Whatever the hub still lacks is on its way to it.
ToSend(c) == IF ByPath(proc[c]) THEN ToSet(proc[c].queue) ELSE {}

HubSound ==
  /\ Hub \notin interrupted =>
       \A x \in store[Hub] : change[x].deps \subseteq store[Hub] \cup UNION {ToSend(c) : c \in Clients}
  /\ view[Hub] \subseteq Published
  /\ acked \subseteq Anc(change, view[Hub])

IInv == Typed /\ (\A c \in Clients : ClientSound(c)) /\ HubSound

-----------------------------------------------------------------------------
(* Types.                                                                    *)

\* A change is made: it has a new number, and the others are as they were.
LEMMA NewChange ==
  ASSUME Contents(change), NEW id \in Fresh, NEW d, d \subseteq Ids,
         NEW a \in Authors \cup {"server"}, NEW o \in Numbers,
         NEW new, new = With(id, d, a, o)
  PROVE  /\ Contents(new) /\ Extends(new, change)
         /\ DOMAIN new = Ids \cup {id}
         /\ id \notin Ids /\ id \in Numbers
         /\ new[id] = [deps |-> d, author |-> a, origin |-> o]
  <1> DEFINE c == [deps |-> d, author |-> a, origin |-> o]
  <1>1. PICK k \in 0..MaxChanges : change \in [1..k -> Content]
    BY DEF Contents
  <1>2. k \in Nat /\ Ids = 1..k
    BY <1>1, SyncAssumption DEF Ids
  <1>3. Cardinality(Ids) = k
    BY <1>2, FS_Interval
  <1>4. id = k + 1 /\ id \in 1..MaxChanges
    BY <1>3 DEF Fresh
  <1>5. Ids \cup {id} = 1..(k + 1) /\ id \notin Ids /\ id \in Numbers /\ k + 1 \in 0..MaxChanges
    BY <1>2, <1>4, SyncAssumption DEF Numbers
  <1>6. new = [x \in 1..(k + 1) |-> IF x = id THEN c ELSE change[x]]
    BY <1>5 DEF With
  <1>7. c \in Content
    <2>1. d \subseteq Numbers
      BY ContentsFacts DEF Ids
    <2> QED
      BY <2>1 DEF Content
  <1>8. new \in [1..(k + 1) -> Content] /\ DOMAIN new = 1..(k + 1)
    BY <1>1, <1>2, <1>4, <1>5, <1>6, <1>7
  <1>9. new[id] = c /\ \A x \in Ids : new[x] = change[x]
    BY <1>5, <1>6
  <1>10. \A x \in DOMAIN new : new[x].deps \subseteq 1..(x - 1)
    <2>1. new[id].deps = d /\ d \subseteq 1..(id - 1)
      BY <1>2, <1>4, <1>9
    <2>2. \A x \in Ids : new[x].deps \subseteq 1..(x - 1)
      BY <1>9 DEF Contents, Ids
    <2> QED
      BY <1>5, <1>8, <2>1, <2>2
  <1>11. Contents(new)
    BY <1>5, <1>8, <1>10 DEF Contents
  <1> QED
    BY <1>5, <1>8, <1>9, <1>11 DEF Extends, Ids

\* What is well formed still is with more changes.
LEMMA RecordsGrow ==
  ASSUME NEW ids, NEW more, ids \subseteq more
  PROVE  /\ Fetches(ids) \subseteq Fetches(more)
         /\ Sends(ids) \subseteq Sends(more)
         /\ Posts(ids) \subseteq Posts(more)
  <1>1. Seq(ids) \subseteq Seq(more)
    BY SeqMonotonic
  <1>2. SUBSET ids \subseteq SUBSET more
    OBVIOUS
  <1>3. UNION {[d -> ids] : d \in SUBSET ids} \subseteq UNION {[d -> more] : d \in SUBSET more}
    OBVIOUS
  <1>4. Fetches(ids) \subseteq Fetches(more)
    BY <1>1, <1>2 DEF Fetches
  <1>5. Sends(ids) \subseteq Sends(more)
    BY <1>1, <1>2 DEF Sends
  <1>6. Posts(ids) \subseteq Posts(more)
    <2> DEFINE ms(s) == UNION {[d -> s] : d \in SUBSET s}
    <2>1. ms(ids) \subseteq ms(more)
      BY <1>3
    <2> HIDE DEF ms
    <2>2. [at : {"write", "loaded"}, todo : Seq(ids), heads : SUBSET ids, map : ms(ids), existing : SUBSET ids]
            \subseteq [at : {"write", "loaded"}, todo : Seq(more), heads : SUBSET more, map : ms(more), existing : SUBSET more]
      BY <1>1, <1>2, <2>1
    <2> QED
      BY <2>2 DEF Posts, ms
  <1> QED
    BY <1>4, <1>5, <1>6

\* What a process and a POST are, by where they are.
LEMMA ProcessTypes ==
  ASSUME Typed, NEW c \in Clients
  PROVE  /\ proc[c].at \in {"idle", "fetch", "blob", "send", "sendblob", "wait"}
         /\ Pulls(proc[c]) => proc[c] \in Fetches(Ids)
         /\ proc[c].at \in {"send", "sendblob", "wait"} => proc[c] \in Sends(Ids)
         /\ proc[c].at = "idle" <=> proc[c] = Idle
         /\ post[c] # None => post[c] \in Posts(Ids)
         /\ c \in Repos /\ Hub \in Repos /\ c # Hub
         /\ store[c] \subseteq Ids /\ store[Hub] \subseteq Ids
         /\ view[c] \subseteq Ids /\ view[Hub] \subseteq Ids
  <1>1. proc[c] \in {Idle} \cup Fetches(Ids) \cup Sends(Ids)
    BY DEF Typed
  <1>2. \A p \in Fetches(Ids) : p.at \in {"fetch", "blob"}
    BY DEF Fetches
  <1>3. \A p \in Sends(Ids) : p.at \in {"send", "sendblob", "wait"}
    BY DEF Sends
  <1>4. Idle.at = "idle"
    BY DEF Idle
  <1>5. c \in Repos /\ Hub \in Repos /\ c # Hub
    BY SyncAssumption DEF Repos
  <1>6. store \in [Repos -> SUBSET Ids] /\ view \in [Repos -> SUBSET Ids] /\ post[c] \in {None} \cup Posts(Ids)
    BY DEF Typed
  <1> QED
    BY <1>1, <1>2, <1>3, <1>4, <1>5, <1>6 DEF Pulls

\* How a command ends.
LEMMA EndTypes ==
  ASSUME Typed, NEW c \in Clients, NEW result \in {"ok", "failed", "killed"}, NEW r,
         End(c, result, r), proc[c] # Idle
  PROVE  /\ proc' \in [Clients -> {Idle} \cup Fetches(Ids) \cup Sends(Ids)]
         /\ last' \in [Clients -> Ends]
         /\ proc'[c] = Idle
         /\ last'[c] = [command |-> proc[c].command, result |-> result, work |-> proc[c].work]
         /\ \A d \in Clients \ {c} : proc'[d] = proc[d] /\ last'[d] = last[d]
         /\ result = "ok" => interrupted' = interrupted
         /\ result # "ok" => interrupted' = interrupted \cup r
  <1> DEFINE l == [command |-> proc[c].command, result |-> result, work |-> proc[c].work]
  <1>1. proc[c] \in Fetches(Ids) \cup Sends(Ids)
    BY DEF Typed
  <1>2. proc[c].command \in {"none", "pull", "push"} /\ proc[c].work \in SUBSET Numbers
    BY <1>1 DEF Fetches, Sends
  <1>3. l \in Ends
    BY <1>2 DEF Ends
  <1>4. proc' = [proc EXCEPT ![c] = Idle] /\ last' = [last EXCEPT ![c] = l]
        /\ interrupted' = IF result = "ok" THEN interrupted ELSE interrupted \cup r
    BY DEF End
  <1>5. proc \in [Clients -> {Idle} \cup Fetches(Ids) \cup Sends(Ids)] /\ last \in [Clients -> Ends]
    BY DEF Typed
  <1> HIDE DEF l
  <1>6. proc'[c] = Idle /\ last'[c] = l /\ proc' \in [Clients -> {Idle} \cup Fetches(Ids) \cup Sends(Ids)]
        /\ last' \in [Clients -> Ends]
        /\ \A d \in Clients \ {c} : proc'[d] = proc[d] /\ last'[d] = last[d]
    BY <1>3, <1>4, <1>5
  <1> QED
    BY <1>4, <1>6 DEF l

-----------------------------------------------------------------------------
(* What the others may count on outlasts a step: the changes known, the hub's *)
(* and those pushed as they are only grow.                                   *)

\* So does its work: what a view holds does not depend on later changes.
LEMMA WorkIsForGood ==
  ASSUME NEW ch, Contents(ch), NEW new, Contents(new), Extends(new, ch),
         NEW hs, hs \subseteq DOMAIN ch
  PROVE  WorkOf(new, hs) = WorkOf(ch, hs)
  <1>1. Anc(new, hs) = Anc(ch, hs) /\ Anc(ch, hs) \subseteq DOMAIN ch
    BY AncIsForGood, AncIsClosed
  <1>2. \A x \in Anc(ch, hs) : new[x] = ch[x]
    BY <1>1 DEF Extends
  <1> QED
    BY <1>1, <1>2 DEF WorkOf

\* The ancestors of a view have no work but the view's.
LEMMA WorkOfMore ==
  ASSUME NEW ch, Contents(ch), NEW hs, NEW gs, gs \subseteq DOMAIN ch, hs \subseteq Anc(ch, gs)
  PROVE  WorkOf(ch, hs) \subseteq WorkOf(ch, gs)
  BY AncWithin DEF WorkOf

\* What is publishable stays so.
LEMMA PublishableGrows ==
  ASSUME NEW ch, Contents(ch), NEW new, Contents(new), Extends(new, ch),
         NEW hub, hub \subseteq DOMAIN ch, NEW hub2, hub \subseteq hub2,
         NEW dir, dir \subseteq DOMAIN ch, NEW dir2, dir2 \subseteq DOMAIN new, dir \subseteq dir2
  PROVE  Publishable(ch, hub, dir) \subseteq Publishable(new, hub2, dir2)
  <1>1. ASSUME NEW x \in Publishable(ch, hub, dir)
        PROVE  x \in Publishable(new, hub2, dir2)
    <2>1. x \in hub /\ x \in DOMAIN ch /\ x \in hub2
          /\ \A y \in Anc(ch, {x}) \ Anc(ch, dir) : ch[y].author # "transient"
      BY <1>1 DEF Publishable
    <2>2. Anc(new, {x}) = Anc(ch, {x}) /\ Anc(ch, {x}) \subseteq DOMAIN ch
      BY <2>1, AncIsForGood, AncIsClosed
    <2>3. Anc(ch, dir) \subseteq Anc(new, dir2)
      <3>1. Anc(new, dir) = Anc(ch, dir)
        BY AncIsForGood
      <3>2. Anc(new, dir) \subseteq Anc(new, dir2)
        BY AncOfMore
      <3> QED
        BY <3>1, <3>2
    <2>4. \A y \in Anc(new, {x}) \ Anc(new, dir2) : new[y].author # "transient"
      BY <2>1, <2>2, <2>3 DEF Extends
    <2> QED
      BY <2>1, <2>4 DEF Publishable
  <1> QED
    BY <1>1

\* A fetch goes on, whatever changes are made meanwhile.
LEMMA FetchKept ==
  ASSUME NEW ch, NEW new, Extends(new, ch), NEW st, st \subseteq DOMAIN ch,
         NEW p, NEW whole, NEW still, still => whole, FetchGoesOn(ch, st, p, whole)
  PROVE  FetchGoesOn(new, st, p, still)
  <1>1. \A x \in st : new[x] = ch[x]
    BY DEF Extends
  <1>2. Pulls(p) => p.seen \subseteq st
    BY DEF FetchGoesOn
  <1>3. p.at = "blob" => p.queue # <<>> /\ Head(p.queue) \in st
    BY DEF FetchGoesOn
  <1>4. ASSUME still, NEW x \in st, p.at = "blob" => x # Head(p.queue)
        PROVE  new[x].deps \subseteq st \cup (IF Pulls(p) THEN ToSet(p.queue) ELSE {})
    BY <1>1, <1>4, Zenon DEF FetchGoesOn
  <1> QED
    BY <1>2, <1>3, <1>4, Zenon DEF FetchGoesOn

\* A push by path goes on while the hub gets more changes.
LEMMA SendKept ==
  ASSUME NEW ch, NEW new, Extends(new, ch), NEW hub, NEW hub2, hub \subseteq hub2,
         NEW pub, NEW pub2, pub \subseteq pub2,
         NEW p, p.at \in {"send", "sendblob", "wait"} => p \in Sends(DOMAIN ch), SendGoesOn(ch, hub, pub, p)
  PROVE  SendGoesOn(new, hub2, pub2, p)
  <1>0. p.at = "sendblob" => p.via = "path"
    BY DEF SendGoesOn
  <1> SUFFICES ASSUME ByPath(p) PROVE SendGoesOn(new, hub2, pub2, p)
    BY <1>0 DEF SendGoesOn
  <1>1. p.queue \in Seq(DOMAIN ch)
    BY DEF ByPath, Sends
  <1>2. \A x \in ToSet(p.queue) : x \in DOMAIN ch
    BY <1>1, MembersOf
  <1>3. \A x \in ToSet(p.queue) : new[x] = ch[x]
    BY <1>2 DEF Extends
  <1>4. /\ p.heads \subseteq hub \cup ToSet(p.queue)
        /\ \A x \in ToSet(p.queue) : ch[x].deps \subseteq hub \cup ToSet(p.queue)
        /\ p.at = "sendblob" => p.queue # <<>> /\ Head(p.queue) \in hub
        /\ p.remote \subseteq pub
    BY DEF SendGoesOn
  <1>5. /\ p.heads \subseteq hub2 \cup ToSet(p.queue)
        /\ \A x \in ToSet(p.queue) : new[x].deps \subseteq hub2 \cup ToSet(p.queue)
        /\ p.at = "sendblob" => p.queue # <<>> /\ Head(p.queue) \in hub2
        /\ p.remote \subseteq pub2
    BY <1>3, <1>4
  <1> QED
    BY <1>0, <1>5 DEF SendGoesOn

\* So does a push over HTTP before its POST.
LEMMA DeltaKept ==
  ASSUME NEW ch, NEW new, Extends(new, ch), NEW pub, NEW pub2, pub \subseteq pub2,
         NEW p, p.at \in {"send", "sendblob", "wait"} => p \in Sends(DOMAIN ch), DeltaClosed(ch, pub, p)
  PROVE  DeltaClosed(new, pub2, p)
  <1> SUFFICES ASSUME p.at = "send", p.via = "http" PROVE DeltaClosed(new, pub2, p)
    BY DEF DeltaClosed
  <1> DEFINE q == p.queue
             After(i) == {q[j] : j \in (i + 1)..Len(q)}
  <1>1. q \in Seq(DOMAIN ch)
    BY DEF Sends
  <1>2. p.heads \subseteq pub \cup ToSet(q) /\ \A i \in 1..Len(q) : ch[q[i]].deps \subseteq pub \cup After(i)
    BY DEF DeltaClosed
  <1> HIDE DEF After
  <1>3. \A i \in 1..Len(q) : q[i] \in DOMAIN ch
    BY <1>1, ElementOfSeq
  <1>4. \A i \in 1..Len(q) : new[q[i]] = ch[q[i]]
    BY <1>3 DEF Extends
  <1>5. p.heads \subseteq pub2 \cup ToSet(q) /\ \A i \in 1..Len(q) : new[q[i]].deps \subseteq pub2 \cup After(i)
    BY <1>2, <1>4
  <1> QED
    BY <1>5 DEF DeltaClosed, After

\* So does its POST, written change by change on the server.
LEMMA PostKept ==
  ASSUME NEW ch, Contents(ch), NEW new, Contents(new), Extends(new, ch),
         NEW hub, NEW hub2, hub \subseteq hub2, NEW pub, NEW pub2, pub \subseteq pub2,
         NEW q, q # None => q \in Posts(DOMAIN ch), PostClosed(ch, hub, pub, q)
  PROVE  PostClosed(new, hub2, pub2, q)
  <1> SUFFICES ASSUME q # None PROVE PostClosed(new, hub2, pub2, q)
    BY DEF PostClosed
  <1> DEFINE m == q.map
             t == q.todo
             Before(i) == {t[j] : j \in 1..(i - 1)}
  <1>1. t \in Seq(DOMAIN ch) /\ DOMAIN m \subseteq DOMAIN ch /\ \A x \in DOMAIN m : m[x] \in DOMAIN ch
    BY DEF Posts
  <1>2. /\ q.heads \subseteq pub \cup DOMAIN m \cup ToSet(t)
        /\ \A i \in 1..Len(t) : ch[t[i]].deps \subseteq pub \cup DOMAIN m \cup Before(i)
        /\ \A x \in DOMAIN m : m[x] \in pub /\ WorkOf(ch, {x}) \subseteq WorkOf(ch, {m[x]})
        /\ q.existing \subseteq pub /\ DOMAIN m \subseteq hub
        /\ q.at = "loaded" => t = <<>>
    BY DEF PostClosed
  <1> HIDE DEF Before, m, t
  <1>3. \A i \in 1..Len(t) : t[i] \in DOMAIN ch
    BY <1>1, ElementOfSeq
  <1>4. \A i \in 1..Len(t) : new[t[i]] = ch[t[i]]
    BY <1>3 DEF Extends
  <1>5. \A x \in DOMAIN m : m[x] \in pub2 /\ WorkOf(new, {x}) \subseteq WorkOf(new, {m[x]})
    <2>1. ASSUME NEW x \in DOMAIN m
          PROVE  WorkOf(new, {x}) = WorkOf(ch, {x}) /\ WorkOf(new, {m[x]}) = WorkOf(ch, {m[x]})
      <3>1. {x} \subseteq DOMAIN ch /\ {m[x]} \subseteq DOMAIN ch
        BY <1>1
      <3> QED
        BY <3>1, WorkIsForGood
    <2> QED
      BY <1>2, <2>1
  <1>6. /\ q.heads \subseteq pub2 \cup DOMAIN m \cup ToSet(t)
        /\ \A i \in 1..Len(t) : new[t[i]].deps \subseteq pub2 \cup DOMAIN m \cup Before(i)
        /\ q.existing \subseteq pub2 /\ DOMAIN m \subseteq hub2
        /\ q.at = "loaded" => t = <<>>
    BY <1>2, <1>4
  <1> QED
    BY <1>5, <1>6 DEF PostClosed, Before, m, t

\* What was acknowledged is still in what was read.
LEMMA AckedReadKept ==
  ASSUME NEW ch, Contents(ch), NEW new, Contents(new), Extends(new, ch), NEW a,
         NEW p, p.at \in {"send", "sendblob", "wait"} => p \in Sends(DOMAIN ch),
         NEW q, q # None => q \in Posts(DOMAIN ch), AckedRead(ch, a, p, q)
  PROVE  AckedRead(new, a, p, q)
  <1>1. ByPath(p) => Anc(new, p.remote) = Anc(ch, p.remote)
    <2> SUFFICES ASSUME ByPath(p) PROVE Anc(new, p.remote) = Anc(ch, p.remote)
      OBVIOUS
    <2>1. p.remote \subseteq DOMAIN ch
      BY DEF ByPath, Sends
    <2> QED
      BY <2>1, AncIsForGood
  <1>2. q # None => Anc(new, q.existing) = Anc(ch, q.existing)
    <2> SUFFICES ASSUME q # None PROVE Anc(new, q.existing) = Anc(ch, q.existing)
      OBVIOUS
    <2>1. q.existing \subseteq DOMAIN ch
      BY DEF Posts
    <2> QED
      BY <2>1, AncIsForGood
  <1> QED
    BY <1>1, <1>2 DEF AckedRead

\* The work in hand is still that of the view.
LEMMA WorkKeptKept ==
  ASSUME NEW ch, Contents(ch), NEW new, Contents(new), Extends(new, ch),
         NEW p, Pulls(p) => p \in Fetches(DOMAIN ch), NEW q, NEW l,
         NEW v, v \subseteq DOMAIN ch, WorkKept(ch, p, q, l, v)
  PROVE  WorkKept(new, p, q, l, v)
  <1>1. WorkOf(new, v) = WorkOf(ch, v)
    BY WorkIsForGood
  <1>2. Pulls(p) => WorkOf(new, p.heads) = WorkOf(ch, p.heads)
    <2> SUFFICES ASSUME Pulls(p) PROVE WorkOf(new, p.heads) = WorkOf(ch, p.heads)
      OBVIOUS
    <2>1. p.heads \subseteq DOMAIN ch
      BY DEF Fetches
    <2> QED
      BY <2>1, WorkIsForGood
  <1> QED
    BY <1>1, <1>2 DEF WorkKept

-----------------------------------------------------------------------------
(* A step of one client.                                                     *)

\* It leaves alone what belongs to the others.
Alone(c) ==
  \A d \in Clients \ {c} :
     /\ proc'[d] = proc[d] /\ post'[d] = post[d] /\ last'[d] = last[d]
     /\ store'[d] = store[d] /\ view'[d] = view[d]

Grows ==
  /\ Extends(change', change) /\ store[Hub] \subseteq store'[Hub]
  /\ direct \subseteq direct' /\ interrupted \subseteq interrupted'

\* A step that makes no change.
LEMMA SameChanges ==
  ASSUME change' = change
  PROVE  Extends(change', change) /\ Ids' = Ids
  BY DEF Extends, Ids

\* What is published stays so through a step.
LEMMA PublishedGrows ==
  ASSUME Typed, Typed', Grows
  PROVE  Published \subseteq Published'
  <1>1. /\ Contents(change) /\ Contents(change') /\ Extends(change', change)
        /\ store[Hub] \subseteq DOMAIN change /\ store[Hub] \subseteq store'[Hub]
        /\ direct \subseteq DOMAIN change /\ direct' \subseteq DOMAIN change' /\ direct \subseteq direct'
    <2>1. store[Hub] \subseteq DOMAIN change
      BY DEF Typed, Repos, Ids
    <2> QED
      BY <2>1 DEF Typed, Grows, Ids
  <1>2. Publishable(change, store[Hub], direct) \subseteq Publishable(change', store'[Hub], direct')
    BY <1>1, PublishableGrows
  <1> QED
    BY <1>2 DEF Published

\* What a client of its own is sound for still is after a step of another.
LEMMA OthersSound ==
  ASSUME IInv, Typed', NEW c \in Clients, Alone(c), Grows,
         NEW d \in Clients \ {c}, acked' = acked \/ ~Loaded(d)
  PROVE  ClientSound(d)'
  <1>1. ClientSound(d) /\ Typed
    BY DEF IInv
  <1>2. /\ proc'[d] = proc[d] /\ post'[d] = post[d] /\ last'[d] = last[d]
        /\ store'[d] = store[d] /\ view'[d] = view[d]
    BY DEF Alone
  <1>3. Contents(change) /\ Contents(change') /\ Extends(change', change) /\ store[Hub] \subseteq store'[Hub]
        /\ (d \notin interrupted' => d \notin interrupted)
    BY <1>1 DEF Typed, Grows
  <1>4. Published \subseteq Published'
    BY <1>1, PublishedGrows
  <1>5. /\ Pulls(proc[d]) => proc[d] \in Fetches(DOMAIN change)
        /\ proc[d].at \in {"send", "sendblob", "wait"} => proc[d] \in Sends(DOMAIN change)
        /\ post[d] # None => post[d] \in Posts(DOMAIN change)
        /\ store[d] \subseteq DOMAIN change /\ view[d] \subseteq DOMAIN change
    BY <1>1, ProcessTypes DEF Ids
  <1>6. FetchGoesOn(change', store'[d], proc'[d], d \notin interrupted')
    <2>1. FetchGoesOn(change, store[d], proc[d], d \notin interrupted)
      BY <1>1 DEF ClientSound
    <2>2. FetchGoesOn(change', store[d], proc[d], d \notin interrupted')
      BY <1>3, <1>5, <2>1, FetchKept
    <2> QED
      BY <1>2, <2>2
  <1>7. SendGoesOn(change', store'[Hub], Published', proc'[d])
    <2>1. SendGoesOn(change, store[Hub], Published, proc[d])
      BY <1>1 DEF ClientSound
    <2>2. SendGoesOn(change', store'[Hub], Published', proc[d])
      BY <1>3, <1>4, <1>5, <2>1, SendKept
    <2> QED
      BY <1>2, <2>2
  <1>8. DeltaClosed(change', Published', proc'[d])
    <2>1. DeltaClosed(change, Published, proc[d])
      BY <1>1 DEF ClientSound
    <2>2. DeltaClosed(change', Published', proc[d])
      BY <1>3, <1>4, <1>5, <2>1, DeltaKept
    <2> QED
      BY <1>2, <2>2
  <1>9. PostClosed(change', store'[Hub], Published', post'[d])
    <2>1. PostClosed(change, store[Hub], Published, post[d])
      BY <1>1 DEF ClientSound
    <2>2. PostClosed(change', store'[Hub], Published', post[d])
      BY <1>3, <1>4, <1>5, <2>1, PostKept
    <2> QED
      BY <1>2, <2>2
  <1>10. AckedRead(change', acked', proc'[d], post'[d])
    <2>1. AckedRead(change, acked, proc[d], post[d])
      BY <1>1 DEF ClientSound
    <2>2. CASE acked' = acked
      <3>1. AckedRead(change', acked, proc[d], post[d])
        BY <1>3, <1>5, <2>1, AckedReadKept
      <3> QED
        BY <1>2, <2>2, <3>1
    <2>3. CASE ~Loaded(d)
      <3>1. ~ByPath(proc[d]) /\ ~(post[d] # None /\ post[d].at = "loaded")
        BY <2>3 DEF Loaded, ByPath
      <3> QED
        BY <1>2, <3>1 DEF AckedRead
    <2> QED
      BY <2>2, <2>3
  <1>11. OneAtATime(proc'[d], post'[d])
    BY <1>1, <1>2 DEF ClientSound
  <1>12. WorkKept(change', proc'[d], post'[d], last'[d], view'[d])
    <2>1. WorkKept(change, proc[d], post[d], last[d], view[d])
      BY <1>1 DEF ClientSound
    <2>2. WorkKept(change', proc[d], post[d], last[d], view[d])
      BY <1>3, <1>5, <2>1, WorkKeptKept
    <2> QED
      BY <1>2, <2>2
  <1> QED
    BY <1>6, <1>7, <1>8, <1>9, <1>10, <1>11, <1>12 DEF ClientSound

\* The hub is as closed as it was, if what it still lacks is on its way as it was.
LEMMA HubStillClosed ==
  ASSUME IInv, Typed', NEW c \in Clients, Alone(c), Grows, Hub \notin interrupted',
         store'[Hub] = store[Hub], ToSend(c) \subseteq ToSend(c)' \cup store[Hub]
  PROVE  \A x \in store'[Hub] : change'[x].deps \subseteq store'[Hub] \cup UNION {ToSend(e)' : e \in Clients}
  <1>1. HubSound /\ Typed
    BY DEF IInv
  <1>2. Extends(change', change) /\ store[Hub] \subseteq DOMAIN change /\ Hub \notin interrupted
    <2>1. Hub \in Repos
      BY DEF Repos
    <2> QED
      BY <1>1, <2>1 DEF Typed, Grows, Ids
  <1>3. \A e \in Clients \ {c} : ToSend(e)' = ToSend(e)
    BY DEF Alone, ToSend
  <1>4. \A e \in Clients : ToSend(e) \subseteq ToSend(e)' \cup store[Hub]
    BY <1>3
  <1>5. ASSUME NEW x \in store'[Hub]
        PROVE  change'[x].deps \subseteq store'[Hub] \cup UNION {ToSend(e)' : e \in Clients}
    <2>1. change'[x] = change[x]
      BY <1>2, <1>5 DEF Extends
    <2>2. change[x].deps \subseteq store[Hub] \cup UNION {ToSend(e) : e \in Clients}
      BY <1>1, <1>2, <1>5 DEF HubSound
    <2> QED
      BY <1>4, <2>1, <2>2
  <1> QED
    BY <1>5

\* The hub, after a step that neither writes nor acknowledges there.
LEMMA HubLeftSound ==
  ASSUME IInv, Typed', NEW c \in Clients, Alone(c), Grows,
         view'[Hub] = view[Hub], acked' = acked,
         Hub \notin interrupted' => store'[Hub] = store[Hub] /\ ToSend(c) \subseteq ToSend(c)' \cup store[Hub]
  PROVE  HubSound'
  <1>1. HubSound /\ Typed
    BY DEF IInv
  <1>2. Hub \notin interrupted' =>
          \A x \in store'[Hub] : change'[x].deps \subseteq store'[Hub] \cup UNION {ToSend(e)' : e \in Clients}
    BY HubStillClosed
  <1>3. Published \subseteq Published'
    BY <1>1, PublishedGrows
  <1>4. Anc(change', view[Hub]) = Anc(change, view[Hub])
    <2>1. Contents(change) /\ Contents(change') /\ Extends(change', change) /\ view[Hub] \subseteq DOMAIN change
      BY <1>1 DEF Typed, Grows, Ids, Repos
    <2> QED
      BY <2>1, AncIsForGood
  <1> QED
    BY <1>1, <1>2, <1>3, <1>4 DEF HubSound

-----------------------------------------------------------------------------
(* The steps, one by one.                                                    *)

\* A client's own part, where only what it fetched into and knows has changed.
LEMMA StillSound ==
  ASSUME IInv, Typed', Grows, NEW c \in Clients,
         proc'[c] = proc[c], post'[c] = post[c], acked' = acked
  PROVE  /\ SendGoesOn(change', store'[Hub], Published', proc'[c])
         /\ DeltaClosed(change', Published', proc'[c])
         /\ PostClosed(change', store'[Hub], Published', post'[c])
         /\ AckedRead(change', acked', proc'[c], post'[c])
         /\ OneAtATime(proc'[c], post'[c])
  <1>1. ClientSound(c) /\ Typed
    BY DEF IInv
  <1>2. Contents(change) /\ Contents(change') /\ Extends(change', change) /\ store[Hub] \subseteq store'[Hub]
    BY <1>1 DEF Typed, Grows
  <1>3. Published \subseteq Published'
    BY <1>1, PublishedGrows
  <1>4. /\ proc[c].at \in {"send", "sendblob", "wait"} => proc[c] \in Sends(DOMAIN change)
        /\ post[c] # None => post[c] \in Posts(DOMAIN change)
    BY <1>1, ProcessTypes DEF Ids
  <1>5. /\ SendGoesOn(change, store[Hub], Published, proc[c])
        /\ DeltaClosed(change, Published, proc[c])
        /\ PostClosed(change, store[Hub], Published, post[c])
        /\ AckedRead(change, acked, proc[c], post[c])
        /\ OneAtATime(proc[c], post[c])
    BY <1>1 DEF ClientSound
  <1>6. SendGoesOn(change', store'[Hub], Published', proc[c])
    BY <1>2, <1>3, <1>4, <1>5, SendKept
  <1>7. DeltaClosed(change', Published', proc[c])
    BY <1>2, <1>3, <1>4, <1>5, DeltaKept
  <1>8. PostClosed(change', store'[Hub], Published', post[c])
    BY <1>2, <1>3, <1>4, <1>5, PostKept
  <1>9. AckedRead(change', acked, proc[c], post[c])
    BY <1>2, <1>4, <1>5, AckedReadKept
  <1> QED
    BY <1>5, <1>6, <1>7, <1>8, <1>9

\* snap: the new change is on top of the view, whose changes are in the store.
LEMMA SnapSound ==
  ASSUME IInv, NEW c \in Clients, Snap(c)
  PROVE  IInv'
  <1>1. Typed /\ ClientSound(c) /\ HubSound
    BY DEF IInv
  <1>2. c \in Repos /\ Hub \in Repos /\ c # Hub /\ view[c] \subseteq Ids /\ store[c] \subseteq Ids
    BY <1>1, ProcessTypes
  <1>3. view[c] \subseteq store[c]
    <2> DEFINE leads == [x \in store[c] |-> change[x].deps \ {}]
               reached == Reached(view[c] \ {}, leads)
    <2>1. hydrate_heads(c, {}, view[c]) # {}
      BY DEF Snap
    <2>2. hydrate_heads(c, {}, view[c]) = IF reached \subseteq store[c] THEN {{} \cup reached} ELSE {}
      BY Zenon DEF hydrate_heads
    <2> HIDE DEF leads
    <2>3. view[c] \ {} \subseteq reached
      BY ReachesItsStart
    <2> QED
      BY <2>1, <2>2, <2>3
  <1>4. PICK id \in Fresh, a \in Authors :
          /\ change' = With(id, view[c], a, id)
          /\ store' = [store EXCEPT ![c] = @ \cup {id}]
          /\ view' = [view EXCEPT ![c] = {id}]
    BY DEF Snap
  <1>5. proc[c] = Idle /\ UNCHANGED <<proc, post, last, interrupted, acked, direct>>
    BY DEF Snap, history
  <1>6. /\ Contents(change') /\ Extends(change', change)
        /\ Ids' = Ids \cup {id} /\ id \notin Ids
        /\ change'[id] = [deps |-> view[c], author |-> a, origin |-> id]
    <2>1. id \in Numbers
      BY DEF Fresh, Numbers
    <2>2. Contents(change) /\ a \in Authors \cup {"server"}
      BY <1>1 DEF Typed
    <2> DEFINE d == view[c]
    <2>3. change' = With(id, d, a, id) /\ d \subseteq Ids
      BY <1>2, <1>4
    <2> HIDE DEF d
    <2>4. /\ Contents(change') /\ Extends(change', change) /\ DOMAIN change' = Ids \cup {id} /\ id \notin Ids
          /\ change'[id] = [deps |-> d, author |-> a, origin |-> id]
      BY <2>1, <2>2, <2>3, NewChange
    <2> QED
      BY <2>4 DEF Ids, d
  <1>7. /\ store'[c] = store[c] \cup {id} /\ view'[c] = {id}
        /\ \A r \in Repos \ {c} : store'[r] = store[r] /\ view'[r] = view[r]
        /\ store' \in [Repos -> SUBSET Ids'] /\ view' \in [Repos -> SUBSET Ids']
    BY <1>1, <1>2, <1>4, <1>6 DEF Typed
  <1>8. Typed'
    <2>1. Ids \subseteq Ids'
      BY <1>6
    <2>2. Fetches(Ids) \subseteq Fetches(Ids') /\ Sends(Ids) \subseteq Sends(Ids') /\ Posts(Ids) \subseteq Posts(Ids')
      BY <2>1, RecordsGrow
    <2>3. proc' \in [Clients -> {Idle} \cup Fetches(Ids') \cup Sends(Ids')] /\ post' \in [Clients -> {None} \cup Posts(Ids')]
      BY <1>1, <1>5, <2>2 DEF Typed
    <2>4. last' \in [Clients -> Ends] /\ acked' \subseteq Ids' /\ direct' \subseteq Ids'
      BY <1>1, <1>5, <2>1 DEF Typed
    <2> QED
      BY <1>6, <1>7, <2>3, <2>4 DEF Typed
  <1>9. Alone(c)
    BY <1>2, <1>5, <1>7 DEF Alone, Repos
  <1>10. Grows
    BY <1>2, <1>5, <1>6, <1>7 DEF Grows
  <1>11. \A d \in Clients \ {c} : ClientSound(d)'
    BY <1>5, <1>8, <1>9, <1>10, OthersSound
  <1>12. HubSound'
    <2>1. view'[Hub] = view[Hub] /\ store'[Hub] = store[Hub] /\ acked' = acked
      BY <1>2, <1>5, <1>7
    <2>2. ToSend(c)' = ToSend(c)
      BY <1>5 DEF ToSend
    <2> QED
      BY <1>8, <1>9, <1>10, <2>1, <2>2, HubLeftSound
  <1>13. FetchGoesOn(change', store'[c], proc'[c], c \notin interrupted')
    <2>1. Idle.at # "blob" /\ ~Pulls(Idle)
      BY DEF Pulls, Idle
    <2>2. ASSUME c \notin interrupted', NEW x \in store'[c] PROVE change'[x].deps \subseteq store'[c]
      <3>1. CASE x = id
        BY <1>3, <1>6, <1>7, <3>1
      <3>2. CASE x \in store[c]
        <4>1. change'[x] = change[x]
          BY <1>2, <1>6, <3>2 DEF Extends, Ids
        <4>2. FetchGoesOn(change, store[c], Idle, TRUE)
          BY <1>1, <1>5, <2>2 DEF ClientSound
        <4>3. change[x].deps \subseteq store[c]
          BY <2>1, <3>2, <4>2 DEF FetchGoesOn
        <4> QED
          BY <1>7, <4>1, <4>3
      <3> QED
        BY <1>7, <2>2, <3>1, <3>2
    <2> QED
      BY <1>5, <2>1, <2>2 DEF FetchGoesOn
  <1>14. WorkKept(change', proc'[c], post'[c], last'[c], view'[c])
    <2>1. WorkKept(change, Idle, post[c], last[c], view[c])
      BY <1>1, <1>5 DEF ClientSound
    <2>2. view[c] \subseteq Anc(change', {id})
      <3>1. {id} \subseteq DOMAIN change'
        BY <1>6 DEF Ids
      <3> QED
        BY <1>6, <3>1, AncIsClosed
    <2>3. WorkOf(change', view[c]) \subseteq WorkOf(change', {id})
      <3>1. {id} \subseteq DOMAIN change'
        BY <1>6 DEF Ids
      <3> QED
        BY <1>6, <2>2, <3>1, WorkOfMore
    <2>4. WorkOf(change', view[c]) = WorkOf(change, view[c])
      BY <1>1, <1>2, <1>6, WorkIsForGood DEF Typed, Ids
    <2>5. Idle.at = "idle" /\ ~Pulls(Idle)
      BY DEF Pulls, Idle
    <2> QED
      BY <1>5, <1>7, <2>1, <2>3, <2>4, <2>5 DEF WorkKept
  <1>15. ClientSound(c)'
    BY <1>5, <1>8, <1>10, <1>13, <1>14, StillSound DEF ClientSound
  <1> QED
    BY <1>8, <1>11, <1>12, <1>15 DEF IInv

\* A process that does not send, and a client without a POST, have nothing to keep.
LEMMA NothingToSend ==
  ASSUME NEW ch, NEW hub, NEW pub, NEW p, p.at \notin {"send", "sendblob"}
  PROVE  SendGoesOn(ch, hub, pub, p) /\ DeltaClosed(ch, pub, p)
  BY DEF SendGoesOn, DeltaClosed, ByPath

\* A client without a POST has nothing on the server.
LEMMA NothingPosted ==
  ASSUME NEW ch, NEW hub, NEW pub, NEW a, NEW p, p.at \notin {"send", "sendblob"}
  PROVE  PostClosed(ch, hub, pub, None) /\ AckedRead(ch, a, p, None) /\ OneAtATime(p, None)
  BY DEF PostClosed, AckedRead, OneAtATime, ByPath

\* The types after a step that makes no change.
LEMMA StepTypes ==
  ASSUME Typed, change' = change, NEW c \in Clients,
         store' \in [Repos -> SUBSET Ids], view' \in [Repos -> SUBSET Ids],
         NEW p \in {Idle} \cup Fetches(Ids) \cup Sends(Ids), proc' = [proc EXCEPT ![c] = p],
         post' \in [Clients -> {None} \cup Posts(Ids)], last' \in [Clients -> Ends],
         acked' \subseteq Ids, direct' \subseteq Ids
  PROVE  /\ Typed'
         /\ proc'[c] = p /\ \A d \in Clients \ {c} : proc'[d] = proc[d]
  <1>1. Ids' = Ids
    BY DEF Ids
  <1>2. proc \in [Clients -> {Idle} \cup Fetches(Ids) \cup Sends(Ids)] /\ Contents(change)
    BY DEF Typed
  <1>3. /\ proc' \in [Clients -> {Idle} \cup Fetches(Ids) \cup Sends(Ids)]
        /\ proc'[c] = p /\ \A d \in Clients \ {c} : proc'[d] = proc[d]
    BY <1>2
  <1> QED
    BY <1>1, <1>2, <1>3 DEF Typed

\* A fetch begins well formed, with nothing seen.
LEMMA FetchBegins ==
  ASSUME NEW ids, NEW hs, hs \subseteq ids, IsFiniteSet(hs), NEW command \in {"pull", "push"},
         NEW via \in Transports, NEW work, work \subseteq Numbers,
         NEW p, p = Fetching(command, via, hs, work, {})
  PROVE  /\ p \in Fetches(ids) /\ p.at = "fetch" /\ p.seen = {}
         /\ p.heads = hs /\ p.work = work /\ p.command = command
  <1> DEFINE q == CHOOSE q \in SetToSeqs(hs) : TRUE
  <1>1. q \in SetToSeqs(hs)
    BY OrdersOf
  <1> HIDE DEF q
  <1>2. q \in Seq(ids)
    <2>1. q \in Seq(hs)
      BY <1>1, OrdersOf
    <2> QED
      BY <2>1, SeqMonotonic
  <1>3. p = [at |-> "fetch", command |-> command, via |-> via, heads |-> hs, work |-> work,
             graph |-> {}, queue |-> q, seen |-> {}]
    BY DEF Fetching, q
  <1> QED
    BY <1>2, <1>3 DEF Fetches

\* pull: the heads of the hub are queued.
LEMMA PullSound ==
  ASSUME IInv, NEW c \in Clients, Pull(c)
  PROVE  IInv'
  <1>1. Typed /\ ClientSound(c) /\ HubSound
    BY DEF IInv
  <1>2. /\ view[Hub] \subseteq Ids /\ c \in Repos
        /\ store[c] \subseteq Ids /\ store \in [Repos -> SUBSET Ids] /\ view \in [Repos -> SUBSET Ids]
        /\ post \in [Clients -> {None} \cup Posts(Ids)] /\ last \in [Clients -> Ends]
        /\ acked \subseteq Ids /\ direct \subseteq Ids
    BY <1>1, ProcessTypes DEF Typed
  <1>3. /\ proc[c] = Idle /\ post[c] = None
        /\ UNCHANGED <<change, store, blobs, view, post, last, interrupted, acked, direct>>
    BY DEF Pull, stores, history
  <1>4. PICK via \in Transports : proc' = [proc EXCEPT ![c] = Fetching("pull", via, view[Hub], {}, {})]
    BY DEF Pull
  <1> DEFINE p == Fetching("pull", via, view[Hub], {}, {})
  <1>5. /\ p \in Fetches(Ids) /\ p.at = "fetch" /\ p.seen = {} /\ p.command = "pull"
    <2>1. IsFiniteSet(view[Hub])
      BY <1>1, <1>2, ChangesAreFinite DEF Typed, Ids
    <2> DEFINE hs == view[Hub]
               none == {}
    <2>2. p = Fetching("pull", via, hs, none, {}) /\ hs \subseteq Ids /\ IsFiniteSet(hs) /\ none \subseteq Numbers
      BY <1>2, <2>1
    <2> HIDE DEF p, hs, none
    <2> QED
      BY <2>2, FetchBegins
  <1> HIDE DEF p
  <1>6. Typed' /\ proc'[c] = p /\ \A d \in Clients \ {c} : proc'[d] = proc[d]
    <2>1. proc' = [proc EXCEPT ![c] = p]
      BY <1>4 DEF p
    <2> QED
      BY <1>1, <1>2, <1>3, <1>5, <2>1, StepTypes
  <1>7. Alone(c) /\ Grows
    <2>1. Alone(c)
      BY <1>3, <1>6 DEF Alone
    <2>2. Extends(change', change)
      BY <1>3, SameChanges
    <2> QED
      BY <1>3, <2>1, <2>2 DEF Grows
  <1>8. \A d \in Clients \ {c} : ClientSound(d)'
    BY <1>3, <1>6, <1>7, OthersSound
  <1>9. HubSound'
    <2>1. ToSend(c) = {}
      BY <1>3 DEF ToSend, ByPath, Idle
    <2> QED
      BY <1>3, <1>6, <1>7, <2>1, HubLeftSound
  <1>10. FetchGoesOn(change', store'[c], proc'[c], c \notin interrupted')
    <2>1. Idle.at # "blob" /\ ~Pulls(Idle)
      BY DEF Pulls, Idle
    <2>2. ASSUME c \notin interrupted, NEW x \in store[c] PROVE change[x].deps \subseteq store[c]
      <3>1. FetchGoesOn(change, store[c], Idle, TRUE)
        BY <1>1, <1>3, <2>2 DEF ClientSound
      <3> QED
        BY <2>1, <2>2, <3>1 DEF FetchGoesOn
    <2> QED
      BY <1>3, <1>5, <1>6, <2>2 DEF FetchGoesOn
  <1>11. WorkKept(change', proc'[c], post'[c], last'[c], view'[c])
    <2>1. p # Idle
      BY <1>5 DEF Idle
    <2> QED
      BY <1>5, <1>6, <2>1 DEF WorkKept, Pulls
  <1>12. ClientSound(c)'
    BY <1>3, <1>5, <1>6, <1>10, <1>11, NothingToSend, NothingPosted DEF ClientSound
  <1> QED
    BY <1>6, <1>8, <1>9, <1>12 DEF IInv

\* A step of a client that fetches, by what remains to be shown of it.
LEMMA FetcherSound ==
  ASSUME IInv, Typed', NEW c \in Clients, Alone(c), change' = change, interrupted \subseteq interrupted',
         UNCHANGED <<acked, direct>>, view'[Hub] = view[Hub], store'[Hub] = store[Hub],
         proc[c].at \notin {"send", "sendblob"}, proc'[c].at \notin {"send", "sendblob"}, post'[c] = None,
         FetchGoesOn(change, store'[c], proc'[c], c \notin interrupted'),
         WorkKept(change, proc'[c], None, last'[c], view'[c])
  PROVE  IInv'
  <1>1. Grows
    <2>1. Extends(change', change)
      BY SameChanges
    <2> QED
      BY <2>1 DEF Grows
  <1>2. \A d \in Clients \ {c} : ClientSound(d)'
    BY <1>1, OthersSound
  <1>3. ToSend(c) = {}
    BY DEF ToSend, ByPath
  <1>4. HubSound'
    BY <1>1, <1>3, HubLeftSound
  <1>5. ClientSound(c)'
    BY NothingToSend, NothingPosted DEF ClientSound
  <1> QED
    BY <1>2, <1>4, <1>5 DEF IInv

\* A change is written before what it depends on: until then it is excepted.
LEMMA FetchChangeSound ==
  ASSUME IInv, NEW c \in Clients, FetchChange(c)
  PROVE  IInv'
  <1> DEFINE p == proc[c]
             id == Head(p.queue)
  <1>1. Typed /\ ClientSound(c) /\ HubSound
    BY DEF IInv
  <1>2. p.at = "fetch" /\ p.queue # <<>>
        /\ UNCHANGED <<change, blobs, view, post, acked, direct, counters>>
    BY DEF FetchChange
  <1>3. /\ c \in Repos /\ Hub \in Repos /\ c # Hub
        /\ store[c] \subseteq Ids /\ store \in [Repos -> SUBSET Ids] /\ view \in [Repos -> SUBSET Ids]
        /\ post \in [Clients -> {None} \cup Posts(Ids)] /\ last \in [Clients -> Ends]
        /\ acked \subseteq Ids /\ direct \subseteq Ids
        /\ proc \in [Clients -> {Idle} \cup Fetches(Ids) \cup Sends(Ids)]
    BY <1>1, ProcessTypes DEF Typed
  <1>4. p \in Fetches(Ids) /\ Pulls(p)
    BY <1>1, <1>2, ProcessTypes DEF Pulls
  <1>5. post[c] = None
    BY <1>1, <1>2 DEF ClientSound, OneAtATime
  <1>6. /\ p.queue \in Seq(Ids) /\ p.seen \subseteq Ids /\ p.graph \subseteq Ids
        /\ p.heads \subseteq Ids /\ p.command \in {"pull", "push"}
    BY <1>4 DEF Fetches
  <1>7. /\ id \in ToSet(p.queue) /\ id \in Ids /\ Tail(p.queue) \in Seq(Ids)
        /\ ToSet(p.queue) = {id} \cup ToSet(Tail(p.queue))
    BY <1>2, <1>6, MembersOf
  <1>8. /\ c \notin interrupted => \A x \in store[c] : change[x].deps \subseteq store[c] \cup ToSet(p.queue)
        /\ p.seen \subseteq store[c]
    <2>1. FetchGoesOn(change, store[c], p, c \notin interrupted)
      BY <1>1 DEF ClientSound
    <2> QED
      BY <1>2, <1>4, <2>1 DEF FetchGoesOn
  <1>9. p.command = "push" => p.work \subseteq WorkOf(change, p.heads)
    <2>1. WorkKept(change, p, post[c], last[c], view[c])
      BY <1>1 DEF ClientSound
    <2> QED
      BY <1>4, <2>1 DEF WorkKept
  <1> HIDE DEF p, id
  <1>10. CASE id \in p.seen \cup store[c]
    <2> DEFINE q == [p EXCEPT !.queue = Tail(@), !.seen = @ \cup {id}, !.graph = @ \cup ({id} \cap store[c])]
    <2>1. proc' = [proc EXCEPT ![c] = q] /\ UNCHANGED <<store, last, interrupted>>
      BY <1>10 DEF FetchChange, Fetched, p, id
    <2>2. /\ q \in Fetches(Ids) /\ q.at = "fetch" /\ q.queue = Tail(p.queue) /\ q.seen = p.seen \cup {id}
          /\ q.command = p.command /\ q.work = p.work /\ q.heads = p.heads
      BY <1>2, <1>4, <1>6, <1>7 DEF Fetches
    <2> HIDE DEF q
    <2>3. Typed' /\ proc'[c] = q /\ \A d \in Clients \ {c} : proc'[d] = proc[d]
      BY <1>1, <1>2, <1>3, <2>1, <2>2, StepTypes
    <2>4. Alone(c)
      BY <1>2, <2>1, <2>3 DEF Alone
    <2>5. FetchGoesOn(change, store[c], q, c \notin interrupted)
      BY <1>7, <1>8, <1>10, <2>2 DEF FetchGoesOn, Pulls
    <2>6. WorkKept(change, q, None, last[c], view[c])
      <3>1. q # Idle
        BY <2>2 DEF Idle
      <3> QED
        BY <1>9, <2>2, <3>1 DEF WorkKept
    <2> QED
      BY <1>2, <1>5, <2>1, <2>2, <2>3, <2>4, <2>5, <2>6, FetcherSound DEF p
  <1>11. CASE id \notin p.seen \cup store[c] /\ id \notin store[Hub]
    <2>1. End(c, "failed", {c}) /\ UNCHANGED store
      BY <1>11 DEF FetchChange, p, id
    <2>2. proc[c] # Idle
      BY <1>2 DEF Idle, p
    <2>3. /\ proc' \in [Clients -> {Idle} \cup Fetches(Ids) \cup Sends(Ids)]
          /\ last' \in [Clients -> Ends]
          /\ proc'[c] = Idle
          /\ last'[c] = [command |-> p.command, result |-> "failed", work |-> p.work]
          /\ \A d \in Clients \ {c} : proc'[d] = proc[d] /\ last'[d] = last[d]
          /\ interrupted' = interrupted \cup {c}
      BY <1>1, <2>1, <2>2, EndTypes DEF p
    <2>4. Typed'
      BY <1>1, <1>2, <1>3, <2>1, <2>3 DEF Typed, Ids
    <2>5. Alone(c)
      BY <1>2, <2>1, <2>3 DEF Alone
    <2>6. FetchGoesOn(change, store[c], Idle, c \notin interrupted')
      BY <2>3 DEF FetchGoesOn, Pulls, Idle
    <2>7. WorkKept(change, Idle, None, last'[c], view[c])
      BY <2>3 DEF WorkKept, Pulls, Idle
    <2>8. Idle.at = "idle"
      BY DEF Idle
    <2> QED
      BY <1>2, <1>5, <2>1, <2>3, <2>4, <2>5, <2>6, <2>7, <2>8, FetcherSound DEF p
  <1>12. CASE id \notin p.seen \cup store[c] /\ id \in store[Hub]
    <2> DEFINE q == [p EXCEPT !.at = "blob"]
    <2>1. /\ store' = [store EXCEPT ![c] = @ \cup {id}]
          /\ proc' = [proc EXCEPT ![c] = q]
          /\ UNCHANGED <<last, interrupted>>
      <3>1. proc' = [proc EXCEPT ![c].at = "blob"]
        BY <1>12 DEF FetchChange, p, id
      <3>2. proc' = [proc EXCEPT ![c] = q]
        BY <1>3, <3>1 DEF p
      <3> QED
        BY <1>12, <3>2 DEF FetchChange, p, id
    <2>2. /\ q \in Fetches(Ids) /\ q.at = "blob" /\ q.queue = p.queue /\ q.seen = p.seen
          /\ q.command = p.command /\ q.work = p.work /\ q.heads = p.heads
      BY <1>2, <1>4, <1>6 DEF Fetches
    <2> HIDE DEF q
    <2>3. /\ store' \in [Repos -> SUBSET Ids] /\ store'[c] = store[c] \cup {id}
          /\ \A r \in Repos \ {c} : store'[r] = store[r]
      BY <1>3, <1>7, <2>1
    <2>4. Typed' /\ proc'[c] = q /\ \A d \in Clients \ {c} : proc'[d] = proc[d]
      BY <1>1, <1>2, <1>3, <2>1, <2>2, <2>3, StepTypes
    <2>5. Alone(c)
      BY <1>2, <2>1, <2>3, <2>4 DEF Alone, Repos
    <2>6. FetchGoesOn(change, store'[c], q, c \notin interrupted)
      <3>1. q.queue # <<>> /\ Head(q.queue) = id /\ ToSet(q.queue) = ToSet(p.queue) /\ Pulls(q)
        BY <1>2, <2>2 DEF id, Pulls
      <3>2. ASSUME c \notin interrupted, NEW x \in store'[c], x # id
            PROVE  change[x].deps \subseteq store'[c] \cup ToSet(q.queue)
        BY <1>8, <2>3, <3>1, <3>2
      <3>3. q.seen \subseteq store'[c] /\ id \in store'[c]
        BY <1>8, <2>2, <2>3
      <3> QED
        BY <2>2, <3>1, <3>2, <3>3 DEF FetchGoesOn
    <2>7. WorkKept(change, q, None, last[c], view[c])
      <3>1. q # Idle
        BY <2>2 DEF Idle
      <3> QED
        BY <1>9, <2>2, <3>1 DEF WorkKept
    <2>8. store'[Hub] = store[Hub]
      BY <1>3, <2>3
    <2> QED
      BY <1>2, <1>5, <2>1, <2>2, <2>4, <2>5, <2>6, <2>7, <2>8, FetcherSound DEF p
  <1> QED
    BY <1>10, <1>11, <1>12

\* What the change depends on is queued, so that the store is closed again.
LEMMA FetchBlobSound ==
  ASSUME IInv, NEW c \in Clients, FetchBlob(c)
  PROVE  IInv'
  <1> DEFINE p == proc[c]
             id == Head(p.queue)
             b == {change[id].origin} \ blobs[c]
  <1>1. Typed /\ ClientSound(c) /\ HubSound
    BY DEF IInv
  <1>2. p.at = "blob" /\ UNCHANGED <<change, store, view, post, acked, direct, counters>>
    BY DEF FetchBlob
  <1>3. /\ c \in Repos /\ Hub \in Repos /\ c # Hub
        /\ store[c] \subseteq Ids /\ store \in [Repos -> SUBSET Ids] /\ view \in [Repos -> SUBSET Ids]
        /\ post \in [Clients -> {None} \cup Posts(Ids)] /\ last \in [Clients -> Ends]
        /\ acked \subseteq Ids /\ direct \subseteq Ids /\ Contents(change)
        /\ proc \in [Clients -> {Idle} \cup Fetches(Ids) \cup Sends(Ids)]
    BY <1>1, ProcessTypes DEF Typed
  <1>4. p \in Fetches(Ids) /\ Pulls(p)
    BY <1>1, <1>2, ProcessTypes DEF Pulls
  <1>5. post[c] = None
    BY <1>1, <1>2 DEF ClientSound, OneAtATime
  <1>6. FetchGoesOn(change, store[c], p, c \notin interrupted)
    BY <1>1 DEF ClientSound
  <1>7. /\ p.queue \in Seq(Ids) /\ p.seen \subseteq Ids /\ p.graph \subseteq Ids
        /\ p.heads \subseteq Ids /\ p.command \in {"pull", "push"}
        /\ p.queue # <<>> /\ id \in store[c] /\ p.seen \subseteq store[c]
        /\ (c \notin interrupted => \A x \in store[c] : x # id => change[x].deps \subseteq store[c] \cup ToSet(p.queue))
    BY <1>2, <1>4, <1>6 DEF Fetches, FetchGoesOn
  <1>8. /\ id \in Ids /\ Tail(p.queue) \in Seq(Ids)
        /\ ToSet(p.queue) = {id} \cup ToSet(Tail(p.queue))
    BY <1>7, MembersOf
  <1>9. p.command = "push" => p.work \subseteq WorkOf(change, p.heads)
    <2>1. WorkKept(change, p, post[c], last[c], view[c])
      BY <1>1 DEF ClientSound
    <2> QED
      BY <1>4, <2>1 DEF WorkKept
  <1>10. \/ End(c, "failed", {c})
         \/ /\ \E q \in SetToSeqs(change[id].deps \ p.seen) :
                 proc' = [proc EXCEPT ![c].at = "fetch", ![c].queue = Tail(@) \o q,
                                      ![c].seen = @ \cup {id}, ![c].graph = @ \cup {id}]
            /\ UNCHANGED <<last, interrupted>>
    BY DEF FetchBlob
  <1> HIDE DEF p, id, b
  <1>11. CASE End(c, "failed", {c})
    <2>1. proc[c] # Idle
      BY <1>2 DEF Idle, p
    <2>2. /\ proc' \in [Clients -> {Idle} \cup Fetches(Ids) \cup Sends(Ids)]
          /\ last' \in [Clients -> Ends]
          /\ proc'[c] = Idle
          /\ last'[c] = [command |-> p.command, result |-> "failed", work |-> p.work]
          /\ \A d \in Clients \ {c} : proc'[d] = proc[d] /\ last'[d] = last[d]
          /\ interrupted' = interrupted \cup {c}
      BY <1>1, <1>11, <2>1, EndTypes DEF p
    <2>3. Typed'
      BY <1>1, <1>2, <1>3, <2>2 DEF Typed, Ids
    <2>4. Alone(c)
      BY <1>2, <2>2 DEF Alone
    <2>5. FetchGoesOn(change, store[c], Idle, c \notin interrupted')
      BY <2>2 DEF FetchGoesOn, Pulls, Idle
    <2>6. WorkKept(change, Idle, None, last'[c], view[c])
      BY <2>2 DEF WorkKept, Pulls, Idle
    <2>7. Idle.at = "idle"
      BY DEF Idle
    <2> QED
      BY <1>2, <1>5, <2>2, <2>3, <2>4, <2>5, <2>6, <2>7, FetcherSound DEF p
  <1>12. ASSUME NEW s \in SetToSeqs(change[id].deps \ p.seen),
                proc' = [proc EXCEPT ![c].at = "fetch", ![c].queue = Tail(@) \o s,
                                     ![c].seen = @ \cup {id}, ![c].graph = @ \cup {id}],
                UNCHANGED <<last, interrupted>>
         PROVE  IInv'
    <2> DEFINE t == Tail(p.queue)
               u == t \o s
               q == [p EXCEPT !.at = "fetch", !.queue = u, !.seen = @ \cup {id}, !.graph = @ \cup {id}]
    <2>1. s \in Seq(Ids) /\ ToSet(s) = change[id].deps \ p.seen
      <3> DEFINE deps == change[id].deps \ p.seen
      <3>1. deps \subseteq Ids
        BY <1>3, <1>8, ContentsFacts DEF Ids
      <3>2. IsFiniteSet(deps)
        BY <1>3, <3>1, ChangesAreFinite DEF Ids
      <3> HIDE DEF deps
      <3>3. s \in Seq(deps) /\ ToSet(s) = deps
        BY <1>12, <3>2, OrdersOf DEF deps
      <3> QED
        BY <3>1, <3>3, SeqMonotonic DEF deps
    <2>2. u \in Seq(Ids) /\ ToSet(u) = ToSet(t) \cup (change[id].deps \ p.seen)
      <3>1. t \in Seq(Ids)
        BY <1>8
      <3> HIDE DEF t
      <3>2. t \o s \in Seq(Ids) /\ ToSet(t \o s) = ToSet(t) \cup ToSet(s)
        BY <2>1, <3>1, MembersOfConcat
      <3> QED
        BY <2>1, <3>2
    <2>3. proc' = [proc EXCEPT ![c] = q]
      BY <1>3, <1>12 DEF p
    <2>4. /\ q \in Fetches(Ids) /\ q.at = "fetch" /\ q.queue = u /\ q.seen = p.seen \cup {id}
          /\ q.command = p.command /\ q.work = p.work /\ q.heads = p.heads
      <3> HIDE DEF u
      <3> QED
        BY <1>2, <1>4, <1>7, <1>8, <2>2 DEF Fetches
    <2> HIDE DEF q, u
    <2>5. Typed' /\ proc'[c] = q /\ \A d \in Clients \ {c} : proc'[d] = proc[d]
      BY <1>1, <1>2, <1>3, <1>12, <2>3, <2>4, StepTypes
    <2>6. Alone(c)
      BY <1>2, <1>12, <2>5 DEF Alone
    <2>7. FetchGoesOn(change, store[c], q, c \notin interrupted)
      <3>1. Pulls(q) /\ ToSet(q.queue) = ToSet(t) \cup (change[id].deps \ p.seen)
        BY <2>2, <2>4 DEF Pulls
      <3>2. ASSUME c \notin interrupted, NEW x \in store[c]
            PROVE  change[x].deps \subseteq store[c] \cup ToSet(q.queue)
        <4>1. CASE x = id
          BY <1>7, <3>1, <4>1
        <4>2. CASE x # id
          BY <1>7, <1>8, <3>1, <3>2, <4>2
        <4> QED
          BY <4>1, <4>2
      <3> QED
        BY <1>7, <2>4, <3>1, <3>2 DEF FetchGoesOn
    <2>8. WorkKept(change, q, None, last[c], view[c])
      <3>1. q # Idle
        BY <2>4 DEF Idle
      <3> QED
        BY <1>9, <2>4, <3>1 DEF WorkKept
    <2> QED
      BY <1>2, <1>5, <1>12, <2>4, <2>5, <2>6, <2>7, <2>8, FetcherSound DEF p
  <1> QED
    BY <1>10, <1>11, <1>12

\* The two ways in which a fetch is over.
LEMMA FetchEndsSound ==
  ASSUME IInv, NEW c \in Clients, proc[c].at = "fetch", proc[c].queue = <<>>,
         NEW v, v \subseteq Ids, view' = [view EXCEPT ![c] = v],
         NEW result \in {"ok", "failed"}, End(c, result, {}),
         proc[c].command = "push" => v = proc[c].heads,
         UNCHANGED <<change, store, post, acked, direct>>
  PROVE  IInv'
  <1> DEFINE p == proc[c]
  <1>1. Typed /\ ClientSound(c)
    BY DEF IInv
  <1>2. /\ c \in Repos /\ Hub \in Repos /\ c # Hub
        /\ store[c] \subseteq Ids /\ store \in [Repos -> SUBSET Ids] /\ view \in [Repos -> SUBSET Ids]
        /\ post \in [Clients -> {None} \cup Posts(Ids)]
        /\ acked \subseteq Ids /\ direct \subseteq Ids /\ Contents(change)
    BY <1>1, ProcessTypes DEF Typed
  <1>3. p \in Fetches(Ids) /\ Pulls(p) /\ p # Idle
    BY <1>1, ProcessTypes DEF Pulls, Idle
  <1>4. post[c] = None
    BY <1>1 DEF ClientSound, OneAtATime
  <1>5. /\ proc' \in [Clients -> {Idle} \cup Fetches(Ids) \cup Sends(Ids)]
        /\ last' \in [Clients -> Ends]
        /\ proc'[c] = Idle
        /\ last'[c] = [command |-> p.command, result |-> result, work |-> p.work]
        /\ \A d \in Clients \ {c} : proc'[d] = proc[d] /\ last'[d] = last[d]
        /\ interrupted' = interrupted
    <2>1. result \in {"ok", "failed", "killed"}
      OBVIOUS
    <2> DEFINE r == {}
    <2>2. End(c, result, r) /\ interrupted \cup r = interrupted
      OBVIOUS
    <2> HIDE DEF r
    <2> QED
      BY <1>1, <1>3, <2>1, <2>2, EndTypes
  <1>6. /\ view' \in [Repos -> SUBSET Ids] /\ view'[c] = v
        /\ \A r \in Repos \ {c} : view'[r] = view[r]
    BY <1>2
  <1>7. Typed'
    BY <1>2, <1>5, <1>6 DEF Typed, Ids
  <1>8. Alone(c)
    BY <1>5, <1>6 DEF Alone, Repos
  <1>9. FetchGoesOn(change, store[c], Idle, c \notin interrupted)
    <2>1. FetchGoesOn(change, store[c], p, c \notin interrupted)
      BY <1>1 DEF ClientSound
    <2>2. ToSet(p.queue) = {}
      BY DEF ToSet
    <2> QED
      BY <2>1, <2>2 DEF FetchGoesOn, Pulls, Idle
  <1>10. WorkKept(change, Idle, None, last'[c], v)
    <2>1. WorkKept(change, p, post[c], last[c], view[c])
      BY <1>1 DEF ClientSound
    <2>2. p.command = "push" => p.work \subseteq WorkOf(change, v)
      BY <1>3, <2>1 DEF WorkKept
    <2>3. last'[c].command = p.command /\ last'[c].work = p.work
      BY <1>5
    <2> QED
      BY <2>2, <2>3 DEF WorkKept, Pulls, Idle
  <1>11. Idle.at = "idle"
    BY DEF Idle
  <1> QED
    BY <1>2, <1>4, <1>5, <1>6, <1>7, <1>8, <1>9, <1>10, <1>11, FetcherSound

\* merge_heads: the view has more, and its store is closed.
LEMMA MergeHeadsSound ==
  ASSUME IInv, NEW c \in Clients, MergeHeads(c)
  PROVE  IInv'
  <1> DEFINE both == view[c] \cup proc[c].heads
  <1>1. /\ proc[c].at = "fetch" /\ proc[c].queue = <<>> /\ proc[c].command = "pull"
        /\ UNCHANGED <<change, store, post, acked, direct>>
    BY DEF MergeHeads
  <1>2. Typed
    BY DEF IInv
  <1>3. both \subseteq Ids /\ view[c] \subseteq Ids /\ c \in Repos
    <2>1. proc[c] \in Fetches(Ids)
      BY <1>1, <1>2, ProcessTypes DEF Pulls
    <2> QED
      BY <1>2, <2>1, ProcessTypes DEF Fetches
  <1>4. view' = [view EXCEPT ![c] = both] \/ view' = [view EXCEPT ![c] = view[c]]
    <2>1. view' = [view EXCEPT ![c] = both] \/ view' = view
      BY DEF MergeHeads
    <2>2. view = [view EXCEPT ![c] = view[c]]
      BY <1>2, <1>3 DEF Typed
    <2> QED
      BY <2>1, <2>2
  <1>5. \E result \in {"ok", "failed"} : End(c, result, {})
    BY DEF MergeHeads
  <1>6. PICK v : v \subseteq Ids /\ view' = [view EXCEPT ![c] = v]
    BY <1>3, <1>4
  <1> QED
    BY <1>1, <1>5, <1>6, FetchEndsSound

\* The server's view has all the work of the push, and becomes the client's.
LEMMA AdoptCollapseSound ==
  ASSUME IInv, NEW c \in Clients, AdoptCollapse(c)
  PROVE  IInv'
  <1>1. /\ proc[c].at = "fetch" /\ proc[c].queue = <<>>
        /\ view' = [view EXCEPT ![c] = proc[c].heads] /\ End(c, "ok", {})
        /\ UNCHANGED <<change, store, post, acked, direct>>
    BY DEF AdoptCollapse
  <1>2. proc[c].heads \subseteq Ids
    <2>1. proc[c] \in Fetches(Ids)
      BY <1>1, ProcessTypes DEF Pulls, IInv
    <2> QED
      BY <2>1 DEF Fetches
  <1> QED
    BY <1>1, <1>2, FetchEndsSound

\* A command that fails or is killed leaves what it was at half written.
LEMMA StopSound ==
  ASSUME IInv, NEW c \in Clients, proc[c] # Idle,
         NEW result \in {"failed", "killed"}, NEW r, End(c, result, r),
         Pulls(proc[c]) => c \in r, ByPath(proc[c]) => Hub \in r,
         UNCHANGED <<change, store, view, post, acked, direct>>
  PROVE  IInv'
  <1> DEFINE p == proc[c]
  <1>1. Typed /\ ClientSound(c)
    BY DEF IInv
  <1>2. /\ c \in Repos /\ Hub \in Repos /\ c # Hub
        /\ store \in [Repos -> SUBSET Ids] /\ view \in [Repos -> SUBSET Ids]
        /\ post \in [Clients -> {None} \cup Posts(Ids)]
        /\ acked \subseteq Ids /\ direct \subseteq Ids /\ Contents(change)
    BY <1>1, ProcessTypes DEF Typed
  <1>3. /\ proc' \in [Clients -> {Idle} \cup Fetches(Ids) \cup Sends(Ids)]
        /\ last' \in [Clients -> Ends]
        /\ proc'[c] = Idle
        /\ last'[c] = [command |-> p.command, result |-> result, work |-> p.work]
        /\ \A d \in Clients \ {c} : proc'[d] = proc[d] /\ last'[d] = last[d]
        /\ interrupted' = interrupted \cup r
    <2>1. result \in {"ok", "failed", "killed"} /\ result # "ok"
      OBVIOUS
    <2> QED
      BY <1>1, <2>1, EndTypes
  <1>4. Typed'
    BY <1>2, <1>3 DEF Typed, Ids
  <1>5. Alone(c)
    BY <1>3 DEF Alone
  <1>6. Grows
    <2>1. Extends(change', change)
      BY SameChanges
    <2> QED
      BY <1>3, <2>1 DEF Grows
  <1>7. \A d \in Clients \ {c} : ClientSound(d)'
    BY <1>4, <1>5, <1>6, OthersSound
  <1>8. HubSound'
    <2>1. Hub \notin interrupted' => ToSend(c) = {}
      BY <1>3 DEF ToSend
    <2> QED
      BY <1>4, <1>5, <1>6, <2>1, HubLeftSound
  <1>9. FetchGoesOn(change', store'[c], proc'[c], c \notin interrupted')
    <2>1. FetchGoesOn(change, store[c], p, c \notin interrupted)
      BY <1>1 DEF ClientSound
    <2> QED
      BY <1>3, <2>1 DEF FetchGoesOn, Pulls, Idle
  <1>10. SendGoesOn(change', store'[Hub], Published', proc'[c]) /\ DeltaClosed(change', Published', proc'[c])
    BY <1>3, NothingToSend DEF Idle
  <1>11. PostClosed(change', store'[Hub], Published', post'[c])
    <2>1. PostClosed(change, store[Hub], Published, post[c]) /\ (post[c] # None => post[c] \in Posts(DOMAIN change))
      BY <1>1, <1>2 DEF ClientSound, Ids
    <2>2. Published \subseteq Published'
      BY <1>1, <1>4, <1>6, PublishedGrows
    <2>3. PostClosed(change', store'[Hub], Published', post[c])
      BY <1>2, <1>6, <2>1, <2>2, PostKept DEF Grows
    <2> QED
      BY <2>3
  <1>12. AckedRead(change', acked', proc'[c], post'[c]) /\ OneAtATime(proc'[c], post'[c])
    <2>1. AckedRead(change, acked, proc[c], post[c])
      BY <1>1 DEF ClientSound
    <2> QED
      BY <1>3, <2>1 DEF AckedRead, OneAtATime, ByPath, Idle
  <1>13. WorkKept(change', proc'[c], post'[c], last'[c], view'[c])
    BY <1>3 DEF WorkKept, Pulls, Idle
  <1>14. ClientSound(c)'
    BY <1>9, <1>10, <1>11, <1>12, <1>13 DEF ClientSound
  <1> QED
    BY <1>4, <1>7, <1>8, <1>14 DEF IInv

\* A client that is killed leaves its store, or the hub's, half written.
LEMMA KillSound ==
  ASSUME IInv, NEW c \in Clients, Kill(c)
  PROVE  IInv'
  <1> DEFINE r == IF proc[c].at \in {"fetch", "blob"} THEN {c} ELSE IF proc[c].via = "path" THEN {Hub} ELSE {}
  <1>1. proc[c] # Idle /\ End(c, "killed", r) /\ UNCHANGED <<change, store, view, post, acked, direct>>
    BY DEF Kill, stores
  <1>2. (Pulls(proc[c]) => c \in r) /\ (ByPath(proc[c]) => Hub \in r)
    BY DEF Pulls, ByPath
  <1> HIDE DEF r
  <1> QED
    BY <1>1, <1>2, StopSound

\* A step of a client that sends, and goes on.
LEMMA SenderSound ==
  ASSUME IInv, Typed', NEW c \in Clients, Alone(c), Grows, change' = change,
         UNCHANGED <<last, interrupted, acked, direct, view>>, store'[c] = store[c],
         proc[c].at \in {"send", "sendblob"}, proc'[c].at \in {"send", "sendblob"},
         proc'[c].heads = proc[c].heads, proc'[c].work = proc[c].work,
         proc'[c].remote = proc[c].remote, proc'[c].via = "path", proc[c].via = "path", post'[c] = None,
         SendGoesOn(change, store'[Hub], Published', proc'[c]),
         HubSound'
  PROVE  IInv'
  <1>1. \A d \in Clients \ {c} : ClientSound(d)'
    BY OthersSound
  <1>2. Typed /\ ClientSound(c) /\ ByPath(proc[c]) /\ ~Pulls(proc'[c]) /\ proc'[c] # Idle
    BY DEF IInv, ByPath, Pulls, Idle
  <1>3. FetchGoesOn(change', store'[c], proc'[c], c \notin interrupted')
    <2>1. FetchGoesOn(change, store[c], proc[c], c \notin interrupted)
      BY <1>2 DEF ClientSound
    <2>2. ~Pulls(proc[c]) /\ proc[c].at # "blob" /\ proc'[c].at # "blob"
      BY DEF Pulls
    <2> QED
      BY <1>2, <2>1, <2>2 DEF FetchGoesOn
  <1>4. SendGoesOn(change', store'[Hub], Published', proc'[c])
    OBVIOUS
  <1>5. DeltaClosed(change', Published', proc'[c]) /\ PostClosed(change', store'[Hub], Published', post'[c])
        /\ OneAtATime(proc'[c], post'[c])
    BY DEF DeltaClosed, PostClosed, OneAtATime
  <1>6. AckedRead(change', acked', proc'[c], post'[c])
    <2>1. AckedRead(change, acked, proc[c], post[c])
      BY <1>2 DEF ClientSound
    <2> QED
      BY <1>2, <2>1 DEF AckedRead
  <1>7. WorkKept(change', proc'[c], post'[c], last'[c], view'[c])
    <2>1. WorkKept(change, proc[c], post[c], last[c], view[c])
      BY <1>2 DEF ClientSound
    <2>2. proc'[c].heads = view[c] /\ proc'[c].work \subseteq WorkOf(change, view[c])
      BY <2>1 DEF WorkKept
    <2> QED
      BY <1>2, <2>2 DEF WorkKept
  <1>8. ClientSound(c)'
    BY <1>3, <1>4, <1>5, <1>6, <1>7 DEF ClientSound
  <1> QED
    BY <1>1, <1>8 DEF IInv

\* push_local writes a change: what it depends on is there or queued.
LEMMA SendChangeSound ==
  ASSUME IInv, NEW c \in Clients, SendChange(c)
  PROVE  IInv'
  <1> DEFINE p == proc[c]
             id == Head(p.queue)
             q == [p EXCEPT !.at = "sendblob"]
  <1>1. Typed /\ ClientSound(c) /\ HubSound
    BY DEF IInv
  <1>2. /\ p.at = "send" /\ p.via = "path" /\ p.queue # <<>> /\ ByPath(p)
        /\ store' = [store EXCEPT ![Hub] = @ \cup {id}]
        /\ UNCHANGED <<change, blobs, view, post, last, interrupted, acked, direct>>
    BY DEF SendChange, history, ByPath
  <1>3. /\ c \in Repos /\ Hub \in Repos /\ c # Hub /\ store[Hub] \subseteq Ids
        /\ store \in [Repos -> SUBSET Ids] /\ view \in [Repos -> SUBSET Ids]
        /\ post \in [Clients -> {None} \cup Posts(Ids)] /\ last \in [Clients -> Ends]
        /\ acked \subseteq Ids /\ direct \subseteq Ids /\ Contents(change)
        /\ proc \in [Clients -> {Idle} \cup Fetches(Ids) \cup Sends(Ids)]
    BY <1>1, ProcessTypes DEF Typed
  <1>4. p \in Sends(Ids) /\ post[c] = None
    BY <1>1, <1>2, ProcessTypes DEF ClientSound, OneAtATime
  <1>5. p.queue \in Seq(Ids) /\ id \in ToSet(p.queue) /\ id \in Ids
    <2>1. p.queue \in Seq(Ids)
      BY <1>4 DEF Sends
    <2> QED
      BY <1>2, <2>1, MembersOf
  <1>6. proc' = [proc EXCEPT ![c] = q]
    <2>1. proc' = [proc EXCEPT ![c].at = "sendblob"]
      BY DEF SendChange
    <2> QED
      BY <1>3, <2>1
  <1>7. /\ q \in Sends(Ids) /\ q.at = "sendblob" /\ q.queue = p.queue /\ q.via = "path"
        /\ q.heads = p.heads /\ q.remote = p.remote /\ q.work = p.work
    BY <1>2, <1>4 DEF Sends
  <1>8. /\ p.heads \subseteq store[Hub] \cup ToSet(p.queue)
        /\ \A x \in ToSet(p.queue) : change[x].deps \subseteq store[Hub] \cup ToSet(p.queue)
        /\ p.remote \subseteq Published
    BY <1>1, <1>2 DEF ClientSound, SendGoesOn
  <1> HIDE DEF p, q, id
  <1>9. /\ store' \in [Repos -> SUBSET Ids] /\ store'[Hub] = store[Hub] \cup {id}
        /\ \A r \in Repos \ {Hub} : store'[r] = store[r]
    BY <1>2, <1>3, <1>5
  <1>10. Typed' /\ proc'[c] = q /\ \A d \in Clients \ {c} : proc'[d] = proc[d]
    BY <1>1, <1>2, <1>3, <1>6, <1>7, <1>9, StepTypes
  <1>11. Alone(c)
    BY <1>2, <1>3, <1>9, <1>10, SyncAssumption DEF Alone, Repos
  <1>12. Grows
    <2>1. Extends(change', change)
      BY <1>2, SameChanges
    <2> QED
      BY <1>2, <1>9, <2>1 DEF Grows
  <1>13. Published \subseteq Published'
    BY <1>1, <1>10, <1>12, PublishedGrows
  <1>14. SendGoesOn(change, store'[Hub], Published', q)
    <2>1. q.queue # <<>> /\ Head(q.queue) \in store'[Hub]
      BY <1>2, <1>7, <1>9 DEF id
    <2> QED
      BY <1>7, <1>8, <1>9, <1>13, <2>1 DEF SendGoesOn
  <1>15. HubSound'
    <2>1. \A d \in Clients : ToSend(d)' = ToSend(d)
      <3>1. ToSend(c)' = ToSend(c)
        BY <1>2, <1>7, <1>10 DEF ToSend, ByPath, p
      <3> QED
        BY <1>10, <3>1 DEF ToSend
    <2>2. ToSend(c) = ToSet(p.queue)
      BY <1>2 DEF ToSend, p
    <2>3. ASSUME Hub \notin interrupted', NEW x \in store'[Hub]
          PROVE  change[x].deps \subseteq store'[Hub] \cup UNION {ToSend(d) : d \in Clients}
      <3>1. CASE x = id
        BY <1>5, <1>8, <1>9, <2>2, <3>1
      <3>2. CASE x \in store[Hub]
        <4>1. change[x].deps \subseteq store[Hub] \cup UNION {ToSend(d) : d \in Clients}
          BY <1>1, <1>2, <2>3, <3>2 DEF HubSound
        <4> QED
          BY <1>9, <4>1
      <3> QED
        BY <1>9, <2>3, <3>1, <3>2
    <2>4. Hub \notin interrupted' =>
            \A x \in store'[Hub] : change'[x].deps \subseteq store'[Hub] \cup UNION {ToSend(d)' : d \in Clients}
      BY <1>2, <2>1, <2>3
    <2>5. view'[Hub] \subseteq Published' /\ acked' \subseteq Anc(change', view'[Hub])
      BY <1>1, <1>2, <1>13 DEF HubSound
    <2> QED
      BY <2>4, <2>5 DEF HubSound
  <1>16. store'[c] = store[c]
    BY <1>3, <1>9
  <1> QED
    BY <1>2, <1>4, <1>7, <1>10, <1>11, <1>12, <1>14, <1>15, <1>16, SenderSound DEF p

\* push_local has written the blob too, and takes the next change.
LEMMA SendBlobSound ==
  ASSUME IInv, NEW c \in Clients, SendBlob(c)
  PROVE  IInv'
  <1> DEFINE p == proc[c]
             id == Head(p.queue)
             q == [p EXCEPT !.at = "send", !.queue = Tail(@)]
  <1>1. Typed /\ ClientSound(c) /\ HubSound
    BY DEF IInv
  <1>2. p.at = "sendblob" /\ UNCHANGED <<change, store, view, post, acked, direct>>
    BY DEF SendBlob
  <1>3. /\ c \in Repos /\ Hub \in Repos /\ c # Hub /\ store[Hub] \subseteq Ids
        /\ store \in [Repos -> SUBSET Ids] /\ view \in [Repos -> SUBSET Ids]
        /\ post \in [Clients -> {None} \cup Posts(Ids)] /\ last \in [Clients -> Ends]
        /\ acked \subseteq Ids /\ direct \subseteq Ids /\ Contents(change)
        /\ proc \in [Clients -> {Idle} \cup Fetches(Ids) \cup Sends(Ids)]
    BY <1>1, ProcessTypes DEF Typed
  <1>4. p \in Sends(Ids) /\ post[c] = None
    BY <1>1, <1>2, ProcessTypes DEF ClientSound, OneAtATime
  <1>5. p # Idle /\ ~Pulls(p)
    BY <1>2 DEF Idle, Pulls
  <1>6. End(c, "failed", {Hub}) \/ (proc' = [proc EXCEPT ![c].at = "send", ![c].queue = Tail(@)]
                                    /\ UNCHANGED <<last, interrupted>>)
    BY DEF SendBlob
  <1>7. CASE End(c, "failed", {Hub})
    <2> DEFINE r == {Hub}
    <2>1. End(c, "failed", r) /\ Hub \in r
      BY <1>7
    <2> HIDE DEF r
    <2> QED
      BY <1>2, <1>5, <2>1, StopSound
  <1>8. CASE proc' = [proc EXCEPT ![c].at = "send", ![c].queue = Tail(@)] /\ UNCHANGED <<last, interrupted>>
    <2>0. p.via = "path" /\ ByPath(p)
      BY <1>1, <1>2 DEF ClientSound, SendGoesOn, ByPath
    <2>1. proc' = [proc EXCEPT ![c] = q]
      BY <1>3, <1>8
    <2>2. /\ p.heads \subseteq store[Hub] \cup ToSet(p.queue)
          /\ \A x \in ToSet(p.queue) : change[x].deps \subseteq store[Hub] \cup ToSet(p.queue)
          /\ p.queue # <<>> /\ id \in store[Hub]
          /\ p.remote \subseteq Published
      BY <1>1, <1>2, <2>0 DEF ClientSound, SendGoesOn
    <2>3. p.queue \in Seq(Ids) /\ Tail(p.queue) \in Seq(Ids)
          /\ ToSet(p.queue) = {id} \cup ToSet(Tail(p.queue))
      <3>1. p.queue \in Seq(Ids)
        BY <1>4 DEF Sends
      <3> QED
        BY <2>2, <3>1, MembersOf
    <2>4. /\ q \in Sends(Ids) /\ q.at = "send" /\ q.queue = Tail(p.queue) /\ q.via = "path"
          /\ q.heads = p.heads /\ q.remote = p.remote /\ q.work = p.work
      BY <1>2, <1>4, <2>0, <2>3 DEF Sends
    <2> HIDE DEF p, q, id
    <2>5. Typed' /\ proc'[c] = q /\ \A d \in Clients \ {c} : proc'[d] = proc[d]
      BY <1>1, <1>2, <1>3, <1>8, <2>1, <2>4, StepTypes
    <2>6. Alone(c)
      BY <1>2, <1>8, <2>5 DEF Alone
    <2>7. Grows
      <3>1. Extends(change', change)
        BY <1>2, SameChanges
      <3> QED
        BY <1>2, <1>8, <3>1 DEF Grows
    <2>8. Published \subseteq Published'
      BY <1>1, <2>5, <2>7, PublishedGrows
    <2>9. SendGoesOn(change, store'[Hub], Published', q)
      BY <1>2, <2>2, <2>3, <2>4, <2>8 DEF SendGoesOn
    <2>10. HubSound'
      <3>1. ToSend(c) = ToSet(p.queue) /\ ToSend(c)' = ToSet(q.queue)
        BY <2>0, <2>4, <2>5 DEF ToSend, ByPath, p
      <3>2. ToSend(c) \subseteq ToSend(c)' \cup store[Hub]
        BY <2>2, <2>3, <2>4, <3>1
      <3> QED
        BY <1>2, <2>5, <2>6, <2>7, <3>2, HubLeftSound
    <2> QED
      BY <1>2, <1>4, <1>8, <2>0, <2>4, <2>5, <2>6, <2>7, <2>9, <2>10, SenderSound DEF p
  <1> QED
    BY <1>6, <1>7, <1>8

\* A push is acknowledged only when no other has the hub's view loaded.
LEMMA AcknowledgeFacts ==
  ASSUME NEW c \in Clients, NEW hs, Acknowledge(c, hs)
  PROVE  /\ acked' = acked \/ acked' = acked \cup hs
         /\ \A d \in Clients \ {c} : acked' = acked \/ ~Loaded(d)
  BY DEF Acknowledge

\* push_local writes the view: all that it was to send has been sent, and what was
\* acknowledged is in the heads that it read.
LEMMA PushViewSound ==
  ASSUME IInv, NEW c \in Clients, PushView(c)
  PROVE  IInv'
  <1> DEFINE p == proc[c]
             all == p.remote \cup p.heads
  <1>1. Typed /\ ClientSound(c) /\ HubSound
    BY DEF IInv
  <1>2. /\ p.at = "send" /\ p.via = "path" /\ p.queue = <<>> /\ ByPath(p) /\ p # Idle /\ ~Pulls(p)
        /\ view' = [view EXCEPT ![Hub] = all]
        /\ Acknowledge(c, p.heads) /\ direct' = direct \cup p.heads
        /\ End(c, "ok", {})
        /\ UNCHANGED <<change, store, blobs, post>>
    BY DEF PushView, Union, ByPath, Idle, Pulls
  <1>3. /\ c \in Repos /\ Hub \in Repos /\ c # Hub /\ store[Hub] \subseteq Ids
        /\ store \in [Repos -> SUBSET Ids] /\ view \in [Repos -> SUBSET Ids]
        /\ post \in [Clients -> {None} \cup Posts(Ids)]
        /\ acked \subseteq Ids /\ direct \subseteq Ids /\ Contents(change)
    BY <1>1, ProcessTypes DEF Typed
  <1>4. p \in Sends(Ids) /\ post[c] = None
    BY <1>1, <1>2, ProcessTypes DEF ClientSound, OneAtATime
  <1>5. p.heads \subseteq Ids /\ p.remote \subseteq Ids
    BY <1>4 DEF Sends
  <1>6. /\ proc' \in [Clients -> {Idle} \cup Fetches(Ids) \cup Sends(Ids)]
        /\ last' \in [Clients -> Ends]
        /\ proc'[c] = Idle
        /\ last'[c] = [command |-> p.command, result |-> "ok", work |-> p.work]
        /\ \A d \in Clients \ {c} : proc'[d] = proc[d] /\ last'[d] = last[d]
        /\ interrupted' = interrupted
    <2> DEFINE r == {}
    <2>1. End(c, "ok", r)
      BY <1>2
    <2> HIDE DEF r
    <2> QED
      BY <1>1, <1>2, <2>1, EndTypes
  <1>7. ToSet(p.queue) = {}
    BY <1>2 DEF ToSet
  <1>8. p.heads \subseteq store[Hub] /\ p.remote \subseteq Published
    BY <1>1, <1>2, <1>7 DEF ClientSound, SendGoesOn
  <1>9. /\ acked' = acked \/ acked' = acked \cup p.heads
        /\ \A d \in Clients \ {c} : acked' = acked \/ ~Loaded(d)
    <2> DEFINE hs == p.heads
    <2>1. Acknowledge(c, hs)
      BY <1>2
    <2> HIDE DEF hs
    <2>2. /\ acked' = acked \/ acked' = acked \cup hs
          /\ \A d \in Clients \ {c} : acked' = acked \/ ~Loaded(d)
      BY <2>1, AcknowledgeFacts
    <2> QED
      BY <2>2 DEF hs
  <1>10. acked \subseteq Anc(change, p.remote)
    BY <1>1, <1>2 DEF ClientSound, AckedRead
  <1>11. WorkKept(change, p, post[c], last[c], view[c])
    BY <1>1 DEF ClientSound
  <1>12. view' \in [Repos -> SUBSET Ids] /\ view'[Hub] = all
         /\ \A r \in Repos \ {Hub} : view'[r] = view[r]
    BY <1>2, <1>3, <1>5
  <1>13. Typed'
    <2>1. acked' \subseteq Ids /\ direct' \subseteq Ids
      BY <1>2, <1>3, <1>5, <1>9
    <2> QED
      BY <1>2, <1>3, <1>6, <1>12, <2>1 DEF Typed, Ids
  <1>14. Alone(c)
    BY <1>2, <1>3, <1>6, <1>12, SyncAssumption DEF Alone, Repos
  <1>15. Grows
    <2>1. Extends(change', change)
      BY <1>2, SameChanges
    <2> QED
      BY <1>2, <1>6, <2>1 DEF Grows
  <1>16. \A d \in Clients \ {c} : ClientSound(d)'
    BY <1>9, <1>13, <1>14, <1>15, OthersSound
  <1>17. Published \subseteq Published'
    BY <1>1, <1>13, <1>15, PublishedGrows
  <1>18. p.heads \subseteq Published'
    <2>1. ASSUME NEW h \in p.heads PROVE h \in Published'
      <3>1. direct' \subseteq DOMAIN change /\ h \in direct'
        BY <1>2, <1>3, <1>5 DEF Ids
      <3>2. Anc(change, {h}) \subseteq Anc(change, direct')
        BY <1>3, <3>1, AncOfMore
      <3> QED
        BY <1>2, <1>8, <3>2 DEF Published, Publishable
    <2> QED
      BY <2>1
  <1>19. HubSound'
    <2>1. ToSend(c) = {}
      BY <1>2, <1>7 DEF ToSend
    <2>2. Hub \notin interrupted' =>
            \A x \in store'[Hub] : change'[x].deps \subseteq store'[Hub] \cup UNION {ToSend(e)' : e \in Clients}
      BY <1>2, <1>13, <1>14, <1>15, <2>1, HubStillClosed
    <2>3. view'[Hub] \subseteq Published'
      BY <1>8, <1>12, <1>17, <1>18
    <2>4. acked' \subseteq Anc(change', view'[Hub])
      <3>1. all \subseteq DOMAIN change
        BY <1>5 DEF Ids
      <3>2. Anc(change, p.remote) \subseteq Anc(change, all) /\ p.heads \subseteq Anc(change, all)
        BY <1>3, <3>1, AncOfMore, AncIsClosed
      <3> QED
        BY <1>2, <1>9, <1>10, <1>12, <3>2
    <2> QED
      BY <2>2, <2>3, <2>4 DEF HubSound
  <1>20. ClientSound(c)'
    <2>1. FetchGoesOn(change', store'[c], proc'[c], c \notin interrupted')
      <3>1. FetchGoesOn(change, store[c], p, c \notin interrupted)
        BY <1>1 DEF ClientSound
      <3> QED
        BY <1>2, <1>6, <3>1 DEF FetchGoesOn, Pulls, Idle
    <2>2. WorkKept(change', proc'[c], post'[c], last'[c], view'[c])
      <3>1. p.work \subseteq WorkOf(change, view[c]) /\ view'[c] = view[c]
        BY <1>2, <1>3, <1>11, <1>12 DEF WorkKept
      <3> QED
        BY <1>2, <1>6, <3>1 DEF WorkKept, Pulls, Idle
    <2>3. Idle.at = "idle"
      BY DEF Idle
    <2> QED
      BY <1>2, <1>4, <1>6, <2>1, <2>2, <2>3, NothingToSend, NothingPosted DEF ClientSound
  <1> QED
    BY <1>13, <1>16, <1>19, <1>20 DEF IInv

\* push gathers its delta: with what is cut off, it is closed.
LEMMA PushSound ==
  ASSUME IInv, NEW c \in Clients, Push(c)
  PROVE  IInv'
  <1>1. Typed /\ ClientSound(c) /\ HubSound
    BY DEF IInv
  <1>2. /\ proc[c] = Idle /\ post[c] = None
        /\ UNCHANGED <<change, store, blobs, view, post, last, interrupted, acked, direct>>
    BY DEF Push, stores, history
  <1>3. /\ c \in Repos /\ Hub \in Repos /\ c # Hub /\ store[Hub] \subseteq Ids /\ store[c] \subseteq Ids
        /\ view[Hub] \subseteq Ids /\ view[c] \subseteq Ids
        /\ store \in [Repos -> SUBSET Ids] /\ view \in [Repos -> SUBSET Ids]
        /\ post \in [Clients -> {None} \cup Posts(Ids)] /\ last \in [Clients -> Ends]
        /\ acked \subseteq Ids /\ direct \subseteq Ids /\ Contents(change)
    BY <1>1, ProcessTypes DEF Typed
  <1>0. PICK via \in Transports :
           \E delta \in push_delta(c, IF via = "path" THEN store[Hub] ELSE view[Hub]) :
              proc' = [proc EXCEPT ![c] = [at |-> "send", command |-> "push", via |-> via, heads |-> view[c],
                                           queue |-> delta, remote |-> view[Hub], work |-> Work(c)]]
    BY DEF Push
  <1> DEFINE cut == IF via = "path" THEN store[Hub] ELSE view[Hub]
  <1>4. PICK delta \in push_delta(c, cut) :
          proc' = [proc EXCEPT ![c] = [at |-> "send", command |-> "push", via |-> via, heads |-> view[c],
                                       queue |-> delta, remote |-> view[Hub], work |-> Work(c)]]
    BY <1>0
  <1> DEFINE p == [at |-> "send", command |-> "push", via |-> via, heads |-> view[c],
                   queue |-> delta, remote |-> view[Hub], work |-> Work(c)]
  <1>5. /\ delta \in Seq(Ids)
        /\ view[c] \subseteq cut \cup ToSet(delta)
        /\ \A i \in 1..Len(delta) :
             change[delta[i]].deps \subseteq cut \cup {delta[j] : j \in (i + 1)..Len(delta)}
    <2>1. delta \in push_delta(c, cut)
      BY <1>4
    <2> HIDE DEF cut
    <2> QED
      BY <1>3, <2>1, DeltaIsClosed
  <1>6. Work(c) = WorkOf(change, view[c]) /\ Work(c) \subseteq Numbers
    <2>1. Work(c) = WorkOf(change, view[c])
      BY DEF Work, WorkOf, ancestors, Anc, Ids
    <2>2. Anc(change, view[c]) \subseteq DOMAIN change
      BY <1>3, AncIsClosed DEF Ids
    <2>3. \A x \in DOMAIN change : change[x].origin \in Numbers
      BY <1>3, ContentsFacts
    <2> QED
      BY <2>1, <2>2, <2>3 DEF WorkOf
  <1>7. /\ p \in Sends(Ids) /\ p.at = "send" /\ p.via = via /\ p.queue = delta /\ p.heads = view[c]
        /\ p.remote = view[Hub] /\ p.work = Work(c) /\ p # Idle /\ ~Pulls(p)
    <2>1. p \in Sends(Ids)
      BY <1>3, <1>5, <1>6 DEF Sends
    <2> QED
      BY <2>1 DEF Idle, Pulls
  <1>8. Typed' /\ proc'[c] = p /\ \A d \in Clients \ {c} : proc'[d] = proc[d]
    <2>1. proc' = [proc EXCEPT ![c] = p]
      BY <1>4
    <2> HIDE DEF p
    <2> QED
      BY <1>1, <1>2, <1>3, <1>7, <2>1, StepTypes
  <1> HIDE DEF p
  <1>9. Alone(c) /\ Grows
    <2>1. Alone(c)
      BY <1>2, <1>8 DEF Alone
    <2>2. Extends(change', change)
      BY <1>2, SameChanges
    <2> QED
      BY <1>2, <2>1, <2>2 DEF Grows
  <1>10. \A d \in Clients \ {c} : ClientSound(d)'
    BY <1>2, <1>8, <1>9, OthersSound
  <1>11. HubSound'
    <2>1. ToSend(c) = {}
      BY <1>2 DEF ToSend, ByPath, Idle
    <2> QED
      BY <1>2, <1>8, <1>9, <2>1, HubLeftSound
  <1>12. Published' = Published /\ view[Hub] \subseteq Published
    BY <1>1, <1>2 DEF Published, HubSound
  <1>13. SendGoesOn(change, store[Hub], Published, p)
    <2>1. CASE via = "path"
      <3>1. cut = store[Hub]
        BY <2>1
      <3> HIDE DEF cut
      <3>2. ASSUME NEW x \in ToSet(delta)
            PROVE  change[x].deps \subseteq store[Hub] \cup ToSet(delta)
        <4>1. PICK i \in 1..Len(delta) : x = delta[i]
          BY <1>5, <3>2, MembersOf DEF ToSet
        <4>2. {delta[j] : j \in (i + 1)..Len(delta)} \subseteq ToSet(delta)
          BY <1>5 DEF ToSet
        <4> QED
          BY <1>5, <3>1, <4>1, <4>2
      <3> QED
        BY <1>5, <1>7, <1>12, <3>1, <3>2 DEF SendGoesOn
    <2>2. CASE via # "path"
      BY <1>7, <2>2 DEF SendGoesOn, ByPath
    <2> QED
      BY <2>1, <2>2
  <1>14. DeltaClosed(change, Published, p)
    <2>1. CASE via = "path"
      BY <1>7, <2>1 DEF DeltaClosed
    <2>2. CASE via # "path"
      <3>1. cut = view[Hub]
        BY <2>2
      <3> HIDE DEF cut
      <3> DEFINE After(i) == {delta[j] : j \in (i + 1)..Len(delta)}
      <3>2. \A i \in 1..Len(delta) : change[delta[i]].deps \subseteq view[Hub] \cup After(i)
        BY <1>5, <3>1
      <3> HIDE DEF After
      <3>3. view[c] \subseteq Published \cup ToSet(delta)
            /\ \A i \in 1..Len(delta) : change[delta[i]].deps \subseteq Published \cup After(i)
        BY <1>5, <1>12, <3>1, <3>2
      <3> QED
        BY <1>7, <3>3 DEF DeltaClosed, After
    <2> QED
      BY <2>1, <2>2
  <1>15. PostClosed(change, store[Hub], Published, None) /\ OneAtATime(p, None)
    BY DEF PostClosed, OneAtATime
  <1>16. AckedRead(change, acked, p, None)
    BY <1>1, <1>7 DEF AckedRead, HubSound
  <1>17. FetchGoesOn(change, store[c], p, c \notin interrupted)
    <2>1. FetchGoesOn(change, store[c], Idle, c \notin interrupted)
      BY <1>1, <1>2 DEF ClientSound
    <2> QED
      BY <1>7, <2>1 DEF FetchGoesOn, Pulls, Idle
  <1>18. WorkKept(change, p, None, last[c], view[c])
    BY <1>6, <1>7 DEF WorkKept
  <1>19. ClientSound(c)'
    BY <1>2, <1>8, <1>12, <1>13, <1>14, <1>15, <1>16, <1>17, <1>18 DEF ClientSound
  <1> QED
    BY <1>8, <1>10, <1>11, <1>19 DEF IInv

\* push_http posts the delta, roots first.
LEMMA PostSound ==
  ASSUME IInv, NEW c \in Clients, Post(c)
  PROVE  IInv'
  <1> DEFINE p == proc[c]
             q == [p EXCEPT !.at = "wait"]
             t == Reverse(p.queue)
             none == [x \in {} |-> x]
             r == [at |-> "write", todo |-> t, heads |-> p.heads, map |-> none, existing |-> {}]
  <1>1. Typed /\ ClientSound(c) /\ HubSound
    BY DEF IInv
  <1>2. /\ p.at = "send" /\ p.via = "http" /\ ~ByPath(p) /\ ~Pulls(p) /\ p # Idle
        /\ UNCHANGED <<change, store, view, acked, direct>>
    BY DEF Post, ByPath, Pulls, Idle
  <1>3. /\ c \in Repos /\ Hub \in Repos /\ c # Hub
        /\ store \in [Repos -> SUBSET Ids] /\ view \in [Repos -> SUBSET Ids]
        /\ post \in [Clients -> {None} \cup Posts(Ids)] /\ last \in [Clients -> Ends]
        /\ acked \subseteq Ids /\ direct \subseteq Ids /\ Contents(change)
        /\ proc \in [Clients -> {Idle} \cup Fetches(Ids) \cup Sends(Ids)]
    BY <1>1, ProcessTypes DEF Typed
  <1>4. p \in Sends(Ids)
    BY <1>1, <1>2, ProcessTypes
  <1>5. \/ End(c, "failed", {}) /\ UNCHANGED post
        \/ /\ post' = [post EXCEPT ![c] = r]
           /\ proc' = [proc EXCEPT ![c].at = "wait"]
           /\ UNCHANGED <<last, interrupted>>
    BY DEF Post
  <1>6. CASE End(c, "failed", {}) /\ UNCHANGED post
    <2> DEFINE s == {}
    <2>1. End(c, "failed", s)
      BY <1>6
    <2> HIDE DEF s, p
    <2> QED
      BY <1>2, <1>6, <2>1, StopSound DEF p
  <1>7. CASE /\ post' = [post EXCEPT ![c] = r]
             /\ proc' = [proc EXCEPT ![c].at = "wait"]
             /\ UNCHANGED <<last, interrupted>>
    <2>1. proc' = [proc EXCEPT ![c] = q]
      BY <1>3, <1>7
    <2>2. /\ q \in Sends(Ids) /\ q.at = "wait" /\ q.heads = p.heads /\ q.work = p.work /\ q.via = "http"
          /\ q # Idle /\ ~Pulls(q) /\ ~ByPath(q)
      <3>1. q \in Sends(Ids) /\ q.at = "wait" /\ q.heads = p.heads /\ q.work = p.work /\ q.via = "http"
        BY <1>2, <1>4 DEF Sends
      <3> QED
        BY <3>1 DEF Idle, Pulls, ByPath
    <2>3. p.queue \in Seq(Ids) /\ p.heads \subseteq Ids
      BY <1>4 DEF Sends
    <2>4. /\ t \in Seq(Ids) /\ Len(t) = Len(p.queue) /\ ToSet(t) = ToSet(p.queue) /\ Len(p.queue) \in Nat
          /\ \A i \in 1..Len(t) : t[i] = p.queue[(Len(t) - i) + 1]
      <3> DEFINE s == p.queue
      <3>1. s \in Seq(Ids)
        BY <2>3
      <3> HIDE DEF s
      <3>2. /\ Reverse(s) \in Seq(Ids) /\ Len(Reverse(s)) = Len(s) /\ ToSet(Reverse(s)) = ToSet(s) /\ Len(s) \in Nat
            /\ \A i \in 1..Len(s) : Reverse(s)[i] = s[(Len(s) - i) + 1]
        BY <3>1, MembersReversed
      <3> QED
        BY <3>2 DEF s
    <2>5. none \in UNION {[d -> Ids] : d \in SUBSET Ids} /\ DOMAIN none = {}
      <3>1. none \in [{} -> Ids] /\ {} \in SUBSET Ids
        OBVIOUS
      <3> QED
        BY <3>1
    <2> HIDE DEF t, none
    <2>6. /\ r \in Posts(Ids) /\ r.at = "write" /\ r.todo = t /\ r.heads = p.heads /\ r.map = none
          /\ r.existing = {}
      BY <2>3, <2>4, <2>5 DEF Posts
    <2> HIDE DEF p, q, r
    <2>7. /\ post' \in [Clients -> {None} \cup Posts(Ids)] /\ post'[c] = r
          /\ \A d \in Clients \ {c} : post'[d] = post[d]
      BY <1>3, <1>7, <2>6
    <2>8. Typed' /\ proc'[c] = q /\ \A d \in Clients \ {c} : proc'[d] = proc[d]
      BY <1>1, <1>2, <1>3, <1>7, <2>1, <2>2, <2>7, StepTypes
    <2>9. Alone(c)
      BY <1>2, <1>7, <2>7, <2>8 DEF Alone
    <2>10. Grows
      <3>1. Extends(change', change)
        BY <1>2, SameChanges
      <3> QED
        BY <1>2, <1>7, <3>1 DEF Grows
    <2>11. \A d \in Clients \ {c} : ClientSound(d)'
      BY <1>2, <2>8, <2>9, <2>10, OthersSound
    <2>12. HubSound'
      <3>1. ToSend(c) = {}
        BY <1>2 DEF ToSend, p
      <3> QED
        BY <1>2, <2>8, <2>9, <2>10, <3>1, HubLeftSound
    <2>13. Published' = Published
      BY <1>2 DEF Published
    <2>14. PostClosed(change, store[Hub], Published, r)
      <3> DEFINE s == p.queue
                 After(i) == {s[j] : j \in (i + 1)..Len(s)}
                 Before(i) == {t[j] : j \in 1..(i - 1)}
      <3>1. p.heads \subseteq Published \cup ToSet(s)
            /\ \A i \in 1..Len(s) : change[s[i]].deps \subseteq Published \cup After(i)
        BY <1>1, <1>2 DEF ClientSound, DeltaClosed, p
      <3>2. Len(s) = Len(t) /\ Len(t) \in Nat /\ ToSet(t) = ToSet(s)
            /\ \A i \in 1..Len(t) : t[i] = s[(Len(t) - i) + 1]
        BY <2>4
      <3> HIDE DEF s
      <3>3. ASSUME NEW i \in 1..Len(t)
            PROVE  change[t[i]].deps \subseteq Published \cup Before(i)
        <4> DEFINE k == (Len(t) - i) + 1
        <4>1. k \in 1..Len(s) /\ t[i] = s[k]
          BY <3>2
        <4>2. After(k) \subseteq Before(i)
          <5>1. ASSUME NEW j \in (k + 1)..Len(s) PROVE s[j] \in Before(i)
            <6> DEFINE n == (Len(t) - j) + 1
            <6>1. n \in 1..(i - 1) /\ n \in 1..Len(t) /\ (Len(t) - n) + 1 = j
              BY <3>2, <4>1
            <6>2. t[n] = s[j]
              BY <3>2, <6>1
            <6> QED
              BY <6>1, <6>2
          <5> QED
            BY <5>1
        <4> HIDE DEF k, After, Before
        <4>3. change[s[k]].deps \subseteq Published \cup After(k)
          BY <3>1, <4>1
        <4> QED
          BY <4>1, <4>2, <4>3
      <3> HIDE DEF Before, After
      <3>4. \A i \in 1..Len(t) : change[t[i]].deps \subseteq Published \cup Before(i)
        BY <3>3
      <3>5. p.heads \subseteq Published \cup ToSet(t)
        BY <3>1, <3>2
      <3> QED
        BY <2>5, <2>6, <3>4, <3>5 DEF PostClosed, Before
    <2>15. FetchGoesOn(change, store[c], q, c \notin interrupted)
      <3>1. FetchGoesOn(change, store[c], p, c \notin interrupted)
        BY <1>1 DEF ClientSound, p
      <3> QED
        BY <1>2, <2>2, <3>1 DEF FetchGoesOn
    <2>16. WorkKept(change, q, r, last[c], view[c])
      <3>1. WorkKept(change, p, post[c], last[c], view[c])
        BY <1>1 DEF ClientSound, p
      <3>2. p.heads = view[c] /\ p.work \subseteq WorkOf(change, view[c])
        BY <1>2, <3>1 DEF WorkKept
      <3> QED
        BY <2>2, <2>6, <3>2 DEF WorkKept
    <2>17. /\ SendGoesOn(change, store[Hub], Published, q) /\ DeltaClosed(change, Published, q)
           /\ AckedRead(change, acked, q, r) /\ OneAtATime(q, r)
      <3>1. q.at \notin {"send", "sendblob", "fetch", "blob"} /\ r.at # "loaded"
        BY <2>2, <2>6
      <3> QED
        BY <2>2, <3>1, NothingToSend DEF AckedRead, OneAtATime
    <2>18. ClientSound(c)'
      BY <1>2, <1>7, <2>7, <2>8, <2>13, <2>14, <2>15, <2>16, <2>17 DEF ClientSound
    <2> QED
      BY <2>8, <2>11, <2>12, <2>18 DEF IInv
  <1> QED
    BY <1>5, <1>6, <1>7

\* The server reads the view, with all that was acknowledged.
LEMMA LoadViewSound ==
  ASSUME IInv, NEW c \in Clients, LoadView(c)
  PROVE  IInv'
  <1> DEFINE q == post[c]
             r == [q EXCEPT !.at = "loaded", !.existing = view[Hub]]
  <1>1. Typed /\ ClientSound(c) /\ HubSound
    BY DEF IInv
  <1>2. /\ q # None /\ q.at = "write" /\ q.todo = <<>>
        /\ UNCHANGED <<change, store, view, proc, last, interrupted, acked, direct>>
    BY DEF LoadView, stores, history
  <1>3. /\ c \in Repos /\ Hub \in Repos /\ c # Hub /\ view[Hub] \subseteq Ids
        /\ post \in [Clients -> {None} \cup Posts(Ids)]
        /\ q \in Posts(Ids)
        /\ proc[c] \in {Idle} \cup Fetches(Ids) \cup Sends(Ids)
    BY <1>1, <1>2, ProcessTypes DEF Typed
  <1>4. post' = [post EXCEPT ![c] = r]
    <2>1. post' = [post EXCEPT ![c].at = "loaded", ![c].existing = view[Hub]]
      BY DEF LoadView
    <2> QED
      BY <1>3, <2>1
  <1>5. /\ r \in Posts(Ids) /\ r.at = "loaded" /\ r.existing = view[Hub]
        /\ r.todo = q.todo /\ r.heads = q.heads /\ r.map = q.map
    BY <1>3 DEF Posts
  <1> HIDE DEF q, r
  <1>6. /\ post' \in [Clients -> {None} \cup Posts(Ids)] /\ post'[c] = r
        /\ \A d \in Clients \ {c} : post'[d] = post[d]
    BY <1>3, <1>4, <1>5
  <1>7. Typed'
    BY <1>1, <1>2, <1>6 DEF Typed, Ids
  <1>8. Alone(c)
    BY <1>2, <1>6 DEF Alone
  <1>9. Grows
    <2>1. Extends(change', change)
      BY <1>2, SameChanges
    <2> QED
      BY <1>2, <2>1 DEF Grows
  <1>10. \A d \in Clients \ {c} : ClientSound(d)'
    BY <1>2, <1>7, <1>8, <1>9, OthersSound
  <1>11. HubSound'
    <2>1. ToSend(c)' = ToSend(c)
      BY <1>2 DEF ToSend
    <2> QED
      BY <1>2, <1>7, <1>8, <1>9, <2>1, HubLeftSound
  <1>12. Published' = Published /\ view[Hub] \subseteq Published /\ acked \subseteq Anc(change, view[Hub])
    BY <1>1, <1>2 DEF Published, HubSound
  <1>13. PostClosed(change, store[Hub], Published, r)
    <2>1. PostClosed(change, store[Hub], Published, q)
      BY <1>1 DEF ClientSound, q
    <2> DEFINE Before(i) == {q.todo[j] : j \in 1..(i - 1)}
    <2>2. /\ q.heads \subseteq Published \cup DOMAIN q.map \cup ToSet(q.todo)
          /\ \A i \in 1..Len(q.todo) : change[q.todo[i]].deps \subseteq Published \cup DOMAIN q.map \cup Before(i)
          /\ DOMAIN q.map \subseteq store[Hub]
      BY <1>2, <2>1 DEF PostClosed
    <2>3. \A x \in DOMAIN q.map : q.map[x] \in Published /\ WorkOf(change, {x}) \subseteq WorkOf(change, {q.map[x]})
      BY <1>2, <2>1 DEF PostClosed
    <2>4. /\ r.heads \subseteq Published \cup DOMAIN r.map \cup ToSet(r.todo)
          /\ \A i \in 1..Len(r.todo) :
               change[r.todo[i]].deps \subseteq Published \cup DOMAIN r.map \cup {r.todo[j] : j \in 1..(i - 1)}
          /\ DOMAIN r.map \subseteq store[Hub]
      BY <1>5, <2>2
    <2> HIDE DEF Before
    <2>5. /\ \A x \in DOMAIN r.map : r.map[x] \in Published /\ WorkOf(change, {x}) \subseteq WorkOf(change, {r.map[x]})
          /\ r.existing \subseteq Published /\ r.todo = <<>>
      BY <1>2, <1>5, <1>12, <2>3
    <2> QED
      BY <2>4, <2>5 DEF PostClosed
  <1>14. AckedRead(change, acked, proc[c], r)
    <2>1. AckedRead(change, acked, proc[c], q)
      BY <1>1 DEF ClientSound, q
    <2> QED
      BY <1>5, <1>12, <2>1 DEF AckedRead
  <1>15. OneAtATime(proc[c], r) /\ WorkKept(change, proc[c], r, last[c], view[c])
    <2>1. OneAtATime(proc[c], q) /\ WorkKept(change, proc[c], q, last[c], view[c])
      BY <1>1 DEF ClientSound, q
    <2>2. proc[c].at \notin {"send", "sendblob", "fetch", "blob"}
      BY <1>2, <2>1 DEF OneAtATime
    <2> QED
      BY <1>2, <1>5, <2>1, <2>2 DEF OneAtATime, WorkKept
  <1>16. /\ FetchGoesOn(change, store[c], proc[c], c \notin interrupted)
         /\ SendGoesOn(change, store[Hub], Published, proc[c])
         /\ DeltaClosed(change, Published, proc[c])
    BY <1>1 DEF ClientSound
  <1>17. ClientSound(c)'
    BY <1>2, <1>6, <1>12, <1>13, <1>14, <1>15, <1>16 DEF ClientSound
  <1> QED
    BY <1>7, <1>10, <1>11, <1>17 DEF IInv

\* The server is killed: the POSTs are gone, and none of the pushes succeeds.
LEMMA KillServerSound ==
  ASSUME IInv, KillServer
  PROVE  IInv'
  <1>1. Typed /\ HubSound
    BY DEF IInv
  <1>2. /\ post' = [c \in Clients |-> None]
        /\ proc' = [c \in Clients |-> IF proc[c].at = "wait" THEN Idle ELSE proc[c]]
        /\ last' = [c \in Clients |-> IF proc[c].at = "wait" THEN [last[c] EXCEPT !.command = "push", !.result = "failed"] ELSE last[c]]
        /\ UNCHANGED <<change, store, view, interrupted, acked, direct>>
    BY DEF KillServer, stores
  <1>3. /\ proc \in [Clients -> {Idle} \cup Fetches(Ids) \cup Sends(Ids)]
        /\ last \in [Clients -> Ends]
    BY <1>1 DEF Typed
  <1>4. last' \in [Clients -> Ends]
        /\ \A c \in Clients : proc[c].at = "wait" => last'[c].result = "failed"
    <2>1. ASSUME NEW l \in Ends
          PROVE  LET k == [l EXCEPT !.command = "push", !.result = "failed"] IN k \in Ends /\ k.result = "failed"
      BY DEF Ends
    <2>2. \A c \in Clients : last[c] \in Ends
      BY <1>3
    <2> QED
      BY <1>2, <2>1, <2>2
  <1>5. proc' \in [Clients -> {Idle} \cup Fetches(Ids) \cup Sends(Ids)]
        /\ \A c \in Clients : proc'[c] = IF proc[c].at = "wait" THEN Idle ELSE proc[c]
    BY <1>2, <1>3
  <1>6. post' \in [Clients -> {None} \cup Posts(Ids)] /\ \A c \in Clients : post'[c] = None
    BY <1>2
  <1>7. Typed'
    BY <1>1, <1>2, <1>4, <1>5, <1>6 DEF Typed, Ids
  <1>8. Published' = Published
    BY <1>2 DEF Published
  <1>9. HubSound'
    <2>1. \A c \in Clients : ToSend(c)' = ToSend(c)
      BY <1>5 DEF ToSend, ByPath, Idle
    <2> QED
      BY <1>1, <1>2, <1>8, <2>1 DEF HubSound
  <1>10. ASSUME NEW c \in Clients PROVE ClientSound(c)'
    <2>1. ClientSound(c)
      BY DEF IInv
    <2>2. /\ FetchGoesOn(change, store[c], proc[c], c \notin interrupted)
          /\ SendGoesOn(change, store[Hub], Published, proc[c])
          /\ DeltaClosed(change, Published, proc[c])
          /\ AckedRead(change, acked, proc[c], post[c])
          /\ WorkKept(change, proc[c], post[c], last[c], view[c])
      BY <2>1 DEF ClientSound
    <2>3. Idle.at = "idle" /\ ~Pulls(Idle) /\ ~ByPath(Idle)
      BY DEF Idle, Pulls, ByPath
    <2>4. CASE proc[c].at = "wait"
      <3>1. proc'[c] = Idle /\ last'[c].result = "failed" /\ ~Pulls(proc[c])
        BY <1>4, <1>5, <2>4 DEF Pulls
      <3>2. FetchGoesOn(change, store[c], Idle, c \notin interrupted)
        BY <2>2, <2>3, <2>4, <3>1 DEF FetchGoesOn
      <3>3. WorkKept(change, Idle, None, last'[c], view[c])
        BY <2>3, <3>1 DEF WorkKept
      <3> QED
        BY <1>2, <1>6, <1>8, <2>3, <3>1, <3>2, <3>3, NothingToSend, NothingPosted DEF ClientSound
    <2>5. CASE proc[c].at # "wait"
      <3>1. proc'[c] = proc[c] /\ last'[c] = last[c]
        BY <1>2, <1>5, <2>5
      <3>2. PostClosed(change, store[Hub], Published, None) /\ AckedRead(change, acked, proc[c], None)
            /\ OneAtATime(proc[c], None) /\ WorkKept(change, proc[c], None, last[c], view[c])
        BY <2>2 DEF PostClosed, AckedRead, OneAtATime, WorkKept
      <3> QED
        BY <1>2, <1>6, <1>8, <2>2, <3>1, <3>2 DEF ClientSound
    <2> QED
      BY <2>4, <2>5
  <1> QED
    BY <1>7, <1>9, <1>10 DEF IInv

-----------------------------------------------------------------------------
(* What the server writes.                                                   *)

\* What is left when the first of a POST is written.
LEMMA FirstRemoved ==
  ASSUME NEW S, NEW s \in Seq(S), s # <<>>
  PROVE  RemoveAt(s, 1) = Tail(s)
  <1>1. Len(s) \in Nat \ {0} /\ Tail(s) \in Seq(S)
    BY EmptySeq, LenProperties
  <1>2. SubSeq(s, 1, 0) = <<>>
    BY SMT
  <1>3. SubSeq(s, 2, Len(s)) = Tail(s)
    BY <1>1, SMT
  <1>4. <<>> \o Tail(s) = Tail(s)
    BY <1>1, ConcatEmptySeq
  <1> QED
    BY <1>2, <1>3, <1>4 DEF RemoveAt

\* What a change depends on is in base, or earlier in the order.
Ordered(ch, base, s) == \A i \in 1..Len(s) : ch[s[i]].deps \subseteq base \cup {s[j] : j \in 1..(i - 1)}

\* The rest of a POST is ordered over what was there and the first.
LEMMA RestClosed ==
  ASSUME NEW ch, NEW new, Extends(new, ch), NEW t \in Seq(DOMAIN ch), t # <<>>, NEW first, first = t[1],
         NEW base, NEW more, base \subseteq more, first \in more,
         NEW hs, hs \subseteq base \cup ToSet(t), Ordered(ch, base, t), NEW u, u = Tail(t)
  PROVE  hs \subseteq more \cup ToSet(u) /\ Ordered(new, more, u)
  <1>1. /\ u \in Seq(DOMAIN ch) /\ ToSet(t) = {t[1]} \cup ToSet(u)
        /\ Len(t) \in Nat \ {0}
    BY MembersOf
  <1>2. Len(u) = Len(t) - 1 /\ \A i \in 1..Len(u) : u[i] = t[i + 1]
    BY <1>1
  <1>3. ASSUME NEW i \in 1..Len(u) PROVE new[u[i]].deps \subseteq more \cup {u[j] : j \in 1..(i - 1)}
    <2>1. i + 1 \in 1..Len(t) /\ u[i] = t[i + 1] /\ u[i] \in DOMAIN ch
      BY <1>1, <1>2, ElementOfSeq
    <2>2. ch[u[i]].deps \subseteq base \cup {t[j] : j \in 1..i}
      <3>1. (i + 1) - 1 = i
        OBVIOUS
      <3>2. ch[t[i + 1]].deps \subseteq base \cup {t[j] : j \in 1..((i + 1) - 1)}
        BY <2>1 DEF Ordered
      <3> QED
        BY <2>1, <3>1, <3>2
    <2>3. ASSUME NEW j \in 1..i PROVE t[j] \in more \cup {u[k] : k \in 1..(i - 1)}
      <3>1. CASE j = 1
        BY <3>1
      <3>2. CASE j # 1
        <4>1. j - 1 \in 1..(i - 1) /\ j - 1 \in 1..Len(u) /\ (j - 1) + 1 = j
          BY <3>2
        <4>2. u[j - 1] = t[j]
          BY <1>2, <4>1
        <4> QED
          BY <4>1, <4>2
      <3> QED
        BY <3>1, <3>2
    <2>4. {t[j] : j \in 1..i} \subseteq more \cup {u[k] : k \in 1..(i - 1)}
      BY <2>3
    <2>5. new[u[i]] = ch[u[i]]
      BY <2>1 DEF Extends
    <2> QED
      BY <2>2, <2>4, <2>5
  <1>4. hs \subseteq more \cup ToSet(u)
    BY <1>1
  <1> QED
    BY <1>3, <1>4 DEF Ordered

\* Renamed, what is published or rewritten is published.
LEMMA RenamedIsPublished ==
  ASSUME NEW pub, NEW m, NEW d, d \subseteq pub \cup DOMAIN m, \A x \in DOMAIN m : m[x] \in pub
  PROVE  Renamed(m, d) \subseteq pub
  BY DEF Renamed

\* What a change was rewritten to has all of its work.
Replaces(ch, m) == \A x \in DOMAIN m : m[x] \in DOMAIN ch /\ WorkOf(ch, {x}) \subseteq WorkOf(ch, {m[x]})

\* Renamed, changes have all of their work.
LEMMA WorkOfRenamed ==
  ASSUME NEW ch, Contents(ch), NEW d, d \subseteq DOMAIN ch, NEW m, Replaces(ch, m)
  PROVE  /\ Renamed(m, d) \subseteq DOMAIN ch
         /\ WorkOf(ch, d) \subseteq WorkOf(ch, Renamed(m, d))
  <1> DEFINE r == Renamed(m, d)
  <1>1. r \subseteq DOMAIN ch
    BY DEF Renamed, Replaces
  <1>2. ASSUME NEW x \in d PROVE \E y \in r : WorkOf(ch, {x}) \subseteq WorkOf(ch, {y})
    <2> DEFINE y == IF x \in DOMAIN m THEN m[x] ELSE x
    <2>1. y \in r
      BY DEF Renamed
    <2>2. WorkOf(ch, {x}) \subseteq WorkOf(ch, {y})
      <3>1. CASE x \in DOMAIN m
        <4>1. y = m[x]
          BY <3>1
        <4> QED
          BY <3>1, <4>1 DEF Replaces
      <3>2. CASE x \notin DOMAIN m
        <4>1. y = x
          BY <3>2
        <4> QED
          BY <4>1
      <3> QED
        BY <3>1, <3>2
    <2> HIDE DEF y, r
    <2> QED
      BY <2>1, <2>2
  <1> HIDE DEF r
  <1>3. ASSUME NEW o \in WorkOf(ch, d) PROVE o \in WorkOf(ch, r)
    <2>1. PICK z \in Anc(ch, d) : o = ch[z].origin
      BY <1>3 DEF WorkOf
    <2>2. PICK x \in d : z \in Anc(ch, {x})
      <3>1. Anc(ch, d) = UNION {Anc(ch, {x}) : x \in d}
        BY AncOfEach
      <3> QED
        BY <2>1, <3>1
    <2>3. PICK y \in r : WorkOf(ch, {x}) \subseteq WorkOf(ch, {y})
      BY <1>2, <2>2
    <2>4. o \in WorkOf(ch, {y})
      BY <2>1, <2>2, <2>3 DEF WorkOf
    <2>5. {y} \subseteq Anc(ch, r)
      BY <1>1, AncIsClosed
    <2>6. WorkOf(ch, {y}) \subseteq WorkOf(ch, r)
      BY <1>1, <2>5, WorkOfMore
    <2> QED
      BY <2>4, <2>6
  <1> QED
    BY <1>1, <1>3 DEF r

\* A canonical change has the work of the one it stands for.
LEMMA RewrittenWork ==
  ASSUME NEW ch, Contents(ch), NEW id \in DOMAIN ch, NEW n \in DOMAIN ch, NEW m, Replaces(ch, m),
         ch[n].deps = Renamed(m, ch[id].deps), ch[n].origin = ch[id].origin
  PROVE  WorkOf(ch, {id}) \subseteq WorkOf(ch, {n})
  <1> DEFINE d == ch[id].deps
             e == ch[n].deps
  <1>1. d \subseteq DOMAIN ch /\ e \subseteq DOMAIN ch /\ e = Renamed(m, d)
    BY ContentsFacts
  <1> HIDE DEF d, e
  <1>2. WorkOf(ch, d) \subseteq WorkOf(ch, e)
    BY <1>1, WorkOfRenamed
  <1>3. Anc(ch, {id}) = {id} \cup Anc(ch, d) /\ Anc(ch, {n}) = {n} \cup Anc(ch, e)
    BY AncOfOne DEF d, e
  <1> QED
    BY <1>2, <1>3 DEF WorkOf

\* A change of no transient author, over what is publishable, is publishable.
LEMMA PublishableOnTop ==
  ASSUME NEW ch, Contents(ch), NEW hub, NEW dir, NEW x \in DOMAIN ch, x \in hub,
         ch[x].deps \subseteq Publishable(ch, hub, dir), ch[x].author # "transient"
  PROVE  x \in Publishable(ch, hub, dir)
  <1> DEFINE d == ch[x].deps
  <1>1. d \subseteq DOMAIN ch
    BY ContentsFacts
  <1>2. Anc(ch, {x}) = {x} \cup Anc(ch, d)
    BY AncOfOne
  <1>3. d \subseteq Publishable(ch, hub, dir)
    OBVIOUS
  <1> HIDE DEF d
  <1>4. Anc(ch, d) = UNION {Anc(ch, {y}) : y \in d}
    BY <1>1, AncOfEach
  <1>5. \A y \in d : \A z \in Anc(ch, {y}) \ Anc(ch, dir) : ch[z].author # "transient"
    BY <1>3 DEF Publishable
  <1>6. \A z \in Anc(ch, d) \ Anc(ch, dir) : ch[z].author # "transient"
    BY <1>4, <1>5
  <1> QED
    BY <1>2, <1>6 DEF Publishable

\* The server writes the changes of more, and its POST becomes r.
Written(c, r, more) ==
  /\ post[c] # None /\ post[c].at = "write"
  /\ Contents(change') /\ Extends(change', change)
  /\ more \subseteq Ids' /\ store' = [store EXCEPT ![Hub] = @ \cup more]
  /\ r \in Posts(Ids') /\ r.at = "write" /\ r.heads = post[c].heads
  /\ post' = [post EXCEPT ![c] = r]
  /\ UNCHANGED <<view, proc, last, interrupted, acked, direct>>
  /\ PostClosed(change', store'[Hub], Published', r)
  /\ \A x \in more : change'[x].deps \subseteq store'[Hub]

\* What a write of the server's leaves to be shown.
LEMMA WrittenSound ==
  ASSUME IInv, NEW c \in Clients, NEW r, NEW more, Written(c, r, more)
  PROVE  IInv'
  <1>0. /\ post[c] # None /\ post[c].at = "write"
        /\ Contents(change') /\ Extends(change', change)
        /\ more \subseteq Ids' /\ store' = [store EXCEPT ![Hub] = @ \cup more]
        /\ r \in Posts(Ids') /\ r.at = "write" /\ r.heads = post[c].heads
        /\ post' = [post EXCEPT ![c] = r]
        /\ UNCHANGED <<view, proc, last, interrupted, acked, direct>>
        /\ PostClosed(change', store'[Hub], Published', r)
        /\ \A x \in more : change'[x].deps \subseteq store'[Hub]
    BY DEF Written
  <1>1. Typed /\ ClientSound(c) /\ HubSound
    BY DEF IInv
  <1>2. /\ c \in Repos /\ Hub \in Repos /\ c # Hub
        /\ store \in [Repos -> SUBSET Ids] /\ view \in [Repos -> SUBSET Ids]
        /\ post \in [Clients -> {None} \cup Posts(Ids)]
        /\ proc \in [Clients -> {Idle} \cup Fetches(Ids) \cup Sends(Ids)]
        /\ Contents(change)
    BY <1>0, <1>1, ProcessTypes DEF Typed
  <1>3. Ids \subseteq Ids'
    BY <1>0 DEF Extends, Ids
  <1>4. /\ store' \in [Repos -> SUBSET Ids'] /\ store'[Hub] = store[Hub] \cup more
        /\ \A e \in Repos \ {Hub} : store'[e] = store[e]
    BY <1>0, <1>2, <1>3
  <1>5. /\ Posts(Ids) \subseteq Posts(Ids') /\ Fetches(Ids) \subseteq Fetches(Ids')
        /\ Sends(Ids) \subseteq Sends(Ids')
    BY <1>0, <1>3, RecordsGrow
  <1>6. /\ post' \in [Clients -> {None} \cup Posts(Ids')] /\ post'[c] = r
        /\ \A d \in Clients \ {c} : post'[d] = post[d]
    BY <1>0, <1>2, <1>5
  <1>7. Typed'
    <2>1. view' \in [Repos -> SUBSET Ids'] /\ proc' \in [Clients -> {Idle} \cup Fetches(Ids') \cup Sends(Ids')]
      BY <1>0, <1>2, <1>3, <1>5
    <2>2. last' \in [Clients -> Ends] /\ acked' \subseteq Ids' /\ direct' \subseteq Ids'
      BY <1>0, <1>1, <1>3 DEF Typed
    <2> QED
      BY <1>0, <1>4, <1>6, <2>1, <2>2 DEF Typed
  <1>8. Alone(c)
    BY <1>0, <1>2, <1>4, <1>6, SyncAssumption DEF Alone, Repos
  <1>9. Grows
    BY <1>0, <1>4 DEF Grows
  <1>10. \A d \in Clients \ {c} : ClientSound(d)'
    BY <1>0, <1>7, <1>8, <1>9, OthersSound
  <1>11. Published \subseteq Published'
    BY <1>0, <1>1, <1>7, <1>9, PublishedGrows
  <1>12. \A e \in Clients : ToSend(e)' = ToSend(e)
    BY <1>0 DEF ToSend
  <1>13. HubSound'
    <2>1. ASSUME Hub \notin interrupted, NEW x \in store'[Hub]
          PROVE  change'[x].deps \subseteq store'[Hub] \cup UNION {ToSend(e)' : e \in Clients}
      <3>1. CASE x \in more
        BY <1>0, <3>1
      <3>2. CASE x \in store[Hub]
        <4>1. change'[x] = change[x]
          BY <1>0, <1>2, <3>2 DEF Extends, Ids
        <4>2. change[x].deps \subseteq store[Hub] \cup UNION {ToSend(e) : e \in Clients}
          BY <1>0, <1>1, <2>1, <3>2 DEF HubSound
        <4> QED
          BY <1>0, <1>4, <1>12, <4>1, <4>2
      <3> QED
        BY <1>0, <1>4, <2>1, <3>1, <3>2
    <2>2. Anc(change', view[Hub]) = Anc(change, view[Hub])
      <3>1. view[Hub] \subseteq DOMAIN change /\ Contents(change) /\ Contents(change')
        BY <1>0, <1>2 DEF Ids
      <3> QED
        BY <1>0, <3>1, AncIsForGood
    <2> QED
      BY <1>0, <1>1, <1>11, <2>1, <2>2 DEF HubSound
  <1>14. /\ proc[c].at \in {"send", "sendblob", "wait"} => proc[c] \in Sends(DOMAIN change)
         /\ Pulls(proc[c]) => proc[c] \in Fetches(DOMAIN change)
         /\ post[c] # None => post[c] \in Posts(DOMAIN change)
         /\ store[c] \subseteq DOMAIN change /\ view[c] \subseteq DOMAIN change
         /\ store[Hub] \subseteq store'[Hub]
    BY <1>0, <1>1, <1>4, ProcessTypes DEF Ids
  <1>15. /\ FetchGoesOn(change, store[c], proc[c], c \notin interrupted)
         /\ SendGoesOn(change, store[Hub], Published, proc[c])
         /\ DeltaClosed(change, Published, proc[c])
         /\ AckedRead(change, acked, proc[c], post[c])
         /\ OneAtATime(proc[c], post[c])
         /\ WorkKept(change, proc[c], post[c], last[c], view[c])
    BY <1>0, <1>1 DEF ClientSound
  <1>16. FetchGoesOn(change', store[c], proc[c], c \notin interrupted)
    BY <1>0, <1>14, <1>15, FetchKept
  <1>17. SendGoesOn(change', store'[Hub], Published', proc[c])
    BY <1>0, <1>2, <1>11, <1>14, <1>15, SendKept
  <1>18. DeltaClosed(change', Published', proc[c])
    BY <1>0, <1>2, <1>11, <1>14, <1>15, DeltaKept
  <1>19. AckedRead(change', acked, proc[c], r)
    <2>1. AckedRead(change', acked, proc[c], post[c])
      BY <1>0, <1>2, <1>14, <1>15, AckedReadKept
    <2> QED
      BY <1>0, <2>1 DEF AckedRead
  <1>20. WorkKept(change', proc[c], r, last[c], view[c]) /\ OneAtATime(proc[c], r)
    <2>1. WorkKept(change', proc[c], post[c], last[c], view[c])
      BY <1>0, <1>2, <1>14, <1>15, WorkKeptKept
    <2> QED
      BY <1>0, <1>15, <2>1 DEF WorkKept, OneAtATime
  <1>21. ClientSound(c)'
    <2>1. store'[c] = store[c] /\ view'[c] = view[c] /\ proc'[c] = proc[c] /\ last'[c] = last[c]
      BY <1>0, <1>2, <1>4
    <2> QED
      BY <1>0, <1>6, <1>16, <1>17, <1>18, <1>19, <1>20, <2>1 DEF ClientSound
  <1> QED
    BY <1>0, <1>7, <1>10, <1>13, <1>21 DEF IInv

\* The canonical change has the content of the one it stands for, over the
\* canonical dependencies, and the server is its author.
LEMMA CanonicalIs ==
  ASSUME Contents(change), NEW m, NEW id \in Ids, NEW d, d = Renamed(m, change[id].deps),
         NEW n \in Canonical(m, id)
  PROVE  \/ n \in Ids /\ change[n] = [deps |-> d, author |-> "server", origin |-> change[id].origin]
         \/ n \in Fresh /\ n \notin Ids
  <1> DEFINE content == [deps |-> d, author |-> "server", origin |-> change[id].origin]
             same == {x \in Ids : change[x] = content}
  <1>1. Canonical(m, id) = IF same # {} THEN same ELSE Fresh
    BY DEF Canonical
  <1>2. Fresh \cap Ids = {}
    <2>1. PICK k \in 0..MaxChanges : change \in [1..k -> Content]
      BY DEF Contents
    <2>2. Ids = 1..k /\ k \in Nat
      BY <2>1, SyncAssumption DEF Ids
    <2>3. Cardinality(Ids) = k
      BY <2>2, FS_Interval
    <2> QED
      BY <2>2, <2>3 DEF Fresh
  <1> QED
    BY <1>1, <1>2

\* A change that is not collapsed has no transient author, and what it depends on
\* is published as it is.
LEMMA PlainChangeIsWritten ==
  ASSUME IInv, NEW c \in Clients, post[c] # None, post[c].at = "write", post[c].todo # <<>>,
         NEW id, id = post[c].todo[1], ~Collapses(post[c].map, id),
         store' = [store EXCEPT ![Hub] = @ \cup {id}],
         post' = [post EXCEPT ![c].todo = Tail(@)],
         UNCHANGED <<change, view, proc, last, interrupted, acked, direct>>
  PROVE  \E r, more : Written(c, r, more)
  <1> DEFINE q == post[c]
             t == q.todo
             m == q.map
             r == [q EXCEPT !.todo = Tail(t)]
  <1>1. Typed /\ ClientSound(c)
    BY DEF IInv
  <1>2. /\ q \in Posts(Ids) /\ store \in [Repos -> SUBSET Ids] /\ Hub \in Repos
        /\ post \in [Clients -> {None} \cup Posts(Ids)]
        /\ Contents(change) /\ store[Hub] \subseteq Ids /\ direct \subseteq Ids
    BY <1>1, ProcessTypes DEF Typed
  <1>3. t \in Seq(Ids) /\ t # <<>>
    BY <1>2 DEF Posts
  <1>4. Len(t) \in Nat \ {0} /\ id = t[1] /\ id \in Ids /\ Tail(t) \in Seq(Ids)
    <2>1. Len(t) \in Nat \ {0} /\ Tail(t) \in Seq(Ids)
      BY <1>3, MembersOf
    <2> QED
      BY <1>3, <2>1, ElementOfSeq
  <1>5. r \in Posts(Ids) /\ r.at = "write" /\ r.todo = Tail(t)
        /\ r.heads = q.heads /\ r.map = m /\ r.existing = q.existing
    BY <1>2, <1>4 DEF Posts
  <1>6. post' = [post EXCEPT ![c] = r]
    BY <1>2
  <1>7. store'[Hub] = store[Hub] \cup {id}
    BY <1>2
  <1> DEFINE Before(i) == {t[j] : j \in 1..(i - 1)}
  <1>8. /\ q.heads \subseteq Published \cup DOMAIN m \cup ToSet(t)
        /\ \A i \in 1..Len(t) : change[t[i]].deps \subseteq Published \cup DOMAIN m \cup Before(i)
        /\ DOMAIN m \subseteq store[Hub]
        /\ q.existing \subseteq Published
    BY <1>1 DEF ClientSound, PostClosed
  <1>9. \A x \in DOMAIN m : m[x] \in Published /\ WorkOf(change, {x}) \subseteq WorkOf(change, {m[x]})
    BY <1>1 DEF ClientSound, PostClosed
  <1>10. change[id].deps \subseteq Published
    <2> DEFINE d == change[id].deps
    <2>1. change[id].author # "transient" /\ Renamed(m, d) = d
      BY DEF Collapses
    <2>2. d \subseteq Published \cup DOMAIN m
      <3>1. Before(1) = {}
        OBVIOUS
      <3>2. change[t[1]].deps \subseteq Published \cup DOMAIN m \cup Before(1)
        BY <1>4, <1>8
      <3> QED
        BY <1>4, <3>1, <3>2
    <2> HIDE DEF d, m
    <2>3. Renamed(m, d) \subseteq Published
      BY <1>9, <2>2, RenamedIsPublished
    <2> QED
      BY <2>1, <2>3 DEF d
  <1>11. Published \subseteq Published' /\ id \in Published' /\ Published \subseteq store[Hub]
    <2> DEFINE hub == store'[Hub]
    <2>1. Extends(change, change) /\ store[Hub] \subseteq DOMAIN change /\ store[Hub] \subseteq hub
          /\ direct \subseteq DOMAIN change /\ id \in hub /\ id \in DOMAIN change
      BY <1>2, <1>4, <1>7 DEF Extends, Ids
    <2> HIDE DEF hub
    <2>2. Publishable(change, store[Hub], direct) \subseteq Publishable(change, hub, direct)
      BY <1>2, <2>1, PublishableGrows
    <2>3. id \in Publishable(change, hub, direct)
      <3>1. change[id].author # "transient"
        BY DEF Collapses
      <3>2. change[id].deps \subseteq Publishable(change, hub, direct)
        BY <1>10, <2>2 DEF Published
      <3> QED
        BY <1>2, <2>1, <3>1, <3>2, PublishableOnTop
    <2>4. Published' = Publishable(change, hub, direct)
      BY DEF Published, hub
    <2> QED
      BY <2>2, <2>3, <2>4 DEF Published, Publishable
  <1>12. PostClosed(change', store'[Hub], Published', r)
    <2> DEFINE u == Tail(t)
               base == Published \cup DOMAIN m
               more == Published' \cup DOMAIN m
               hs == q.heads
    <2>1. hs \subseteq more \cup ToSet(u) /\ Ordered(change', more, u)
      <3>1. /\ Extends(change', change) /\ t \in Seq(DOMAIN change) /\ base \subseteq more /\ id \in more
            /\ hs \subseteq base \cup ToSet(t) /\ u = Tail(t) /\ t # <<>> /\ id = t[1]
        BY <1>3, <1>4, <1>8, <1>11 DEF Extends, Ids
      <3>2. Ordered(change, base, t)
        BY <1>8 DEF Ordered
      <3> HIDE DEF t, base, more, hs, u
      <3> QED
        BY <3>1, <3>2, RestClosed
    <2>2. \A x \in DOMAIN r.map : r.map[x] \in Published' /\ WorkOf(change', {x}) \subseteq WorkOf(change', {r.map[x]})
      BY <1>5, <1>9, <1>11
    <2>3. DOMAIN r.map \subseteq store'[Hub] /\ r.existing \subseteq Published' /\ r.at # "loaded"
      BY <1>5, <1>7, <1>8, <1>11
    <2>4. /\ r.heads \subseteq Published' \cup DOMAIN r.map \cup ToSet(r.todo)
          /\ \A i \in 1..Len(r.todo) :
               change'[r.todo[i]].deps \subseteq Published' \cup DOMAIN r.map \cup {r.todo[j] : j \in 1..(i - 1)}
      BY <1>5, <2>1 DEF Ordered
    <2> QED
      BY <2>2, <2>3, <2>4 DEF PostClosed
  <1>13. Ids' = Ids /\ Extends(change', change) /\ Contents(change')
    BY <1>2, SameChanges
  <1>14. \A x \in {id} : change'[x].deps \subseteq store'[Hub]
    BY <1>7, <1>10, <1>11
  <1> DEFINE more == {id}
  <1>15. more \subseteq Ids' /\ store' = [store EXCEPT ![Hub] = @ \cup more] /\ \A x \in more : change'[x].deps \subseteq store'[Hub]
    BY <1>4, <1>13, <1>14
  <1> HIDE DEF r, more
  <1> QED
    BY <1>5, <1>6, <1>12, <1>13, <1>15 DEF Written

\* The canonical change is published, has the work of the change it stands for,
\* and takes its place in what is left of the POST.
LEMMA CollapseIsWritten ==
  ASSUME IInv, NEW c \in Clients, post[c] # None, post[c].at = "write", post[c].todo # <<>>,
         NEW id, id = post[c].todo[1], NEW m, m = post[c].map,
         NEW n, NEW d, d = Renamed(m, change[id].deps),
         n \in DOMAIN change', Contents(change'), Extends(change', change),
         change'[n] = [deps |-> d, author |-> "server", origin |-> change[id].origin],
         store' = [store EXCEPT ![Hub] = @ \cup {id, n}],
         NEW m2, m2 = [x \in DOMAIN m \cup {id} |-> IF x = id THEN n ELSE m[x]],
         NEW r, r = [post[c] EXCEPT !.todo = Tail(@), !.map = m2],
         post' = [post EXCEPT ![c] = r],
         UNCHANGED <<view, proc, last, interrupted, acked, direct>>
  PROVE  Written(c, r, {id, n})
  <1> DEFINE q == post[c]
             t == q.todo
  <1>1. Typed /\ ClientSound(c)
    BY DEF IInv
  <1>2. /\ q \in Posts(Ids) /\ store \in [Repos -> SUBSET Ids] /\ Hub \in Repos
        /\ Contents(change) /\ store[Hub] \subseteq Ids /\ direct \subseteq Ids
    BY <1>1, ProcessTypes DEF Typed
  <1>3. t \in Seq(Ids) /\ t # <<>> /\ DOMAIN m \subseteq Ids /\ \A x \in DOMAIN m : m[x] \in Ids
    BY <1>2 DEF Posts
  <1>4. Len(t) \in Nat \ {0} /\ id = t[1] /\ id \in Ids /\ Tail(t) \in Seq(Ids)
    <2>1. Len(t) \in Nat \ {0} /\ Tail(t) \in Seq(Ids)
      BY <1>3, MembersOf
    <2> QED
      BY <1>3, <2>1, ElementOfSeq
  <1>5. Ids \subseteq Ids' /\ n \in Ids'
    BY DEF Extends, Ids
  <1>6. r \in Posts(Ids') /\ r.at = "write" /\ r.todo = Tail(t)
        /\ r.heads = q.heads /\ r.map = m2 /\ r.existing = q.existing
    <2>1. m2 \in UNION {[s -> Ids'] : s \in SUBSET Ids'}
      <3>1. m2 \in [DOMAIN m \cup {id} -> Ids'] /\ DOMAIN m \cup {id} \in SUBSET Ids'
        BY <1>3, <1>4, <1>5
      <3> QED
        BY <3>1
    <2>2. q \in Posts(Ids')
      BY <1>2, <1>5, RecordsGrow
    <2>3. Tail(t) \in Seq(Ids')
      BY <1>4, <1>5, SeqMonotonic
    <2> DEFINE u == Tail(t)
    <2> HIDE DEF u
    <2>4. r = [q EXCEPT !.todo = u, !.map = m2] /\ u \in Seq(Ids')
      BY <2>3 DEF u
    <2>5. r \in Posts(Ids') /\ r.todo = u /\ r.map = m2 /\ r.heads = q.heads /\ r.existing = q.existing /\ r.at = q.at
      BY <2>1, <2>2, <2>4 DEF Posts
    <2> QED
      BY <2>5 DEF u
  <1>7. store'[Hub] = store[Hub] \cup {id, n}
    BY <1>2
  <1>8. /\ q.heads \subseteq Published \cup DOMAIN m \cup ToSet(t)
        /\ Ordered(change, Published \cup DOMAIN m, t)
        /\ DOMAIN m \subseteq store[Hub]
        /\ q.existing \subseteq Published
    BY <1>1 DEF ClientSound, PostClosed, Ordered
  <1>9. \A x \in DOMAIN m : m[x] \in Published /\ WorkOf(change, {x}) \subseteq WorkOf(change, {m[x]})
    BY <1>1 DEF ClientSound, PostClosed
  <1>10. change[id].deps \subseteq Published \cup DOMAIN m /\ d \subseteq Published
    <2>1. change[id].deps \subseteq Published \cup DOMAIN m
      <3>1. change[t[1]].deps \subseteq Published \cup DOMAIN m \cup {t[j] : j \in 1..(1 - 1)}
        BY <1>4, <1>8 DEF Ordered
      <3>2. {t[j] : j \in 1..(1 - 1)} = {}
        OBVIOUS
      <3> QED
        BY <1>4, <3>1, <3>2
    <2> QED
      BY <1>9, <2>1, RenamedIsPublished
  <1>11. Published \subseteq Published' /\ n \in Published' /\ Published \subseteq store[Hub]
    <2> DEFINE hub == store'[Hub]
               new == change'
    <2>1. store[Hub] \subseteq DOMAIN change /\ store[Hub] \subseteq hub /\ Contents(new) /\ Extends(new, change)
          /\ direct \subseteq DOMAIN change /\ direct \subseteq DOMAIN new /\ n \in hub /\ n \in DOMAIN new
      BY <1>2, <1>7 DEF Extends, Ids
    <2> HIDE DEF hub, new
    <2>2. Publishable(change, store[Hub], direct) \subseteq Publishable(new, hub, direct)
      BY <1>2, <2>1, PublishableGrows
    <2>3. n \in Publishable(new, hub, direct)
      <3>1. new[n].author # "transient" /\ new[n].deps = d
        BY DEF new
      <3>2. new[n].deps \subseteq Publishable(new, hub, direct)
        BY <1>10, <2>2, <3>1 DEF Published
      <3> QED
        BY <2>1, <3>1, <3>2, PublishableOnTop
    <2>4. Published' = Publishable(new, hub, direct)
      BY DEF Published, hub, new
    <2> QED
      BY <2>2, <2>3, <2>4 DEF Published, Publishable
  <1>12. ASSUME NEW x \in DOMAIN m2
         PROVE  m2[x] \in Published' /\ WorkOf(change', {x}) \subseteq WorkOf(change', {m2[x]})
    <2> DEFINE new == change'
    <2>1. Contents(new) /\ Extends(new, change) /\ id \in DOMAIN new /\ n \in DOMAIN new
          /\ new[n].deps = d /\ new[n].origin = change[id].origin /\ new[id] = change[id]
      BY <1>4 DEF Extends, Ids
    <2> HIDE DEF new
    <2>2. \A y \in DOMAIN m : m[y] \in DOMAIN new /\ WorkOf(new, {y}) \subseteq WorkOf(new, {m[y]})
      <3>1. ASSUME NEW y \in DOMAIN m
            PROVE  WorkOf(new, {y}) = WorkOf(change, {y}) /\ WorkOf(new, {m[y]}) = WorkOf(change, {m[y]})
        <4>1. {y} \subseteq DOMAIN change /\ {m[y]} \subseteq DOMAIN change
          BY <1>3 DEF Ids
        <4> QED
          BY <1>2, <2>1, <4>1, WorkIsForGood
      <3>2. \A y \in DOMAIN m : m[y] \in DOMAIN new
        BY <1>3, <2>1 DEF Extends, Ids
      <3> QED
        BY <1>9, <3>1, <3>2
    <2>3. CASE x = id
      <3>1. m2[x] = n
        BY <2>3
      <3>2. new[n].deps = Renamed(m, new[id].deps) /\ new[n].origin = new[id].origin
        BY <2>1
      <3>3. WorkOf(new, {id}) \subseteq WorkOf(new, {n})
        <4>1. Replaces(new, m)
          BY <2>2 DEF Replaces
        <4> QED
          BY <2>1, <3>2, <4>1, RewrittenWork
      <3> QED
        BY <1>11, <2>3, <3>1, <3>3 DEF new
    <2>4. CASE x # id
      <3>1. x \in DOMAIN m /\ m2[x] = m[x]
        BY <2>4
      <3> QED
        BY <1>9, <1>11, <2>2, <3>1 DEF new
    <2> QED
      BY <2>3, <2>4
  <1>13. PostClosed(change', store'[Hub], Published', r)
    <2> DEFINE u == Tail(t)
               base == Published \cup DOMAIN m
               more == Published' \cup DOMAIN m2
               hs == q.heads
    <2>1. hs \subseteq more \cup ToSet(u) /\ Ordered(change', more, u)
      <3>1. DOMAIN m2 = DOMAIN m \cup {id}
        OBVIOUS
      <3>2. /\ Extends(change', change) /\ t \in Seq(DOMAIN change) /\ base \subseteq more /\ id \in more
            /\ hs \subseteq base \cup ToSet(t) /\ u = Tail(t) /\ t # <<>> /\ id = t[1]
            /\ Ordered(change, base, t)
        BY <1>3, <1>4, <1>8, <1>11, <3>1 DEF Ids
      <3> HIDE DEF t, base, more, hs, u
      <3> QED
        BY <3>2, RestClosed
    <2>2. \A x \in DOMAIN r.map : r.map[x] \in Published' /\ WorkOf(change', {x}) \subseteq WorkOf(change', {r.map[x]})
      BY <1>6, <1>12
    <2>3. DOMAIN r.map \subseteq store'[Hub] /\ r.existing \subseteq Published' /\ r.at # "loaded"
      BY <1>6, <1>7, <1>8, <1>11
    <2>4. /\ r.heads \subseteq Published' \cup DOMAIN r.map \cup ToSet(r.todo)
          /\ Ordered(change', Published' \cup DOMAIN r.map, r.todo)
      BY <1>6, <2>1
    <2> QED
      BY <2>2, <2>3, <2>4 DEF PostClosed, Ordered
  <1>14. \A x \in {id, n} : change'[x].deps \subseteq store'[Hub]
    <2>1. change'[id] = change[id]
      BY <1>4 DEF Extends, Ids
    <2> QED
      BY <1>7, <1>8, <1>10, <1>11, <2>1
  <1> QED
    BY <1>4, <1>5, <1>6, <1>13, <1>14 DEF Written

\* post_sync writes the first of the changes that are left, collapsed or as it is.
LEMMA WriteChangeSound ==
  ASSUME IInv, NEW c \in Clients, WriteChange(c)
  PROVE  IInv'
  <1> DEFINE t == post[c].todo
             m == post[c].map
             id == t[1]
             d == Renamed(m, change[id].deps)
  <1>1. Typed /\ ClientSound(c)
    BY DEF IInv
  <1>2. post[c] # None /\ post[c].at = "write" /\ t # <<>>
        /\ UNCHANGED <<view, proc, last, interrupted, acked, direct>>
    BY DEF WriteChange, history
  <1>3. /\ post[c] \in Posts(Ids) /\ post \in [Clients -> {None} \cup Posts(Ids)] /\ Contents(change)
        /\ direct \subseteq Ids
    BY <1>1, <1>2, ProcessTypes DEF Typed
  <1>4. t \in Seq(Ids) /\ RemoveAt(t, 1) = Tail(t) /\ id \in Ids
    <2>1. t \in Seq(Ids)
      BY <1>3 DEF Posts
    <2>2. Len(t) \in Nat \ {0}
      BY <1>2, <2>1, MembersOf
    <2> HIDE DEF t
    <2>3. id \in Ids
      BY <2>1, <2>2, ElementOfSeq
    <2> QED
      BY <1>2, <2>1, <2>3, FirstRemoved
  <1>5. CASE Collapses(m, id)
    <2>1. PICK n \in Canonical(m, id) :
            /\ change' = IF n \in Ids THEN change ELSE With(n, d, "server", change[id].origin)
            /\ store' = [store EXCEPT ![Hub] = @ \cup {id, n}]
            /\ post' = [post EXCEPT ![c].todo = RemoveAt(t, 1),
                                    ![c].map = [x \in DOMAIN m \cup {id} |-> IF x = id THEN n ELSE m[x]]]
      BY <1>5 DEF WriteChange, WriteOrder
    <2> DEFINE m2 == [x \in DOMAIN m \cup {id} |-> IF x = id THEN n ELSE m[x]]
               r == [post[c] EXCEPT !.todo = Tail(@), !.map = m2]
    <2>2. post' = [post EXCEPT ![c] = r]
      <3> HIDE DEF m2
      <3>1. post' = [post EXCEPT ![c].todo = Tail(t), ![c].map = m2]
        BY <1>4, <2>1 DEF m2
      <3> QED
        BY <1>3, <3>1
    <2>3. d \subseteq Ids
      <3> DEFINE deps == change[id].deps
      <3>1. deps \subseteq Published \cup DOMAIN m /\ \A x \in DOMAIN m : m[x] \in Published
        <4>1. Ordered(change, Published \cup DOMAIN m, t) /\ \A x \in DOMAIN m : m[x] \in Published
          BY <1>1, <1>2 DEF ClientSound, PostClosed, Ordered
        <4>2. 1 \in 1..Len(t) /\ {t[j] : j \in 1..(1 - 1)} = {}
          <5>1. Len(t) \in Nat \ {0}
            BY <1>2, <1>4, MembersOf
          <5> QED
            BY <5>1
        <4> QED
          BY <4>1, <4>2 DEF Ordered
      <3>2. Published \subseteq Ids
        BY <1>1, ProcessTypes DEF Published, Publishable
      <3> HIDE DEF deps, m
      <3>3. Renamed(m, deps) \subseteq Published
        BY <3>1, RenamedIsPublished
      <3> QED
        BY <3>2, <3>3 DEF deps
    <2>4. /\ Contents(change') /\ Extends(change', change) /\ n \in DOMAIN change'
          /\ change'[n] = [deps |-> d, author |-> "server", origin |-> change[id].origin]
      <3> HIDE DEF d, m, id
      <3>1. d = Renamed(m, change[id].deps)
        BY DEF d
      <3>2. \/ n \in Ids /\ change[n] = [deps |-> d, author |-> "server", origin |-> change[id].origin]
            \/ n \in Fresh /\ n \notin Ids
        BY <1>3, <1>4, <2>1, <3>1, CanonicalIs
      <3>3. CASE n \in Ids
        <4>1. change' = change
          BY <2>1, <3>3
        <4> QED
          BY <1>3, <3>2, <3>3, <4>1, SameChanges DEF Ids, Fresh
      <3>4. CASE n \notin Ids
        <4> DEFINE o == change[id].origin
                   a == "server"
        <4>1. change' = With(n, d, a, o) /\ n \in Fresh
          BY <2>1, <3>2, <3>4
        <4>2. o \in Numbers /\ a \in Authors \cup {"server"}
          BY <1>3, <1>4, ContentsFacts DEF Ids
        <4> HIDE DEF o, a
        <4>3. /\ Contents(change') /\ Extends(change', change) /\ DOMAIN change' = Ids \cup {n}
              /\ n \notin Ids /\ n \in Numbers
              /\ change'[n] = [deps |-> d, author |-> a, origin |-> o]
          BY <1>3, <2>3, <4>1, <4>2, NewChange
        <4> QED
          BY <4>3 DEF o, a
      <3> QED
        BY <3>3, <3>4
    <2>5. Written(c, r, {id, n})
      <3>1. m2 = [x \in DOMAIN m \cup {id} |-> IF x = id THEN n ELSE m[x]] /\ r = [post[c] EXCEPT !.todo = Tail(@), !.map = m2]
            /\ store' = [store EXCEPT ![Hub] = @ \cup {id, n}]
            /\ id = post[c].todo[1] /\ m = post[c].map /\ d = Renamed(m, change[id].deps)
        BY <2>1
      <3> HIDE DEF d, m, m2, r, id
      <3> QED
        BY <1>2, <2>2, <2>4, <3>1, CollapseIsWritten
    <2> DEFINE more == {id, n}
    <2>6. Written(c, r, more)
      BY <2>5
    <2> HIDE DEF r, more
    <2> QED
      BY <2>6, WrittenSound
  <1>6. CASE ~Collapses(m, id)
    <2>1. /\ store' = [store EXCEPT ![Hub] = @ \cup {id}]
          /\ post' = [post EXCEPT ![c].todo = RemoveAt(t, 1)]
          /\ UNCHANGED change
      BY <1>6 DEF WriteChange, WriteOrder
    <2>2. post' = [post EXCEPT ![c].todo = Tail(@)]
      BY <1>3, <1>4, <2>1
    <2>3. id = post[c].todo[1] /\ ~Collapses(post[c].map, id)
      BY <1>6
    <2> HIDE DEF id
    <2>4. \E r, more : Written(c, r, more)
      BY <1>2, <2>1, <2>2, <2>3, PlainChangeIsWritten
    <2> QED
      BY <2>4, WrittenSound
  <1> QED
    BY <1>5, <1>6

\* post_sync saves the view: its heads are published, what was acknowledged is in
\* it, and the answer has the work of the client.
LEMMA SaveViewSound ==
  ASSUME IInv, NEW c \in Clients, SaveView(c)
  PROVE  IInv'
  <1> DEFINE p == proc[c]
             q == post[c]
             mapped == Renamed(q.map, q.heads)
             all == q.existing \cup mapped
  <1>1. Typed /\ ClientSound(c) /\ HubSound
    BY DEF IInv
  <1>2. /\ q # None /\ q.at = "loaded"
        /\ view' = [view EXCEPT ![Hub] = all]
        /\ Acknowledge(c, mapped)
        /\ post' = [post EXCEPT ![c] = None]
        /\ UNCHANGED <<change, store, direct>>
    BY DEF SaveView, Union
  <1>3. \/ p.at # "wait" /\ UNCHANGED <<proc, last, interrupted>>
        \/ p.at = "wait" /\ End(c, "ok", {})
        \/ /\ p.at = "wait"
           /\ proc' = [proc EXCEPT ![c] = Fetching("push", "http", all, p.work, {})]
           /\ UNCHANGED <<last, interrupted>>
    BY DEF SaveView, Union, Answer
  <1>4. /\ c \in Repos /\ Hub \in Repos /\ c # Hub /\ store[Hub] \subseteq Ids
        /\ store \in [Repos -> SUBSET Ids] /\ view \in [Repos -> SUBSET Ids]
        /\ post \in [Clients -> {None} \cup Posts(Ids)] /\ last \in [Clients -> Ends]
        /\ acked \subseteq Ids /\ direct \subseteq Ids /\ Contents(change)
        /\ proc \in [Clients -> {Idle} \cup Fetches(Ids) \cup Sends(Ids)]
        /\ q \in Posts(Ids) /\ view[c] \subseteq Ids
    BY <1>1, <1>2, ProcessTypes DEF Typed
  <1>5. /\ q.heads \subseteq Published \cup DOMAIN q.map /\ q.existing \subseteq Published
        /\ \A x \in DOMAIN q.map : q.map[x] \in Published /\ WorkOf(change, {x}) \subseteq WorkOf(change, {q.map[x]})
    <2>1. /\ q.heads \subseteq Published \cup DOMAIN q.map \cup ToSet(q.todo) /\ q.existing \subseteq Published
          /\ \A x \in DOMAIN q.map : q.map[x] \in Published /\ WorkOf(change, {x}) \subseteq WorkOf(change, {q.map[x]})
          /\ q.todo = <<>>
      BY <1>1, <1>2 DEF ClientSound, PostClosed
    <2>2. ToSet(<<>>) = {}
      BY DEF ToSet
    <2> QED
      BY <2>1, <2>2
  <1>6. mapped \subseteq Published /\ all \subseteq Published /\ Published \subseteq Ids
    <2> DEFINE hs == q.heads
               m == q.map
    <2>1. hs \subseteq Published \cup DOMAIN m /\ \A x \in DOMAIN m : m[x] \in Published
      BY <1>5
    <2> HIDE DEF hs, m
    <2>2. Renamed(m, hs) \subseteq Published
      BY <2>1, RenamedIsPublished
    <2>3. mapped \subseteq Published
      BY <2>2 DEF hs, m
    <2>4. Published \subseteq Ids
      BY <1>4 DEF Published, Publishable
    <2> QED
      BY <1>5, <2>3, <2>4
  <1>7. WorkOf(change, q.heads) \subseteq WorkOf(change, all)
    <2> DEFINE hs == q.heads
               m == q.map
    <2>1. hs \subseteq DOMAIN change
      BY <1>4 DEF Posts, Ids
    <2>2. Replaces(change, m)
      BY <1>5, <1>6 DEF Replaces, Ids
    <2> HIDE DEF hs, m
    <2>3. WorkOf(change, hs) \subseteq WorkOf(change, Renamed(m, hs))
      BY <1>4, <2>1, <2>2, WorkOfRenamed
    <2>4. mapped \subseteq Anc(change, all) /\ all \subseteq DOMAIN change
      BY <1>4, <1>6, AncIsClosed DEF Ids
    <2> HIDE DEF all, mapped
    <2>5. WorkOf(change, mapped) \subseteq WorkOf(change, all)
      BY <1>4, <2>4, WorkOfMore
    <2> QED
      BY <2>3, <2>5 DEF hs, m, mapped
  <1>8. /\ acked' = acked \/ acked' = acked \cup mapped
        /\ \A d \in Clients \ {c} : acked' = acked \/ ~Loaded(d)
    <2> HIDE DEF mapped
    <2> QED
      BY <1>2, AcknowledgeFacts
  <1>9. acked' \subseteq Anc(change, all)
    <2>1. acked \subseteq Anc(change, q.existing)
      BY <1>1, <1>2 DEF ClientSound, AckedRead
    <2> DEFINE old == q.existing
    <2>2. old \subseteq all /\ all \subseteq DOMAIN change /\ mapped \subseteq all
      BY <1>6 DEF Ids
    <2> HIDE DEF all, old
    <2>3. Anc(change, old) \subseteq Anc(change, all) /\ all \subseteq Anc(change, all)
      BY <1>4, <2>2, AncOfMore, AncIsClosed
    <2> QED
      BY <1>8, <2>1, <2>2, <2>3 DEF old
  <1>10. /\ view' \in [Repos -> SUBSET Ids] /\ view'[Hub] = all
         /\ \A r \in Repos \ {Hub} : view'[r] = view[r]
    BY <1>2, <1>4, <1>6
  <1>11. /\ post' \in [Clients -> {None} \cup Posts(Ids)] /\ post'[c] = None
         /\ \A d \in Clients \ {c} : post'[d] = post[d]
    BY <1>2, <1>4
  <1>12. /\ FetchGoesOn(change, store[c], p, c \notin interrupted)
         /\ OneAtATime(p, q) /\ WorkKept(change, p, q, last[c], view[c])
    BY <1>1 DEF ClientSound
  <1>13. p = Idle \/ p.at = "wait"
    BY <1>1, <1>2, <1>12, ProcessTypes DEF OneAtATime
  <1> HIDE DEF p, q, all, mapped
  <1>14. /\ interrupted' = interrupted
         /\ proc' \in [Clients -> {Idle} \cup Fetches(Ids) \cup Sends(Ids)]
         /\ last' \in [Clients -> Ends]
         /\ \A d \in Clients \ {c} : proc'[d] = proc[d] /\ last'[d] = last[d]
         /\ proc'[c] = Idle \/ (proc'[c].at = "fetch" /\ proc'[c].seen = {})
         /\ WorkKept(change, proc'[c], None, last'[c], view[c])
    <2>0. Idle.at = "idle" /\ ~Pulls(Idle)
      BY DEF Pulls, Idle
    <2>1. CASE p.at # "wait" /\ UNCHANGED <<proc, last, interrupted>>
      <3>1. p = Idle
        BY <1>13, <2>1
      <3>2. WorkKept(change, Idle, None, last[c], view[c])
        BY <1>12, <2>0, <3>1 DEF WorkKept
      <3> QED
        BY <1>4, <2>1, <3>1, <3>2 DEF p
    <2>2. CASE p.at = "wait" /\ End(c, "ok", {})
      <3> DEFINE r == {}
      <3>1. End(c, "ok", r) /\ proc[c] # Idle
        BY <2>0, <2>2 DEF p
      <3> HIDE DEF r
      <3>2. /\ proc' \in [Clients -> {Idle} \cup Fetches(Ids) \cup Sends(Ids)]
            /\ last' \in [Clients -> Ends]
            /\ proc'[c] = Idle
            /\ last'[c] = [command |-> p.command, result |-> "ok", work |-> p.work]
            /\ \A d \in Clients \ {c} : proc'[d] = proc[d] /\ last'[d] = last[d]
            /\ interrupted' = interrupted
        BY <1>1, <3>1, EndTypes DEF p
      <3>3. p.work \subseteq WorkOf(change, view[c])
        BY <1>12, <2>2 DEF WorkKept
      <3>4. WorkKept(change, Idle, None, last'[c], view[c])
        BY <2>0, <3>2, <3>3 DEF WorkKept
      <3> QED
        BY <3>2, <3>4
    <2>3. CASE /\ p.at = "wait"
               /\ proc' = [proc EXCEPT ![c] = Fetching("push", "http", all, p.work, {})]
               /\ UNCHANGED <<last, interrupted>>
      <3> DEFINE f == Fetching("push", "http", all, p.work, {})
      <3>1. p \in Sends(Ids) /\ p.via = "http"
        BY <1>1, <1>12, <2>3, ProcessTypes DEF WorkKept, p
      <3>2. /\ f \in Fetches(Ids) /\ f.at = "fetch" /\ f.seen = {}
            /\ f.heads = all /\ f.work = p.work /\ f.command = "push"
        <4> DEFINE work == p.work
                   via == "http"
                   command == "push"
        <4>1. work \subseteq Numbers /\ via \in Transports /\ command \in {"pull", "push"}
          BY <3>1 DEF Sends
        <4>2. all \subseteq Ids /\ IsFiniteSet(all)
          BY <1>4, <1>6, ChangesAreFinite DEF Ids
        <4>3. f = Fetching(command, via, all, work, {})
          OBVIOUS
        <4> HIDE DEF f, work, via, command
        <4>4. /\ f \in Fetches(Ids) /\ f.at = "fetch" /\ f.seen = {}
              /\ f.heads = all /\ f.work = work /\ f.command = command
          BY <4>1, <4>2, <4>3, FetchBegins
        <4> QED
          BY <4>4 DEF work, command
      <3>3. p.work \subseteq WorkOf(change, all)
        BY <1>2, <1>7, <1>12, <2>3 DEF WorkKept
      <3> HIDE DEF f
      <3>4. WorkKept(change, f, None, last[c], view[c])
        <4>1. f # Idle
          BY <2>0, <3>2
        <4> QED
          BY <3>2, <3>3, <4>1 DEF WorkKept
      <3>5. proc' = [proc EXCEPT ![c] = f]
        BY <2>3 DEF f
      <3> QED
        BY <1>4, <2>3, <3>2, <3>4, <3>5
    <2> QED
      BY <1>3, <2>1, <2>2, <2>3
  <1>15. Typed'
    <2>1. acked' \subseteq Ids
      BY <1>4, <1>6, <1>8
    <2> QED
      BY <1>2, <1>4, <1>10, <1>11, <1>14, <2>1 DEF Typed, Ids
  <1>16. Alone(c)
    BY <1>2, <1>4, <1>10, <1>11, <1>14, SyncAssumption DEF Alone, Repos
  <1>17. Grows
    <2>1. Extends(change', change)
      BY <1>2, SameChanges
    <2> QED
      BY <1>2, <1>14, <2>1 DEF Grows
  <1>18. \A d \in Clients \ {c} : ClientSound(d)'
    BY <1>8, <1>15, <1>16, <1>17, OthersSound
  <1>19. Published' = Published
    BY <1>2 DEF Published
  <1>20. HubSound'
    <2>1. ToSend(c) = {}
      BY <1>13 DEF ToSend, ByPath, Idle, p
    <2>2. Hub \notin interrupted' =>
            \A x \in store'[Hub] : change'[x].deps \subseteq store'[Hub] \cup UNION {ToSend(e)' : e \in Clients}
      BY <1>2, <1>15, <1>16, <1>17, <2>1, HubStillClosed
    <2> QED
      BY <1>2, <1>6, <1>9, <1>10, <1>19, <2>2 DEF HubSound
  <1>21. ClientSound(c)'
    <2>1. /\ FetchGoesOn(change, store[c], proc'[c], c \notin interrupted)
      <3>1. p.at \notin {"fetch", "blob"} /\ ~Pulls(p)
        BY <1>13 DEF Idle, Pulls
      <3>2. proc'[c].at # "blob" /\ (Pulls(proc'[c]) => proc'[c].seen = {})
        BY <1>14 DEF Idle, Pulls
      <3> QED
        BY <1>12, <3>1, <3>2 DEF FetchGoesOn
    <2>2. proc'[c].at \notin {"send", "sendblob"}
      BY <1>14 DEF Idle
    <2>3. /\ SendGoesOn(change, store[Hub], Published, proc'[c]) /\ DeltaClosed(change, Published, proc'[c])
          /\ PostClosed(change, store[Hub], Published, None) /\ AckedRead(change, acked', proc'[c], None)
          /\ OneAtATime(proc'[c], None)
      BY <2>2, NothingToSend, NothingPosted
    <2> QED
      BY <1>2, <1>4, <1>10, <1>11, <1>14, <1>19, <2>1, <2>3 DEF ClientSound
  <1> QED
    BY <1>15, <1>18, <1>20, <1>21 DEF IInv

-----------------------------------------------------------------------------
(* The theorems.                                                             *)

\* At first there is nothing.
LEMMA StartsSound ==
  ASSUME SyncInit
  PROVE  IInv
  <1>1. /\ change = [x \in {} |-> {}] /\ DOMAIN change = {} /\ Ids = {}
        /\ store = [r \in Repos |-> {}] /\ view = [r \in Repos |-> {}]
        /\ proc = [c \in Clients |-> Idle] /\ post = [c \in Clients |-> None]
        /\ last = [c \in Clients |-> [command |-> "none", result |-> "ok", work |-> {}]]
        /\ interrupted = {} /\ acked = {} /\ direct = {}
    BY DEF SyncInit, Ids
  <1>2. Contents(change)
    <2>1. 0 \in 0..MaxChanges /\ 1..0 = {}
      BY SyncAssumption
    <2>2. change \in [1..0 -> Content]
      BY <1>1, <2>1
    <2> QED
      BY <1>1, <2>1, <2>2 DEF Contents
  <1>3. Typed
    <2>1. [command |-> "none", result |-> "ok", work |-> {}] \in Ends
      BY DEF Ends
    <2> QED
      BY <1>1, <1>2, <2>1 DEF Typed
  <1>4. ASSUME NEW c \in Clients PROVE ClientSound(c)
    <2>1. proc[c] = Idle /\ post[c] = None /\ last[c].command = "none"
      BY <1>1
    <2>2. store[c] = {}
      BY <1>1 DEF Repos
    <2>3. Idle.at = "idle" /\ ~Pulls(Idle) /\ ~ByPath(Idle)
      BY DEF Idle, Pulls, ByPath
    <2>4. FetchGoesOn(change, store[c], Idle, c \notin interrupted)
      BY <2>2, <2>3 DEF FetchGoesOn
    <2>5. WorkKept(change, Idle, None, last[c], view[c])
      BY <2>1, <2>3 DEF WorkKept
    <2> QED
      BY <2>1, <2>3, <2>4, <2>5, NothingToSend, NothingPosted DEF ClientSound
  <1>5. HubSound
    BY <1>1 DEF HubSound, Repos
  <1> QED
    BY <1>3, <1>4, <1>5 DEF IInv

\* Nothing is disturbed where nothing happens.
LEMMA StutterSound ==
  ASSUME IInv, UNCHANGED syncVars
  PROVE  IInv'
  <1>1. UNCHANGED <<change, store, view, proc, post, last, interrupted, acked, direct>>
    BY DEF syncVars, stores, history
  <1>2. Typed' /\ Published' = Published
    BY <1>1 DEF IInv, Typed, Ids, Published
  <1>3. HubSound'
    BY <1>1, <1>2 DEF IInv, HubSound, ToSend
  <1>4. \A c \in Clients : ClientSound(c)'
    BY <1>1, <1>2 DEF IInv, ClientSound
  <1> QED
    BY <1>2, <1>3, <1>4 DEF IInv

\* Every step of a client, of the server's handler and every kill preserves it.
LEMMA StepsSound ==
  ASSUME IInv, [SyncNext]_syncVars
  PROVE  IInv'
  <1>1. ASSUME NEW c \in Clients, Snap(c) PROVE IInv'
    BY <1>1, SnapSound
  <1>2. ASSUME NEW c \in Clients, Pull(c) PROVE IInv'
    BY <1>2, PullSound
  <1>3. ASSUME NEW c \in Clients, FetchChange(c) PROVE IInv'
    BY <1>3, FetchChangeSound
  <1>4. ASSUME NEW c \in Clients, FetchBlob(c) PROVE IInv'
    BY <1>4, FetchBlobSound
  <1>5. ASSUME NEW c \in Clients, MergeHeads(c) PROVE IInv'
    BY <1>5, MergeHeadsSound
  <1>6. ASSUME NEW c \in Clients, Push(c) PROVE IInv'
    BY <1>6, PushSound
  <1>7. ASSUME NEW c \in Clients, SendChange(c) PROVE IInv'
    BY <1>7, SendChangeSound
  <1>8. ASSUME NEW c \in Clients, SendBlob(c) PROVE IInv'
    BY <1>8, SendBlobSound
  <1>9. ASSUME NEW c \in Clients, PushView(c) PROVE IInv'
    BY <1>9, PushViewSound
  <1>10. ASSUME NEW c \in Clients, Post(c) PROVE IInv'
    BY <1>10, PostSound
  <1>11. ASSUME NEW c \in Clients, WriteChange(c) PROVE IInv'
    BY <1>11, WriteChangeSound
  <1>12. ASSUME NEW c \in Clients, LoadView(c) PROVE IInv'
    BY <1>12, LoadViewSound
  <1>13. ASSUME NEW c \in Clients, SaveView(c) PROVE IInv'
    BY <1>13, SaveViewSound
  <1>14. ASSUME NEW c \in Clients, AdoptCollapse(c) PROVE IInv'
    BY <1>14, AdoptCollapseSound
  <1>15. ASSUME NEW c \in Clients, Kill(c) PROVE IInv'
    BY <1>15, KillSound
  <1>16. ASSUME KillServer PROVE IInv'
    BY <1>16, KillServerSound
  <1>17. ASSUME UNCHANGED syncVars PROVE IInv'
    BY <1>17, StutterSound
  <1> QED
    BY <1>1, <1>2, <1>3, <1>4, <1>5, <1>6, <1>7, <1>8, <1>9, <1>10, <1>11, <1>12, <1>13,
       <1>14, <1>15, <1>16, <1>17 DEF SyncNext

\* For any clients, authors and bounds the invariant holds in every state.
THEOREM AlwaysSound == SyncSpec => []IInv
  <1>1. SyncInit => IInv
    BY StartsSound
  <1>2. IInv /\ [SyncNext]_syncVars => IInv'
    BY StepsSound
  <1> QED
    BY <1>1, <1>2, PTL DEF SyncSpec

\* The cut-point assumption of fetch and push always holds: a store that no
\* interrupted sync left half written has what its changes depend on (StoresAreClosed).
THEOREM StoresAreAlwaysClosed == SyncSpec => []StoresAreClosed
  <1>1. ASSUME IInv PROVE StoresAreClosed
    <2> SUFFICES ASSUME NEW r \in Repos \ interrupted,
                        \A c \in Clients : proc[c].at \in {"idle", "wait"} /\ (r = Hub => post[c] = None),
                        NEW x \in store[r]
                 PROVE  change[x].deps \subseteq store[r]
      BY DEF StoresAreClosed
    <2>1. CASE r = Hub
      <3>1. \A c \in Clients : ToSend(c) = {}
        BY DEF ToSend, ByPath
      <3> QED
        BY <1>1, <2>1, <3>1 DEF IInv, HubSound
    <2>2. CASE r # Hub
      <3>1. r \in Clients
        BY <2>2 DEF Repos
      <3>2. proc[r].at # "blob" /\ ~Pulls(proc[r])
        BY <3>1 DEF Pulls
      <3>3. FetchGoesOn(change, store[r], proc[r], TRUE)
        BY <1>1, <3>1 DEF IInv, ClientSound
      <3> QED
        BY <3>2, <3>3 DEF FetchGoesOn
    <2> QED
      BY <2>1, <2>2
  <1> QED
    BY <1>1, AlwaysSound, PTL

\* Whatever is pushed and by however many, no change of a transient author becomes
\* part of the hub's history over HTTP (NoTransientPublished, post_sync's collapse).
THEOREM NeverPublishesTransient == SyncSpec => []NoTransientPublished
  <1>1. ASSUME IInv PROVE NoTransientPublished
    <2>1. Contents(change) /\ view[Hub] \subseteq DOMAIN change /\ view[Hub] \subseteq Published
      BY <1>1 DEF IInv, HubSound, Typed, Ids, Repos
    <2>2. Anc(change, view[Hub]) = UNION {Anc(change, {x}) : x \in view[Hub]}
      BY <2>1, AncOfEach
    <2>3. \A x \in Anc(change, view[Hub]) \ Anc(change, direct) : change[x].author # "transient"
      BY <2>1, <2>2 DEF Published, Publishable
    <2>4. ancestors(Ids, view[Hub]) = Anc(change, view[Hub]) /\ ancestors(Ids, direct) = Anc(change, direct)
      BY DEF ancestors, Anc, Ids
    <2> QED
      BY <2>3, <2>4 DEF NoTransientPublished
  <1> QED
    BY <1>1, AlwaysSound, PTL

\* A push that was acknowledged with no other under way stays in the hub's view, and
\* a client's view has all its work after a push, collapsed or not (PushesAreKept).
THEOREM PushesAreAlwaysKept == SyncSpec => []PushesAreKept
  <1>1. ASSUME IInv PROVE PushesAreKept
    <2>1. AckedPushIsKept
      <3>1. ancestors(Ids, view[Hub]) = Anc(change, view[Hub])
        BY DEF ancestors, Anc, Ids
      <3> QED
        BY <1>1, <3>1 DEF AckedPushIsKept, IInv, HubSound
    <2>2. PushKeepsTheWork
      <3>1. ASSUME NEW c \in Clients, proc[c] = Idle, last[c].command = "push", last[c].result = "ok"
            PROVE  last[c].work \subseteq Work(c)
        <4>1. WorkKept(change, proc[c], post[c], last[c], view[c])
          BY <1>1 DEF IInv, ClientSound
        <4>2. Work(c) = WorkOf(change, view[c])
          BY DEF Work, WorkOf, ancestors, Anc, Ids
        <4> QED
          BY <3>1, <4>1, <4>2 DEF WorkKept
      <3> QED
        BY <3>1 DEF PushKeepsTheWork
    <2> QED
      BY <2>1, <2>2 DEF PushesAreKept
  <1> QED
    BY <1>1, AlwaysSound, PTL

-----------------------------------------------------------------------------
(* The native transport.                                                     *)

Untorn == \A n \in Sessions : ~sess[n].torn

\* Some part of the store st has the heads hs and all that they depend on.
Holds(ch, st, hs) == \E C \in SUBSET st : hs \subseteq C /\ \A x \in C : ch[x].deps \subseteq C

Ended(s) == s.at \in {"served", "refused", "failed"}

\* What a client with the store own streams: its changes, and the end at most once.
Streamed(own, wire) ==
  /\ wire \in Seq(own \cup {Eof})
  /\ \A i \in 1..Len(wire) : wire[i] = Eof => i = Len(wire)

\* A session: only who sends heads streams, and that once, when it leaves.
Formed(st, s) ==
  /\ DOMAIN s = {"client", "what", "head", "token", "at", "wire", "open", "reply", "frames", "told", "torn", "alone"}
  /\ s.client \in Clients
  /\ s.at \in {"queued", "hello", "ingest", "wants", "persist", "served", "refused", "failed"}
  /\ s.open \in BOOLEAN /\ s.torn \in BOOLEAN /\ s.alone \in BOOLEAN
  /\ IF s.what = "send"
     THEN /\ s.head \subseteq st[s.client] /\ \A x, y \in s.head : x = y
          /\ Streamed(st[s.client], s.wire)
          /\ s.open => s.wire = <<>>
     ELSE s.head = {} /\ s.at # "ingest"

\* What is on its way to the hub.
InFlight(s) == IF s.at = "ingest" THEN ToSet(s.wire) \ {Eof} ELSE {}

\* The client has not given up.
Hopes(s) == s.open \/ s.told = "ok"

\* How far a session that sends is: what was answered, said and sent.
InOrder(s) ==
  s.what = "send" =>
    /\ s.at \in {"queued", "hello"} => s.reply = None /\ s.told # "ok"
    /\ s.at \in {"queued", "hello", "wants", "persist"} => s.wire = <<>>
    /\ s.open => s.told = None
    /\ s.wire # <<>> => s.told = "ok"
    /\ s.at = "ingest" => s.reply.status = 0 /\ s.reply.required = s.head /\ s.head # {}
    /\ s.at = "refused" => s.reply.status # 0
    /\ s.told = "ok" => s.reply.status = 0
    /\ Hopes(s) /\ s.at \notin {"queued", "hello", "refused"} => s.reply.required \in {{}, s.head}
    /\ s.open /\ s.reply # None /\ s.reply.status = 0 /\ s.reply.required # {} => s.at = "ingest"

\* A client was told that all went well when it had streamed: its heads and all they
\* depend on are on the hub, or on their way and nothing else is.
Carried(ch, hub, s) ==
  s.what = "send" /\ s.told = "ok" /\ s.reply.required # {} =>
    /\ s.at \in {"ingest", "wants", "persist", "served"}
    /\ \E C \in SUBSET (hub \cup InFlight(s)) :
         s.head \cup InFlight(s) \subseteq C /\ \A x \in C : ch[x].deps \subseteq C

\* A client whose heads were there, with no other session under way, had all that
\* they depend on there.
Known(ch, hub, s) ==
  s.what = "send" /\ s.alone /\ Hopes(s) /\ s.at \notin {"queued", "hello", "refused"}
     /\ s.reply.required = {} =>
    s.at \in {"wants", "persist", "served"} /\ Holds(ch, hub, s.head)

NativeTyped ==
  /\ Contents(change)
  /\ store \in [Repos -> SUBSET Ids] /\ view \in [Repos -> SUBSET Ids]
  /\ DOMAIN proc = Clients /\ proc = [c \in Clients |-> proc[c]]
  /\ sess \in Seq({sess[n] : n \in Sessions})

\* Natively no client gets another's changes, and its store has what they depend on.
OwnStores ==
  /\ \A c \in Clients : view[c] \subseteq store[c] /\ \A x \in store[c] : change[x].deps \subseteq store[c]
  /\ \A c, d \in Clients : c # d => store[c] \cap store[d] = {}

\* Where a client is.
At(p, n) == p.at = "native" /\ p.session = n

ClientsAtSessions ==
  \A c \in Clients :
    proc[c] # Idle => /\ proc[c].at = "native" /\ proc[c].session \in Sessions
                      /\ sess[proc[c].session].client = c /\ sess[proc[c].session].open
                      /\ sess[proc[c].session].what = proc[c].command

\* As long as no session was cut off: a session is open as long as its client is at it,
\* and is its last; who was alone at first comes after sessions that have ended;
\* what the hub's changes depend on is there, or the same client has sent it.
Undisturbed ==
  /\ \A n \in Sessions : sess[n].open <=> At(proc[sess[n].client], n)
  /\ \A n, m \in Sessions : sess[n].open /\ sess[m].client = sess[n].client => m <= n
  /\ \A n \in Sessions : sess[n].alone => \A m \in 1..(n - 1) : Ended(sess[m])
  /\ \A n \in Sessions : InOrder(sess[n]) /\ Carried(change, store[Hub], sess[n]) /\ Known(change, store[Hub], sess[n])
  /\ \A c \in Clients, x \in store[Hub] : x \in store[c] => \A y \in change[x].deps :
       y \in store[Hub] \/ \E n \in Sessions : sess[n].client = c /\ y \in InFlight(sess[n])

NativeInv ==
  /\ NativeTyped /\ OwnStores /\ ClientsAtSessions
  /\ \A n \in Sessions : Formed(store, sess[n]) /\ (sess[n].at = "served" => Holds(change, store[Hub], sess[n].head))
  /\ Untorn => Undisturbed

-----------------------------------------------------------------------------
\* What a store holds, it holds when there is more; what it holds is closed.
LEMMA HoldsForGood ==
  ASSUME NEW ch, NEW new, Extends(new, ch), NEW st, NEW more, st \subseteq DOMAIN ch, st \subseteq more,
         NEW hs, Holds(ch, st, hs)
  PROVE  Holds(new, more, hs)
  BY DEF Holds, Extends

\* This is what ensure_dependency_closure_present finds out.
LEMMA HoldsIsClosed ==
  ASSUME NEW ch, Contents(ch), NEW st, st \subseteq DOMAIN ch, NEW hs, hs \subseteq Numbers
  PROVE  Holds(ch, st, hs) <=> Reached(hs, [x \in st |-> ch[x].deps]) \subseteq st
  <1> DEFINE leads == [x \in st |-> ch[x].deps]
  <1>1. DOMAIN leads = st /\ \A x \in st : leads[x] = ch[x].deps
    OBVIOUS
  <1>2. Downward(leads)
    BY <1>1, ContentsFacts DEF Downward
  <1> HIDE DEF leads
  <1>3. hs \subseteq Reached(hs, leads) /\ \A x \in Reached(hs, leads) \cap st : leads[x] \subseteq Reached(hs, leads)
    BY <1>1, <1>2, ReachesItsStart, ReachedIsClosed
  <1>4. ASSUME Reached(hs, leads) \subseteq st PROVE Holds(ch, st, hs)
    BY <1>1, <1>3, <1>4 DEF Holds
  <1>5. ASSUME NEW C \in SUBSET st, hs \subseteq C, \A x \in C : ch[x].deps \subseteq C
        PROVE  Reached(hs, leads) \subseteq st
    <2>1. \A x \in C \cap DOMAIN leads : leads[x] \subseteq C
      BY <1>1, <1>5
    <2>2. Reached(hs, leads) \subseteq C
      BY <1>5, <2>1, ReachedIsLeast
    <2> QED
      BY <1>5, <2>2
  <1> QED
    BY <1>4, <1>5 DEF Holds, leads

\* What was carried and known stays, when the store grows.
LEMMA SessionKept ==
  ASSUME NEW ch, NEW new, Extends(new, ch), NEW hub, NEW more, hub \subseteq DOMAIN ch, hub \subseteq more,
         NEW st, NEW next, \A c \in Clients : st[c] \subseteq next[c] /\ st[c] \subseteq DOMAIN ch,
         Eof \notin DOMAIN ch, NEW s, Formed(st, s)
  PROVE  /\ Formed(next, s)
         /\ InFlight(s) \subseteq DOMAIN ch
         /\ Carried(ch, hub, s) => Carried(new, more, s)
         /\ Known(ch, hub, s) => Known(new, more, s)
  <1>1. s.what = "send" => /\ s.wire \in Seq(st[s.client] \cup {Eof})
                           /\ s.wire \in Seq(next[s.client] \cup {Eof})
    BY SeqMonotonic DEF Formed, Streamed
  <1>2. Formed(next, s)
    BY <1>1 DEF Formed, Streamed
  <1>3. InFlight(s) \subseteq DOMAIN ch
    <2>1. s.at = "ingest" => s.what = "send" /\ s.client \in Clients
      BY DEF Formed
    <2>2. s.at = "ingest" => ToSet(s.wire) \subseteq st[s.client] \cup {Eof}
      BY <1>1, <2>1, MembersOf
    <2> QED
      BY <2>1, <2>2 DEF InFlight
  <1>4. ASSUME Carried(ch, hub, s) PROVE Carried(new, more, s)
    <2> DEFINE F == InFlight(s)
    <2>1. F \subseteq DOMAIN ch
      BY <1>3
    <2> HIDE DEF F
    <2>2. ASSUME NEW C \in SUBSET (hub \cup F), \A x \in C : ch[x].deps \subseteq C
          PROVE  C \in SUBSET (more \cup F) /\ \A x \in C : new[x].deps \subseteq C
      BY <2>1, <2>2 DEF Extends
    <2> QED
      BY <1>4, <2>2 DEF Carried, F
  <1>5. ASSUME Known(ch, hub, s) PROVE Known(new, more, s)
    BY <1>5, HoldsForGood DEF Known
  <1> QED
    BY <1>2, <1>3, <1>4, <1>5

\* Also when no change was made.
LEMMA SessionStill ==
  ASSUME NEW ch, NEW hub, NEW more, hub \subseteq DOMAIN ch, hub \subseteq more,
         NEW st, \A c \in Clients : st[c] \subseteq DOMAIN ch, Eof \notin DOMAIN ch, NEW s, Formed(st, s)
  PROVE  /\ Carried(ch, hub, s) => Carried(ch, more, s)
         /\ Known(ch, hub, s) => Known(ch, more, s)
  <1>1. Extends(ch, ch) /\ \A c \in Clients : st[c] \subseteq st[c]
    BY DEF Extends
  <1> QED
    BY <1>1, SessionKept

\* What the types say of the changes and the sessions.
LEMMA NativeFacts ==
  ASSUME NativeTyped
  PROVE  /\ Ids \subseteq Numbers /\ Eof \notin Ids
         /\ Hub \in Repos /\ store[Hub] \subseteq Ids /\ Clients \subseteq Repos /\ Hub \notin Clients
         /\ \A c \in Clients : store[c] \subseteq Ids /\ view[c] \subseteq Ids
         /\ Sessions = 1..Len(sess) /\ Len(sess) \in Nat
         /\ \A x \in Ids : change[x].deps \subseteq Ids
  <1>1. Ids \subseteq Numbers /\ \A x \in Ids : change[x].deps \subseteq Ids
    BY ContentsFacts DEF NativeTyped, Ids
  <1>2. Sessions = 1..Len(sess) /\ Len(sess) \in Nat
    <2> DEFINE S == {sess[n] : n \in Sessions}
    <2>1. sess \in Seq(S)
      BY DEF NativeTyped
    <2> HIDE DEF S
    <2> QED
      BY <2>1 DEF Sessions
  <1> QED
    BY <1>1, <1>2, SyncAssumption DEF NativeTyped, Repos, Eof, Numbers

\* A function from the first k numbers is a sequence of what it has.
LEMMA OfItsElements ==
  ASSUME NEW k \in Nat, NEW f, f = [i \in 1..k |-> f[i]]
  PROVE  f \in Seq({f[i] : i \in DOMAIN f}) /\ Len(f) = k /\ DOMAIN f = 1..k
  <1> DEFINE S == {f[i] : i \in 1..k}
  <1>1. DOMAIN f = 1..k
    OBVIOUS
  <1>2. \A i \in 1..k : f[i] \in S
    OBVIOUS
  <1> HIDE DEF S
  <1>3. f \in [1..k -> S]
    BY <1>2
  <1>4. f \in Seq(S)
    BY <1>3, SeqDef
  <1>5. f \in Seq(S) /\ Len(f) = k
    BY <1>1, <1>4
  <1> QED
    BY <1>1, <1>5 DEF S

\* A step of the session n, which becomes t: the hub may get the changes X, and its
\* client may leave it.
Becomes(n, t, X) ==
  /\ sess' = [sess EXCEPT ![n] = t]
  /\ change' = change /\ store' = [store EXCEPT ![Hub] = @ \cup X]
  /\ view' \in [Repos -> SUBSET Ids] /\ \A c \in Clients : view'[c] = view[c]
  /\ t.client = sess[n].client /\ t.what = sess[n].what /\ t.alone = sess[n].alone
  /\ \/ t.open = sess[n].open /\ proc' = proc
     \/ ~t.open /\ sess[n].open /\ proc' = [proc EXCEPT ![sess[n].client] = Idle]

\* How a session may go on from s to t, when none was cut off and the hub then has hub.
Follows(ch, hub, s, t, X) ==
  /\ Ended(s) => Ended(t)
  /\ InOrder(t) /\ Carried(ch, hub, t) /\ Known(ch, hub, t)
  /\ InFlight(s) \subseteq hub \cup InFlight(t)
  /\ \A x \in X : ch[x].deps \subseteq hub \cup InFlight(t)

\* One session is replaced.
LEMMA Replaced ==
  ASSUME NativeTyped, NEW n \in Sessions, NEW t, sess' = [sess EXCEPT ![n] = t]
  PROVE  /\ Sessions' = Sessions /\ sess' \in Seq({sess'[m] : m \in Sessions'})
         /\ sess'[n] = t /\ \A m \in Sessions : m # n => sess'[m] = sess[m]
  <1> DEFINE k == Len(sess)
             new == sess'
  <1>1. Sessions = 1..k /\ k \in Nat
    BY NativeFacts
  <1>2. /\ new = [m \in 1..k |-> new[m]] /\ DOMAIN new = 1..k
        /\ new[n] = t /\ \A m \in 1..k : m # n => new[m] = sess[m]
    BY <1>1 DEF Sessions
  <1> HIDE DEF k, new
  <1>3. new \in Seq({new[m] : m \in DOMAIN new})
    BY <1>1, <1>2, OfItsElements
  <1> QED
    BY <1>1, <1>2, <1>3 DEF Sessions, new

\* Such a step is sound, whatever the other sessions do.
LEMMA StepOfOne ==
  ASSUME NativeInv, NEW n \in Sessions, NEW t, NEW X, X \subseteq store[sess[n].client], Becomes(n, t, X),
         Formed(store, t), sess[n].torn => t.torn,
         t.at = "served" => Holds(change, store[Hub], t.head),
         Untorn /\ Undisturbed /\ ~t.torn => Follows(change, store[Hub] \cup X, sess[n], t, X)
  PROVE  NativeInv'
  <1> DEFINE s == sess[n]
             hub == store[Hub]
             more == hub \cup X
  <1> USE DEF NativeInv
  <1>1. /\ Ids \subseteq Numbers /\ Eof \notin Ids
        /\ Hub \in Repos /\ hub \subseteq Ids /\ Clients \subseteq Repos /\ Hub \notin Clients
        /\ \A c \in Clients : store[c] \subseteq Ids /\ view[c] \subseteq Ids
        /\ Sessions = 1..Len(sess) /\ Len(sess) \in Nat
    BY NativeFacts
  <1>2. /\ Sessions' = Sessions /\ sess' \in Seq({sess'[m] : m \in Sessions'})
        /\ sess'[n] = t /\ \A m \in Sessions : m # n => sess'[m] = sess[m]
    BY Replaced DEF Becomes
  <1>3. /\ change' = change /\ store' \in [Repos -> SUBSET Ids] /\ store'[Hub] = more
        /\ \A c \in Clients : store'[c] = store[c]
        /\ view' \in [Repos -> SUBSET Ids] /\ \A c \in Clients : view'[c] = view[c]
    <2>1. s.client \in Clients /\ X \subseteq Ids
      BY <1>1 DEF Formed
    <2>2. store \in [Repos -> SUBSET Ids]
      BY DEF NativeTyped
    <2> QED
      BY <1>1, <2>1, <2>2 DEF Becomes
  <1>4. t.client = s.client /\ s.client \in Clients /\ t.what = s.what /\ t.alone = s.alone
    BY DEF Becomes, Formed
  <1>5. /\ DOMAIN proc' = Clients /\ proc' = [c \in Clients |-> proc'[c]]
        /\ \/ t.open = s.open /\ proc' = proc
           \/ ~t.open /\ s.open /\ proc'[s.client] = Idle /\ \A c \in Clients : c # s.client => proc'[c] = proc[c]
    BY <1>4 DEF Becomes, NativeTyped
  <1>6. NativeTyped'
    BY <1>2, <1>3, <1>5 DEF NativeTyped, Ids
  <1>7. OwnStores'
    BY <1>3 DEF OwnStores
  <1>8. ClientsAtSessions'
    <2> SUFFICES ASSUME NEW c \in Clients, proc'[c] # Idle
                 PROVE  /\ proc'[c].at = "native" /\ proc'[c].session \in Sessions'
                        /\ sess'[proc'[c].session].client = c /\ sess'[proc'[c].session].open
                        /\ sess'[proc'[c].session].what = proc'[c].command
      BY DEF ClientsAtSessions
    <2>1. proc'[c] = proc[c] /\ (c = s.client => t.open = s.open)
      BY <1>5
    <2>2. /\ proc[c].at = "native" /\ proc[c].session \in Sessions
          /\ sess[proc[c].session].client = c /\ sess[proc[c].session].open
          /\ sess[proc[c].session].what = proc[c].command
      BY <2>1 DEF ClientsAtSessions
    <2> QED
      BY <1>2, <1>4, <2>1, <2>2
  <1>9. ASSUME NEW m \in Sessions
        PROVE  Formed(store', sess'[m]) /\ (sess'[m].at = "served" => Holds(change', store'[Hub], sess'[m].head))
    <2>1. Formed(store', t)
      BY <1>3 DEF Formed
    <2>2. \A hs : Holds(change, hub, hs) => Holds(change', store'[Hub], hs)
      BY <1>3 DEF Holds
    <2>3. m # n => Formed(store', sess[m])
      BY <1>3 DEF Formed
    <2> QED
      BY <1>2, <2>1, <2>2, <2>3
  <1>10. ASSUME Untorn' PROVE Undisturbed'
    <2>1. Untorn /\ Undisturbed /\ ~t.torn
      BY <1>2, <1>10 DEF Untorn
    <2>2. /\ Ended(s) => Ended(t)
          /\ InOrder(t) /\ Carried(change, more, t) /\ Known(change, more, t)
          /\ InFlight(s) \subseteq more \cup InFlight(t)
          /\ \A x \in X : change[x].deps \subseteq more \cup InFlight(t)
      BY <2>1 DEF Follows
    <2> HIDE DEF s, hub, more
    <2>3. \A m \in Sessions : sess'[m].client = sess[m].client /\ sess'[m].alone = sess[m].alone
                              /\ (Ended(sess[m]) => Ended(sess'[m])) /\ (sess'[m].open => sess[m].open)
      BY <1>2, <1>4, <1>5, <2>2 DEF s
    <2>4. \A m \in Sessions : sess'[m].open <=> At(proc'[sess'[m].client], m)
      <3>1. \A m \in Sessions : sess[m].open <=> At(proc[sess[m].client], m)
        BY <2>1 DEF Undisturbed
      <3>2. ~At(Idle, n) /\ \A m : ~At(Idle, m)
        BY DEF At, Idle
      <3>3. \A m \in Sessions : sess[m].client \in Clients
        BY DEF Formed
      <3>4. CASE t.open = s.open /\ proc' = proc
        BY <1>2, <1>4, <3>1, <3>4 DEF s
      <3>5. CASE ~t.open /\ s.open /\ proc'[s.client] = Idle /\ \A c \in Clients : c # s.client => proc'[c] = proc[c]
        <4>1. At(proc[s.client], n)
          BY <3>1, <3>5 DEF s
        <4>2. \A m \in Sessions : m # n /\ sess[m].client = s.client => ~sess[m].open
          BY <3>1, <4>1 DEF At
        <4> QED
          BY <1>2, <1>4, <3>1, <3>2, <3>3, <3>5, <4>2 DEF s
      <3> QED
        BY <1>5, <3>4, <3>5
    <2>5. \A l, m \in Sessions : sess'[l].open /\ sess'[m].client = sess'[l].client => m <= l
      BY <2>1, <2>3 DEF Undisturbed
    <2>6. \A l \in Sessions : sess'[l].alone => \A m \in 1..(l - 1) : Ended(sess'[m])
      <3>1. \A l \in Sessions : \A m \in 1..(l - 1) : m \in Sessions
        BY <1>1
      <3> QED
        BY <2>1, <2>3, <3>1 DEF Undisturbed
    <2>7. ASSUME NEW m \in Sessions
          PROVE  InOrder(sess'[m]) /\ Carried(change', store'[Hub], sess'[m]) /\ Known(change', store'[Hub], sess'[m])
      <3>1. CASE m = n
        BY <1>2, <1>3, <2>2, <3>1 DEF more, hub
      <3>2. CASE m # n
        <4>1. InOrder(sess[m]) /\ Carried(change, hub, sess[m]) /\ Known(change, hub, sess[m])
          BY <2>1 DEF Undisturbed, hub
        <4>2. Formed(store, sess[m]) /\ hub \subseteq more /\ hub \subseteq DOMAIN change
              /\ Eof \notin DOMAIN change /\ \A c \in Clients : store[c] \subseteq DOMAIN change
          BY <1>1 DEF Ids, more, hub
        <4>3. Carried(change, more, sess[m]) /\ Known(change, more, sess[m])
          BY <4>1, <4>2, SessionStill
        <4> QED
          BY <1>2, <1>3, <3>2, <4>1, <4>3
      <3> QED
        BY <3>1, <3>2
    <2>8. ASSUME NEW c \in Clients, NEW x \in store'[Hub], x \in store'[c], NEW y \in change'[x].deps
          PROVE  y \in store'[Hub] \/ \E m \in Sessions : sess'[m].client = c /\ y \in InFlight(sess'[m])
      <3>1. x \in store[c] /\ x \in more /\ y \in change[x].deps
        BY <1>3, <2>8
      <3>2. CASE x \in hub
        <4>1. y \in hub \/ \E m \in Sessions : sess[m].client = c /\ y \in InFlight(sess[m])
          BY <2>1, <3>1, <3>2 DEF Undisturbed, hub
        <4>2. ASSUME NEW m \in Sessions, sess[m].client = c, y \in InFlight(sess[m])
              PROVE  y \in more \/ \E l \in Sessions : sess'[l].client = c /\ y \in InFlight(sess'[l])
          BY <1>2, <1>4, <2>2, <4>2 DEF s
        <4> QED
          BY <1>3, <4>1, <4>2 DEF more, hub
      <3>3. CASE x \in X
        <4>1. c = s.client
          BY <1>4, <3>1, <3>3 DEF OwnStores, s
        <4>2. y \in more \cup InFlight(t)
          BY <2>2, <3>1, <3>3
        <4> QED
          BY <1>2, <1>3, <1>4, <4>1, <4>2 DEF s
      <3> QED
        BY <3>1, <3>2, <3>3 DEF more
    <2> QED
      BY <1>2, <2>4, <2>5, <2>6, <2>7, <2>8 DEF Undisturbed
  <1> QED
    BY <1>2, <1>6, <1>7, <1>8, <1>9, <1>10

\* A change is made in a client's store: nobody else has it.
LEMMA NativeSnap ==
  ASSUME NativeInv, NEW c \in Clients, Snap(c), UNCHANGED sess
  PROVE  NativeInv'
  <1> USE DEF NativeInv
  <1>1. /\ Ids \subseteq Numbers /\ Eof \notin Ids
        /\ Hub \in Repos /\ store[Hub] \subseteq Ids /\ Clients \subseteq Repos /\ Hub \notin Clients
        /\ \A d \in Clients : store[d] \subseteq Ids /\ view[d] \subseteq Ids
        /\ \A x \in Ids : change[x].deps \subseteq Ids
    BY NativeFacts
  <1>2. PICK id \in Fresh, a \in Authors :
          /\ change' = With(id, view[c], a, id)
          /\ store' = [store EXCEPT ![c] = @ \cup {id}]
          /\ view' = [view EXCEPT ![c] = {id}]
    BY DEF Snap
  <1>3. /\ Contents(change') /\ Extends(change', change)
        /\ Ids' = Ids \cup {id} /\ id \notin Ids
        /\ change'[id].deps = view[c]
    <2>1. id \in Numbers /\ Contents(change) /\ a \in Authors \cup {"server"}
      BY DEF Fresh, Numbers, NativeTyped
    <2> DEFINE d == view[c]
    <2>2. change' = With(id, d, a, id) /\ d \subseteq Ids
      BY <1>1, <1>2
    <2> HIDE DEF d, NativeInv
    <2>3. /\ Contents(change') /\ Extends(change', change) /\ DOMAIN change' = Ids \cup {id} /\ id \notin Ids
          /\ change'[id] = [deps |-> d, author |-> a, origin |-> id]
      BY <2>1, <2>2, NewChange
    <2> QED
      BY <2>3 DEF Ids, d
  <1>4. /\ store'[c] = store[c] \cup {id} /\ view'[c] = {id}
        /\ \A r \in Repos \ {c} : store'[r] = store[r] /\ view'[r] = view[r]
        /\ store' \in [Repos -> SUBSET Ids'] /\ view' \in [Repos -> SUBSET Ids']
    BY <1>1, <1>2, <1>3 DEF NativeTyped
  <1>5. UNCHANGED <<proc, sess>> /\ Sessions' = Sessions
    BY DEF Snap, Sessions
  <1>6. NativeTyped'
    BY <1>3, <1>4, <1>5 DEF NativeTyped
  <1>7. \A x \in Ids : change'[x].deps = change[x].deps
    BY <1>3 DEF Extends, Ids
  <1>8. OwnStores'
    <2>1. ASSUME NEW d \in Clients
          PROVE  view'[d] \subseteq store'[d] /\ \A x \in store'[d] : change'[x].deps \subseteq store'[d]
      <3>1. view[d] \subseteq store[d] /\ \A x \in store[d] : change[x].deps \subseteq store[d]
        BY DEF OwnStores
      <3>2. CASE d = c
        BY <1>1, <1>3, <1>4, <1>7, <3>1, <3>2
      <3>3. CASE d # c
        BY <1>1, <1>4, <1>7, <3>1, <3>3
      <3> QED
        BY <3>2, <3>3
    <2>2. ASSUME NEW d \in Clients, NEW e \in Clients, d # e
          PROVE  store'[d] \cap store'[e] = {}
      <3>1. store[d] \cap store[e] = {} /\ id \notin store[d] /\ id \notin store[e]
        BY <1>1, <1>3, <2>2 DEF OwnStores
      <3> QED
        BY <1>1, <1>4, <2>2, <3>1
    <2> QED
      BY <2>1, <2>2 DEF OwnStores
  <1>9. ClientsAtSessions'
    BY <1>5 DEF ClientsAtSessions
  <1>10. /\ store'[Hub] = store[Hub] /\ store[Hub] \subseteq DOMAIN change
         /\ \A d \in Clients : store[d] \subseteq store'[d] /\ store[d] \subseteq DOMAIN change
         /\ Eof \notin DOMAIN change
    BY <1>1, <1>4 DEF Ids
  <1>11. ASSUME NEW n \in Sessions
         PROVE  /\ Formed(store', sess[n])
                /\ sess[n].at = "served" => Holds(change', store[Hub], sess[n].head)
                /\ Carried(change, store[Hub], sess[n]) => Carried(change', store[Hub], sess[n])
                /\ Known(change, store[Hub], sess[n]) => Known(change', store[Hub], sess[n])
                /\ InFlight(sess[n]) \subseteq Ids
    <2> DEFINE s == sess[n]
               hub == store[Hub]
    <2>1. Formed(store, s) /\ (s.at = "served" => Holds(change, hub, s.head))
      OBVIOUS
    <2> HIDE DEF s, hub, NativeInv
    <2>2. hub \subseteq DOMAIN change /\ hub \subseteq hub
      BY <1>10 DEF hub
    <2> DEFINE new == change'
               next == store'
    <2>3. Extends(new, change) /\ \A d \in Clients : store[d] \subseteq next[d] /\ store[d] \subseteq DOMAIN change
      BY <1>3, <1>10
    <2> HIDE DEF new, next
    <2>4. /\ Formed(next, s) /\ InFlight(s) \subseteq DOMAIN change
          /\ Carried(change, hub, s) => Carried(new, hub, s)
          /\ Known(change, hub, s) => Known(new, hub, s)
      BY <1>10, <2>1, <2>2, <2>3, SessionKept
    <2>5. /\ Formed(store', s) /\ InFlight(s) \subseteq DOMAIN change
          /\ Carried(change, hub, s) => Carried(change', hub, s)
          /\ Known(change, hub, s) => Known(change', hub, s)
      BY <2>4 DEF new, next
    <2>6. s.at = "served" => Holds(change', hub, s.head)
      BY <1>3, <2>1, <2>2, HoldsForGood
    <2> QED
      BY <2>5, <2>6 DEF s, hub, Ids
  <1>12. ASSUME Untorn' PROVE Undisturbed'
    <2>1. Undisturbed
      BY <1>5, <1>12 DEF Untorn
    <2>2. \A d \in Clients, x \in store[Hub] : x \in store'[d] => x \in store[d] /\ change'[x].deps = change[x].deps
      BY <1>1, <1>3, <1>4, <1>7
    <2> QED
      BY <1>5, <1>10, <1>11, <2>1, <2>2 DEF Undisturbed
  <1> QED
    BY <1>5, <1>6, <1>8, <1>9, <1>10, <1>11, <1>12

\* A client connects, from nowhere or from an exchange that it leaves.
HungUp(c, hung) ==
  \/ proc[c] = Idle /\ hung = sess
  \/ proc[c] # Idle /\ proc[c].command # "send" /\ hung = [sess EXCEPT ![proc[c].session].open = FALSE]

\* What of a session s is the same in t, when its client may have left it.
Still(t, s) ==
  /\ t.client = s.client /\ t.what = s.what /\ t.head = s.head /\ t.at = s.at /\ t.wire = s.wire
  /\ t.torn = s.torn /\ t.alone = s.alone /\ DOMAIN t = DOMAIN s
  /\ s.what = "send" => t = s

\* Such a session is well formed, and has the same in flight.
LEMMA StillFormed ==
  ASSUME NEW st, NEW t, NEW s, Formed(st, s), Still(t, s), t.open \in {s.open, FALSE}
  PROVE  Formed(st, t) /\ InFlight(t) = InFlight(s)
  <1>1. CASE s.what = "send"
    BY <1>1 DEF Still
  <1>2. CASE s.what # "send"
    BY <1>2 DEF Still, Formed, InFlight
  <1> QED
    BY <1>1, <1>2

\* The new session is its client's last, and the only one that is open.
LEMMA ConnectSound ==
  ASSUME NativeInv, NEW c \in Clients, NEW hung, NEW what \in {"send", "exchange", "fetch"}, NEW head, NEW missing,
         NEW token \in BOOLEAN, Connect(c, hung, what, head, missing, token), UNCHANGED <<change, store, view>>,
         HungUp(c, hung),
         IF what = "send" THEN head \subseteq store[c] /\ \A x, y \in head : x = y ELSE head = {}
  PROVE  NativeInv'
  <1> DEFINE k == Len(sess)
             e == [client |-> c, what |-> what, head |-> head, token |-> token, at |-> "queued",
                   wire |-> <<>>, open |-> TRUE, reply |-> None, frames |-> 0, told |-> None,
                   torn |-> FALSE, alone |-> \A n \in Sessions : Over(n)]
             p == [at |-> "native", command |-> what, work |-> {}, session |-> k + 1, missing |-> missing]
             new == sess'
  <1> USE DEF NativeInv
  <1>1. Sessions = 1..k /\ k \in Nat /\ Hub \in Repos /\ Clients \subseteq Repos
    BY NativeFacts
  <1>2. new = Append(hung, e) /\ proc' = [proc EXCEPT ![c] = p]
    BY DEF Connect
  <1>3. /\ e.client = c /\ e.what = what /\ e.head = head /\ e.at = "queued" /\ e.wire = <<>> /\ e.open = TRUE
        /\ e.reply = None /\ e.told = None /\ e.torn = FALSE /\ (e.alone => \A n \in Sessions : Ended(sess[n]))
        /\ e.alone \in BOOLEAN
        /\ DOMAIN e = {"client", "what", "head", "token", "at", "wire", "open", "reply", "frames", "told", "torn", "alone"}
        /\ p.at = "native" /\ p.command = what /\ p.session = k + 1
    BY DEF Over, Ended
  <1> HIDE DEF e, p, new, k
  <1>4. /\ hung = [n \in 1..k |-> hung[n]]
        /\ \A n \in 1..k :
             \/ hung[n] = sess[n] /\ (proc[c] = Idle \/ n # proc[c].session)
             \/ /\ proc[c] # Idle /\ n = proc[c].session /\ sess[n].what # "send"
                /\ hung[n] = [sess[n] EXCEPT !.open = FALSE]
    <2>1. sess = [n \in 1..k |-> sess[n]]
      BY <1>1 DEF NativeTyped, Sessions
    <2>2. CASE proc[c] = Idle /\ hung = sess
      BY <2>1, <2>2
    <2>3. CASE /\ proc[c] # Idle /\ proc[c].command # "send"
               /\ hung = [sess EXCEPT ![proc[c].session].open = FALSE]
      <3> DEFINE n == proc[c].session
      <3>1. n \in 1..k /\ sess[n].what # "send"
        BY <1>1, <2>3 DEF ClientsAtSessions
      <3>2. hung = [sess EXCEPT ![n] = [sess[n] EXCEPT !.open = FALSE]]
        BY <2>3
      <3> HIDE DEF n
      <3>3. hung = [m \in 1..k |-> hung[m]] /\ hung[n] = [sess[n] EXCEPT !.open = FALSE]
            /\ \A m \in 1..k : m # n => hung[m] = sess[m]
        BY <2>1, <3>1, <3>2
      <3> QED
        BY <2>3, <3>1, <3>3 DEF n
    <2> QED
      BY <2>2, <2>3 DEF HungUp
  <1>5. ASSUME NEW n \in 1..k
        PROVE  /\ Still(hung[n], sess[n])
               /\ hung[n].open = IF proc[c] # Idle /\ n = proc[c].session THEN FALSE ELSE sess[n].open
    <2> DEFINE s == sess[n]
    <2>1. DOMAIN s = {"client", "what", "head", "token", "at", "wire", "open", "reply", "frames", "told", "torn", "alone"}
      BY <1>1 DEF Formed
    <2>2. \/ hung[n] = s /\ (proc[c] = Idle \/ n # proc[c].session)
          \/ /\ proc[c] # Idle /\ n = proc[c].session /\ s.what # "send"
             /\ hung[n] = [s EXCEPT !.open = FALSE]
      BY <1>4
    <2> HIDE DEF s
    <2>3. ASSUME hung[n] = [s EXCEPT !.open = FALSE], s.what # "send"
          PROVE  Still(hung[n], s) /\ hung[n].open = FALSE
      BY <2>1, <2>3 DEF Still
    <2>4. Still(s, s)
      BY DEF Still
    <2> QED
      BY <2>2, <2>3, <2>4 DEF s
  <1>6. /\ new = [n \in 1..(k + 1) |-> new[n]] /\ DOMAIN new = 1..(k + 1)
         /\ new[k + 1] = e /\ \A n \in 1..k : new[n] = hung[n]
    <2>1. hung \in Seq({hung[n] : n \in DOMAIN hung}) /\ Len(hung) = k /\ DOMAIN hung = 1..k
      BY <1>1, <1>4, OfItsElements
    <2> DEFINE S == {hung[n] : n \in DOMAIN hung} \cup {e}
    <2>2. {hung[n] : n \in DOMAIN hung} \subseteq S /\ e \in S
      OBVIOUS
    <2> HIDE DEF S
    <2>3. hung \in Seq(S)
      BY <2>1, <2>2, SeqMonotonic
    <2>4. new \in Seq(S) /\ Len(new) = k + 1 /\ \A n \in 1..k : new[n] = hung[n]
      BY <1>2, <2>1, <2>2, <2>3, AppendProperties
    <2>5. new[k + 1] = e
      BY <1>2, <2>1, <2>2, <2>3, AppendProperties
    <2>6. DOMAIN new = 1..(k + 1) /\ new = [n \in 1..(k + 1) |-> new[n]]
      BY <2>4
    <2> QED
      BY <2>4, <2>5, <2>6
  <1>7. DOMAIN new = 1..(k + 1) /\ new[k + 1] = e /\ \A n \in 1..k : new[n] = hung[n]
    BY <1>6
  <1>8. ASSUME NEW n \in 1..k
         PROVE  /\ Still(new[n], sess[n])
                /\ new[n].open = IF proc[c] # Idle /\ n = proc[c].session THEN FALSE ELSE sess[n].open
    <2>1. new[n] = hung[n]
      BY <1>7
    <2> QED
      BY <1>5, <2>1
  <1>9. new[k + 1] = e
    BY <1>7
  <1>10. Sessions' = 1..(k + 1) /\ k + 1 \in Nat
    BY <1>1, <1>7 DEF Sessions, new
  <1>11. /\ proc' = [d \in Clients |-> proc'[d]] /\ DOMAIN proc' = Clients /\ proc'[c] = p
        /\ \A d \in Clients : d # c => proc'[d] = proc[d]
    BY <1>2 DEF NativeTyped
  <1>12. NativeTyped'
    <2>1. new \in Seq({new[n] : n \in DOMAIN new})
      BY <1>6, <1>10, OfItsElements
    <2> QED
      BY <1>11, <2>1 DEF NativeTyped, new, Sessions, Ids
  <1>13. OwnStores'
    BY DEF OwnStores
  <1>14. ClientsAtSessions'
    <2>1. ASSUME NEW d \in Clients, proc'[d] # Idle
          PROVE  /\ proc'[d].at = "native" /\ proc'[d].session \in Sessions'
                 /\ new[proc'[d].session].client = d /\ new[proc'[d].session].open
                 /\ new[proc'[d].session].what = proc'[d].command
      <3>1. CASE d = c
        BY <1>1, <1>3, <1>9, <1>10, <1>11, <3>1
      <3>2. CASE d # c
        <4> DEFINE m == proc[d].session
        <4>1. /\ proc'[d] = proc[d] /\ proc[d].at = "native" /\ m \in 1..k
              /\ sess[m].client = d /\ sess[m].open /\ sess[m].what = proc[d].command
          BY <1>1, <1>11, <2>1, <3>2 DEF ClientsAtSessions
        <4> HIDE DEF m
        <4>2. proc[c] # Idle => sess[proc[c].session].client = c
          BY DEF ClientsAtSessions
        <4>3. ~(proc[c] # Idle /\ m = proc[c].session)
          BY <3>2, <4>1, <4>2
        <4>4. new[m].client = d /\ new[m].open /\ new[m].what = proc[d].command
          BY <1>8, <4>1, <4>3 DEF Still
        <4> QED
          BY <1>1, <1>10, <4>1, <4>4 DEF m
      <3> QED
        BY <3>1, <3>2
    <2> QED
      BY <2>1 DEF ClientsAtSessions, new
  <1>15. ASSUME NEW n \in 1..(k + 1)
         PROVE  Formed(store, new[n]) /\ (new[n].at = "served" => Holds(change, store[Hub], new[n].head))
    <2>1. CASE n \in 1..k
      <3>1. Formed(store, sess[n]) /\ (sess[n].at = "served" => Holds(change, store[Hub], sess[n].head))
        BY <1>1, <2>1
      <3> QED
        <4>1. Still(new[n], sess[n]) /\ new[n].open \in {sess[n].open, FALSE}
          BY <1>8, <2>1
        <4>2. Formed(store, new[n]) /\ new[n].at = sess[n].at /\ new[n].head = sess[n].head
          BY <3>1, <4>1, StillFormed DEF Still
        <4> QED
          BY <3>1, <4>2
    <2>2. CASE n = k + 1
      <3>1. \A S : Streamed(S, <<>>)
        BY DEF Streamed
      <3>2. Formed(store, e)
        BY <1>3, <3>1 DEF Formed
      <3>3. new[n] = e
        BY <1>9, <2>2
      <3> QED
        BY <1>3, <3>2, <3>3
    <2> QED
      BY <1>1, <2>1, <2>2
  <1>16. ASSUME Untorn' PROVE Undisturbed'
    <2>1. Undisturbed
      <3>1. ASSUME NEW n \in 1..k PROVE ~sess[n].torn
        <4>1. n \in Sessions' /\ sess'[n].torn = sess[n].torn
          <5>1. new[n].torn = sess[n].torn
            BY <1>8 DEF Still
          <5> QED
            BY <1>1, <1>10, <5>1 DEF new
        <4> QED
          BY <1>16, <4>1 DEF Untorn
      <3> QED
        BY <1>1, <3>1 DEF Untorn
    <2>2. ASSUME NEW n \in 1..k, new[n].client = c PROVE ~new[n].open
      <3>1. sess[n].client = c /\ (sess[n].open <=> At(proc[c], n))
        BY <1>1, <1>8, <2>1, <2>2 DEF Undisturbed, Still
      <3>2. ~At(Idle, n)
        BY DEF At, Idle
      <3> QED
        BY <1>8, <3>1, <3>2 DEF At, Still
    <2>3. ASSUME NEW n \in 1..(k + 1) PROVE new[n].open <=> At(proc'[new[n].client], n)
      <3>1. CASE n \in 1..k /\ new[n].client = c
        BY <1>1, <1>3, <1>11, <2>2, <3>1 DEF At
      <3>2. CASE n \in 1..k /\ new[n].client # c
        <4>1. /\ new[n].client = sess[n].client /\ sess[n].client \in Clients
              /\ sess[n].open <=> At(proc[sess[n].client], n)
          BY <1>1, <1>8, <2>1, <3>2 DEF Undisturbed, Formed, Still
        <4>2. proc[c] # Idle => sess[proc[c].session].client = c
          BY DEF ClientsAtSessions
        <4>3. new[n].open = sess[n].open
          BY <1>8, <3>2, <4>1, <4>2 DEF Still
        <4> QED
          BY <1>11, <3>2, <4>1, <4>3
      <3>3. CASE n = k + 1
        BY <1>3, <1>9, <1>11, <3>3 DEF At
      <3> QED
        BY <1>1, <3>1, <3>2, <3>3
    <2>4. ASSUME NEW l \in 1..(k + 1), NEW m \in 1..(k + 1), new[l].open, new[m].client = new[l].client
          PROVE  m <= l
      <3>1. CASE l \in 1..k /\ m \in 1..k
        <4>1. sess[l].open /\ sess[m].client = sess[l].client
          BY <1>8, <2>4, <3>1 DEF Still
        <4> QED
          BY <1>1, <2>1, <3>1, <4>1 DEF Undisturbed
      <3>2. CASE l \in 1..k /\ m = k + 1
        BY <1>3, <1>9, <2>2, <2>4, <3>2
      <3>3. CASE l = k + 1
        BY <1>1, <3>3
      <3> QED
        BY <1>1, <3>1, <3>2, <3>3
    <2>5. ASSUME NEW l \in 1..(k + 1), new[l].alone, NEW m \in 1..(l - 1) PROVE Ended(new[m])
      <3>1. m \in 1..k
        BY <1>1
      <3>2. Ended(sess[m])
        <4>1. CASE l \in 1..k
          BY <1>1, <1>8, <2>1, <2>5, <4>1 DEF Undisturbed, Still
        <4>2. CASE l = k + 1
          BY <1>1, <1>3, <1>9, <2>5, <3>1, <4>2
        <4> QED
          BY <1>1, <4>1, <4>2
      <3> QED
        BY <1>8, <3>1, <3>2 DEF Ended, Still
    <2>6. ASSUME NEW n \in 1..(k + 1)
          PROVE  InOrder(new[n]) /\ Carried(change, store[Hub], new[n]) /\ Known(change, store[Hub], new[n])
      <3>1. CASE n \in 1..k
        <4>1. InOrder(sess[n]) /\ Carried(change, store[Hub], sess[n]) /\ Known(change, store[Hub], sess[n])
          BY <1>1, <2>1, <3>1 DEF Undisturbed
        <4>2. new[n] = sess[n] \/ new[n].what # "send"
          BY <1>8, <3>1 DEF Still
        <4> QED
          BY <4>1, <4>2 DEF InOrder, Carried, Known
      <3>2. CASE n = k + 1
        BY <1>3, <1>9, <3>2, NativeAssumption DEF InOrder, Carried, Known
      <3> QED
        BY <1>1, <3>1, <3>2
    <2>7. ASSUME NEW n \in 1..k PROVE n \in Sessions' /\ new[n].client = sess[n].client /\ InFlight(new[n]) = InFlight(sess[n])
      <3>1. Still(new[n], sess[n]) /\ new[n].open \in {sess[n].open, FALSE} /\ Formed(store, sess[n])
        BY <1>1, <1>8
      <3>2. new[n].client = sess[n].client /\ InFlight(new[n]) = InFlight(sess[n])
        BY <3>1, StillFormed DEF Still
      <3> QED
        BY <1>1, <1>10, <3>2
    <2>8. ASSUME NEW d \in Clients, NEW x \in store[Hub], x \in store[d], NEW y \in change[x].deps
          PROVE  y \in store[Hub] \/ \E n \in Sessions' : new[n].client = d /\ y \in InFlight(new[n])
      BY <1>1, <2>1, <2>7, <2>8 DEF Undisturbed
    <2> QED
      BY <1>10, <2>3, <2>4, <2>5, <2>6, <2>8 DEF Undisturbed, new
  <1> QED
    BY <1>10, <1>12, <1>13, <1>14, <1>15, <1>16 DEF new

\* A step of the session n that leaves the stores and the client alone.
LEMMA QuietStep ==
  ASSUME NativeInv, NEW n \in Sessions, NEW t, sess' = [sess EXCEPT ![n] = t],
         UNCHANGED <<change, store, view, proc>>, Formed(store, t), t.torn = sess[n].torn,
         t.client = sess[n].client, t.what = sess[n].what, t.alone = sess[n].alone, t.open = sess[n].open,
         t.at = "served" => Holds(change, store[Hub], t.head),
         Untorn /\ Undisturbed => Follows(change, store[Hub], sess[n], t, {})
  PROVE  NativeInv'
  <1>1. store \in [Repos -> SUBSET Ids] /\ view \in [Repos -> SUBSET Ids]
    BY DEF NativeInv, NativeTyped
  <1>2. Becomes(n, t, {})
    BY <1>1 DEF Becomes, Ids
  <1>3. store[Hub] \cup {} = store[Hub]
    OBVIOUS
  <1> DEFINE X == {}
  <1>4. X \subseteq store[sess[n].client] /\ Becomes(n, t, X)
        /\ (Untorn /\ Undisturbed /\ ~t.torn => Follows(change, store[Hub] \cup X, sess[n], t, X))
    BY <1>2, <1>3
  <1> HIDE DEF X
  <1> QED
    BY <1>4, StepOfOne

\* Who does not send has nothing to say here.
LEMMA NotSending ==
  ASSUME NEW ch, NEW hub, NEW st, NEW s, NEW t, Formed(st, s), s.what # "send", t.what = s.what,
         Ended(s) => Ended(t)
  PROVE  Follows(ch, hub, s, t, {})
  BY DEF Formed, Follows, InOrder, Carried, Known, InFlight

\* The client leaves its session, with what it has still sent and what it was told.
LEMMA LeaveSound ==
  ASSUME NativeInv, NEW c \in Clients, proc[c] # Idle, NEW frames, NEW result \in {"ok", "failed"},
         Leave(c, frames, result), UNCHANGED <<change, store, view>>,
         NEW s, s = sess[proc[c].session],
         s.what = "send" => Streamed(store[c], frames),
         result = "failed" => frames = <<>>,
         Untorn /\ Undisturbed /\ s.what = "send" /\ result = "ok" =>
           /\ s.reply # None /\ s.reply.status = 0
           /\ s.reply.required = {} => frames = <<>>
           /\ s.reply.required # {} =>
                LET F == ToSet(frames) \ {Eof}
                IN s.head \subseteq F /\ \A x \in F : change[x].deps \subseteq F
  PROVE  NativeInv'
  <1> DEFINE n == proc[c].session
             w == IF Ended(s) THEN <<>> ELSE s.wire \o frames
             t == [s EXCEPT !.open = FALSE, !.told = result, !.wire = w]
  <1>1. n \in Sessions /\ s = sess[n] /\ s.client = c /\ s.open
    BY DEF NativeInv, ClientsAtSessions
  <1>2. Formed(store, s)
    BY <1>1 DEF NativeInv
  <1>3. sess' = [sess EXCEPT ![n] = t] /\ proc' = [proc EXCEPT ![c] = Idle]
    BY <1>1 DEF Leave, End, Over, Ended
  <1>4. DOMAIN s = {"client", "what", "head", "token", "at", "wire", "open", "reply", "frames", "told", "torn", "alone"}
    BY <1>2 DEF Formed
  <1>5. /\ DOMAIN t = DOMAIN s
        /\ t.client = c /\ t.what = s.what /\ t.head = s.head /\ t.at = s.at /\ t.wire = w /\ t.open = FALSE
        /\ t.reply = s.reply /\ t.told = result /\ t.torn = s.torn /\ t.alone = s.alone
    BY <1>1, <1>4
  <1> HIDE DEF n, t, w
  <1>6. s.what = "send" => w = IF Ended(s) THEN <<>> ELSE frames
    <2>1. s.what = "send" => s.wire = <<>> /\ frames \in Seq(store[c] \cup {Eof})
      BY <1>1, <1>2 DEF Formed, Streamed
    <2> QED
      BY <2>1, ConcatEmptySeq DEF w
  <1>7. Streamed(store[c], <<>>)
    BY DEF Streamed
  <1>8. Formed(store, t)
    <2>1. s.what = "send" => Streamed(store[c], w)
      BY <1>6, <1>7
    <2> QED
      BY <1>1, <1>2, <1>5, <2>1 DEF Formed
  <1>9. t.at = "served" => Holds(change, store[Hub], t.head)
    BY <1>1, <1>5 DEF NativeInv
  <1>10. ASSUME Untorn, Undisturbed PROVE Follows(change, store[Hub], s, t, {})
    <2>1. CASE s.what # "send"
      BY <1>2, <1>5, <2>1, NotSending DEF Ended
    <2>2. CASE s.what = "send"
      <3>1. InOrder(s) /\ Carried(change, store[Hub], s) /\ Known(change, store[Hub], s)
        BY <1>1, <1>10 DEF Undisturbed
      <3>2. s.wire = <<>> /\ s.told = None
        BY <1>1, <1>2, <2>2, <3>1 DEF Formed, InOrder
      <3>3. InFlight(s) = {}
        BY <3>2 DEF InFlight, ToSet
      <3>4. result = "ok" => s.reply # None /\ s.reply.status = 0 /\ (s.reply.required = {} => frames = <<>>)
        BY <1>10, <2>2
      <3>5. w # <<>> => result = "ok" /\ s.reply.required # {} /\ s.at = "ingest"
        BY <1>1, <1>6, <2>2, <3>1, <3>4 DEF InOrder
      <3>6. InOrder(t)
        BY <1>1, <1>5, <2>2, <3>1, <3>4, <3>5 DEF InOrder, Hopes
      <3>7. Carried(change, store[Hub], t)
        <4> SUFFICES ASSUME result = "ok", s.reply.required # {}
                     PROVE  /\ s.at = "ingest"
                            /\ s.head \cup InFlight(t) \subseteq InFlight(t)
                            /\ \A x \in InFlight(t) : change[x].deps \subseteq InFlight(t)
          BY <1>5 DEF Carried
        <4>1. s.at = "ingest"
          BY <1>1, <2>2, <3>1, <3>4 DEF InOrder
        <4>2. InFlight(t) = ToSet(frames) \ {Eof}
          BY <1>5, <1>6, <2>2, <4>1 DEF InFlight, Ended
        <4> QED
          BY <1>10, <2>2, <4>1, <4>2
      <3>8. Known(change, store[Hub], t)
        BY <1>1, <1>5, <3>1 DEF Known, Hopes
      <3> QED
        BY <1>5, <3>3, <3>6, <3>7, <3>8 DEF Follows, Ended
    <2> QED
      BY <2>1, <2>2
  <1> DEFINE X == {}
  <1>11. store \in [Repos -> SUBSET Ids] /\ view \in [Repos -> SUBSET Ids]
    BY DEF NativeInv, NativeTyped
  <1>12. /\ X \subseteq store[s.client] /\ store[Hub] \cup X = store[Hub] /\ Becomes(n, t, X)
         /\ Untorn /\ Undisturbed /\ ~t.torn => Follows(change, store[Hub] \cup X, s, t, X)
    BY <1>1, <1>3, <1>5, <1>10, <1>11 DEF Becomes, Ids
  <1> HIDE DEF X
  <1> QED
    BY <1>1, <1>5, <1>8, <1>9, <1>12, StepOfOne

-----------------------------------------------------------------------------
(* The steps of a client.                                                    *)

\* What a client streams: all that its heads depend on, if its store has it.
LEMMA StreamIs ==
  ASSUME NativeTyped, NEW c \in Clients, NEW hs, NEW q \in closure_orders(c, hs)
  PROVE  /\ Streamed(store[c], q \o <<Eof>>)
         /\ LET F == ToSet(q \o <<Eof>>) \ {Eof}
            IN hs \subseteq Numbers => hs \subseteq F /\ \A x \in F : change[x].deps \subseteq F
  <1> DEFINE own == store[c]
             leads == [x \in own |-> change[x].deps]
             reached == Reached(hs, leads)
  <1>1. own \subseteq DOMAIN change /\ Contents(change) /\ DOMAIN change \subseteq Numbers /\ Eof \notin own
    BY NativeFacts DEF NativeTyped, Ids
  <1>2. ancestors(own, hs) = reached
    BY DEF ancestors
  <1>3. DOMAIN leads = own /\ (\A x \in own : leads[x] = change[x].deps) /\ Downward(leads)
    BY <1>1, ContentsFacts DEF Downward
  <1> HIDE DEF own, leads, reached
  <1>4. reached \subseteq own /\ q \in SetToSeqs(reached)
    BY <1>2 DEF closure_orders, own
  <1>5. IsFiniteSet(reached)
    <2>1. reached \subseteq DOMAIN change
      BY <1>1, <1>4
    <2> QED
      BY <1>1, <2>1, ChangesAreFinite
  <1>6. q \in Seq(reached) /\ ToSet(q) = reached
    BY <1>4, <1>5, OrdersOf
  <1> DEFINE S == reached \cup {Eof}
             w == q \o <<Eof>>
  <1>7. /\ w \in Seq(S) /\ ToSet(w) = reached \cup {Eof} /\ Len(w) = Len(q) + 1 /\ Len(q) \in Nat
        /\ \A i \in 1..Len(q) : w[i] = q[i]
    <2>1. reached \subseteq S /\ Eof \in S
      OBVIOUS
    <2> HIDE DEF S
    <2>2. q \in Seq(S) /\ <<Eof>> \in Seq(S) /\ Len(<<Eof>>) = 1 /\ ToSet(<<Eof>>) = {Eof}
      BY <1>6, <2>1, SeqMonotonic DEF ToSet
    <2>3. w \in Seq(S) /\ ToSet(w) = reached \cup {Eof}
      <3> DEFINE last1 == <<Eof>>
      <3>1. q \in Seq(S) /\ last1 \in Seq(S) /\ ToSet(last1) = {Eof} /\ w = q \o last1
        BY <2>2
      <3> HIDE DEF last1, w
      <3>2. q \o last1 \in Seq(S) /\ ToSet(q \o last1) = ToSet(q) \cup ToSet(last1)
        BY <3>1, MembersOfConcat
      <3> QED
        BY <1>6, <3>1, <3>2
    <2>4. Len(w) = Len(q) + 1 /\ Len(q) \in Nat /\ \A i \in 1..Len(q) : w[i] = q[i]
      BY <2>2, ConcatProperties
    <2> QED
      BY <2>3, <2>4
  <1>8. \A i \in 1..Len(q) : q[i] \in reached
    BY <1>6
  <1>9. S \subseteq own \cup {Eof}
    BY <1>4
  <1> HIDE DEF S, w
  <1>10. w \in Seq(own \cup {Eof})
    BY <1>7, <1>9, SeqMonotonic
  <1>11. ASSUME NEW i \in 1..Len(w), w[i] = Eof PROVE i = Len(w)
    <2>1. i \notin 1..Len(q)
      BY <1>1, <1>4, <1>7, <1>8, <1>11
    <2> QED
      BY <1>7, <2>1
  <1>12. ASSUME hs \subseteq Numbers PROVE hs \subseteq reached /\ \A x \in reached : change[x].deps \subseteq reached
    BY <1>3, <1>4, <1>12, ReachesItsStart, ReachedIsClosed DEF reached
  <1>13. ToSet(w) \ {Eof} = reached
    BY <1>1, <1>4, <1>7
  <1> QED
    BY <1>10, <1>11, <1>12, <1>13 DEF Streamed, own, w

\* sync_remote_from_repo sends the head of the client's view.
LEMMA SendHeadsSound ==
  ASSUME NativeInv, NEW c \in Clients, SendHeads(c)
  PROVE  NativeInv'
  <1>1. PICK h \in view[c], token \in BOOLEAN : view[c] = {h} /\ Connect(c, sess, "send", {h}, {}, token)
    BY DEF SendHeads
  <1>2. proc[c] = Idle /\ UNCHANGED <<change, store, view>>
    BY DEF SendHeads, stores
  <1>3. view[c] \subseteq store[c]
    BY DEF NativeInv, OwnStores
  <1> DEFINE head == {h}
             missing == {}
             what == "send"
  <1>4. /\ Connect(c, sess, what, head, missing, token) /\ HungUp(c, sess) /\ what \in {"send", "exchange", "fetch"}
        /\ IF what = "send" THEN head \subseteq store[c] /\ \A x, y \in head : x = y ELSE head = {}
    BY <1>1, <1>2, <1>3 DEF HungUp
  <1> HIDE DEF head, missing, what
  <1> QED
    BY <1>2, <1>4, ConnectSound

\* An exchange has no heads to save.
LEMMA ExchangeSound ==
  ASSUME NativeInv, NEW c \in Clients, Exchange(c)
  PROVE  NativeInv'
  <1> DEFINE head == {}
             missing == {}
             what == "exchange"
             token == TRUE
  <1>1. UNCHANGED <<change, store, view>>
    BY DEF Exchange, stores
  <1>2. /\ Connect(c, sess, what, head, missing, token) /\ HungUp(c, sess) /\ what \in {"send", "exchange", "fetch"}
        /\ token \in BOOLEAN
        /\ IF what = "send" THEN head \subseteq store[c] /\ \A x, y \in head : x = y ELSE head = {}
    BY DEF Exchange, HungUp
  <1> HIDE DEF head, missing, what, token
  <1> QED
    BY <1>1, <1>2, ConnectSound

\* Where a client is that is in a session.
LEMMA AtItsSession ==
  ASSUME NativeInv, NEW c \in Clients, proc[c].at = "native"
  PROVE  /\ proc[c] # Idle /\ proc[c].session \in Sessions
         /\ Formed(store, sess[proc[c].session])
         /\ sess[proc[c].session].what = proc[c].command /\ sess[proc[c].session].client = c
         /\ sess[proc[c].session].open
  <1>1. proc[c] # Idle
    BY DEF Idle
  <1> QED
    BY <1>1 DEF NativeInv, ClientsAtSessions

\* Who does not send says nothing when it leaves, nor does who was told of a failure.
LEMMA LeavesSilently ==
  ASSUME NativeInv, NEW c \in Clients, proc[c].at = "native", NEW result \in {"ok", "failed"},
         Leave(c, <<>>, result), UNCHANGED <<change, store, view>>,
         proc[c].command # "send" \/ result = "failed"
  PROVE  NativeInv'
  <1> DEFINE s == sess[proc[c].session]
             frames == <<>>
  <1>1. /\ proc[c] # Idle /\ Leave(c, frames, result) /\ frames = <<>> /\ (s.what # "send" \/ result = "failed")
    BY AtItsSession
  <1>2. Streamed(store[c], frames)
    BY DEF Streamed
  <1> HIDE DEF s, frames
  <1>3. s = sess[proc[c].session]
    BY DEF s
  <1>4. result = "failed" => result # "ok"
    OBVIOUS
  <1> QED
    BY <1>1, <1>2, <1>3, <1>4, LeaveSound

\* stream_required_changes: either nothing was asked for, or all of the history goes over.
LEMMA StreamSound ==
  ASSUME NativeInv, NEW c \in Clients, Stream(c)
  PROVE  NativeInv'
  <1> DEFINE s == sess[proc[c].session]
             required == s.reply.required
  <1>1. proc[c].at = "native" /\ UNCHANGED <<change, store, view>> /\ s.reply # None
    BY DEF Stream, stores, Reply
  <1>2. s.what = "send" /\ proc[c] # Idle /\ Formed(store, s) /\ proc[c].session \in Sessions /\ s.open
    BY <1>1, AtItsSession DEF Stream
  <1>3. CASE s.reply.status # 0
    <2>1. Leave(c, <<>>, "failed")
      BY <1>3 DEF Stream, Reply
    <2> QED
      BY <1>1, <2>1, LeavesSilently
  <1>4. CASE s.reply.status = 0 /\ required = {}
    <2> DEFINE frames == <<>>
               result == "ok"
    <2>1. Leave(c, frames, result) /\ frames = <<>> /\ result \in {"ok", "failed"} /\ result # "failed"
      BY <1>4 DEF Stream, Reply
    <2>2. Streamed(store[c], frames)
      BY DEF Streamed
    <2> HIDE DEF frames, result
    <2>3. s = sess[proc[c].session]
      OBVIOUS
    <2> HIDE DEF s
    <2> QED
      BY <1>1, <1>2, <1>4, <2>1, <2>2, <2>3, LeaveSound
  <1>5. CASE s.reply.status = 0 /\ required # {}
    <2>1. CASE closure_orders(c, required) = {}
      <3>1. Leave(c, <<>>, "failed")
        BY <1>5, <2>1 DEF Stream, Reply
      <3> QED
        BY <1>1, <3>1, LeavesSilently
    <2>2. CASE closure_orders(c, required) # {}
      <3>1. PICK q \in closure_orders(c, required) : Leave(c, q \o <<Eof>>, "ok")
        BY <1>5, <2>2 DEF Stream, Reply
      <3> DEFINE frames == q \o <<Eof>>
                 F == ToSet(frames) \ {Eof}
                 result == "ok"
      <3>2. /\ Streamed(store[c], frames)
            /\ required \subseteq Numbers => required \subseteq F /\ \A x \in F : change[x].deps \subseteq F
        BY StreamIs DEF NativeInv
      <3>3. ASSUME Untorn, Undisturbed PROVE s.head = required /\ required \subseteq Numbers
        <4>1. InOrder(s)
          BY <1>2, <3>3 DEF Undisturbed
        <4>2. s.at = "ingest" /\ required = s.head
          BY <1>1, <1>2, <1>5, <4>1 DEF InOrder
        <4>3. s.head \subseteq store[c] /\ store[c] \subseteq Numbers
          BY <1>1, <1>2, AtItsSession, NativeFacts DEF NativeInv, Formed
        <4> QED
          BY <4>2, <4>3
      <3>4. Leave(c, frames, result) /\ result \in {"ok", "failed"} /\ result # "failed"
        BY <3>1
      <3> HIDE DEF frames, result
      <3>5. s = sess[proc[c].session]
        OBVIOUS
      <3> HIDE DEF s
      <3>6. Untorn /\ Undisturbed => s.head \subseteq F /\ \A x \in F : change[x].deps \subseteq F
        BY <3>2, <3>3
      <3> QED
        BY <1>1, <1>2, <1>5, <3>2, <3>4, <3>5, <3>6, LeaveSound
    <2> QED
      BY <2>1, <2>2
  <1> QED
    BY <1>3, <1>4, <1>5

\* An exchange ends, or a fetch begins.
LEMMA CompareSound ==
  ASSUME NativeInv, NEW c \in Clients, Compare(c)
  PROVE  NativeInv'
  <1>1. proc[c].at = "native" /\ proc[c].command = "exchange" /\ UNCHANGED <<change, store, view>>
    BY DEF Compare, stores
  <1> DEFINE missing == compute_missing_hashes(c, Reply(c).frontier)
  <1>2. CASE missing = {}
    <2>1. Leave(c, <<>>, "ok")
      BY <1>2 DEF Compare
    <2> QED
      BY <1>1, <2>1, LeavesSilently
  <1>3. CASE missing # {}
    <2> DEFINE hung == [sess EXCEPT ![proc[c].session].open = FALSE]
               head == {}
               what == "fetch"
               token == TRUE
    <2>1. Connect(c, hung, what, head, missing, token)
      BY <1>3 DEF Compare
    <2>2. proc[c] # Idle
      BY <1>1, AtItsSession
    <2>3. /\ HungUp(c, hung) /\ what \in {"send", "exchange", "fetch"} /\ token \in BOOLEAN
          /\ IF what = "send" THEN head \subseteq store[c] /\ \A x, y \in head : x = y ELSE head = {}
      BY <1>1, <2>2 DEF HungUp
    <2> HIDE DEF hung, head, what, token, missing
    <2> QED
      BY <1>1, <2>1, <2>3, ConnectSound
  <1> QED
    BY <1>2, <1>3

\* A fetch asks, is answered and ends; a client gives up.
LEMMA WantSound ==
  ASSUME NativeInv, NEW c \in Clients, Want(c)
  PROVE  NativeInv'
  <1> DEFINE n == proc[c].session
             s == sess[n]
             t == [s EXCEPT !.wire = IF s.wire = <<>> THEN <<[want |-> proc[c].missing]>> ELSE s.wire]
  <1>1. proc[c].at = "native" /\ proc[c].command = "fetch" /\ UNCHANGED <<change, store, view, proc>>
    BY DEF Want, stores
  <1>2. n \in Sessions /\ Formed(store, s) /\ s.what # "send"
    BY <1>1, AtItsSession
  <1>3. sess' = [sess EXCEPT ![n] = t]
    BY DEF Want
  <1>4. /\ DOMAIN t = DOMAIN s /\ t.client = s.client /\ t.what = s.what /\ t.head = s.head /\ t.at = s.at
        /\ t.open = s.open /\ t.torn = s.torn /\ t.alone = s.alone
    BY <1>2 DEF Formed
  <1>5. t.at = "served" => Holds(change, store[Hub], t.head)
    BY <1>2, <1>4 DEF NativeInv
  <1> HIDE DEF t, s, n
  <1>6. Formed(store, t)
    BY <1>2, <1>4 DEF Formed
  <1>7. Follows(change, store[Hub], s, t, {})
    BY <1>2, <1>4, NotSending DEF Ended
  <1> QED
    BY <1>1, <1>2, <1>3, <1>4, <1>5, <1>6, <1>7, QuietStep DEF s

\* fetch announces nothing.
LEMMA FetchSound ==
  ASSUME NativeInv, NEW c \in Clients, Fetch(c)
  PROVE  NativeInv'
  <1>1. proc[c].at = "native" /\ proc[c].command = "fetch" /\ UNCHANGED <<change, store, view>>
    BY DEF Fetch, stores
  <1>2. PICK result \in {"ok", "failed"} : Leave(c, <<>>, result)
    BY DEF Fetch
  <1> QED
    BY <1>1, <1>2, LeavesSilently

\* A session that cannot be had.
LEMMA GiveUpSound ==
  ASSUME NativeInv, NEW c \in Clients, GiveUp(c)
  PROVE  NativeInv'
  <1>1. proc[c].at = "native" /\ Leave(c, <<>>, "failed") /\ UNCHANGED <<change, store, view>>
    BY DEF GiveUp, stores
  <1> QED
    BY <1>1, LeavesSilently

-----------------------------------------------------------------------------
(* The steps of the server.                                                  *)

\* A session as it is.
LEMMA SessionIs ==
  ASSUME NativeInv, NEW n \in Sessions
  PROVE  LET s == sess[n]
         IN  /\ Formed(store, s)
             /\ DOMAIN s = {"client", "what", "head", "token", "at", "wire", "open", "reply", "frames", "told", "torn", "alone"}
             /\ s.at = "served" => Holds(change, store[Hub], s.head)
             /\ s.head \subseteq Numbers
             /\ Untorn /\ Undisturbed => InOrder(s) /\ Carried(change, store[Hub], s) /\ Known(change, store[Hub], s)
  <1>1. Formed(store, sess[n]) /\ (sess[n].at = "served" => Holds(change, store[Hub], sess[n].head))
    BY DEF NativeInv
  <1>2. sess[n].head \subseteq Numbers
    <2>1. \A c \in Clients : store[c] \subseteq Numbers
      BY NativeFacts DEF NativeInv
    <2> QED
      BY <1>1, <2>1 DEF Formed
  <1> QED
    BY <1>1, <1>2 DEF Formed, Undisturbed

\* A session begins to be served.
LEMMA AcceptSound ==
  ASSUME NativeInv, NEW n \in Sessions, Accept(n)
  PROVE  NativeInv'
  <1> DEFINE s == sess[n]
             t == [s EXCEPT !.at = "hello"]
  <1>1. /\ Formed(store, s)
        /\ DOMAIN s = {"client", "what", "head", "token", "at", "wire", "open", "reply", "frames", "told", "torn", "alone"}
        /\ Untorn /\ Undisturbed => InOrder(s)
    BY SessionIs
  <1>2. sess' = [sess EXCEPT ![n] = t] /\ UNCHANGED <<change, store, view, proc>> /\ s.at = "queued"
    BY DEF Accept, Step, syncVars, stores
  <1>3. /\ DOMAIN t = DOMAIN s /\ t.client = s.client /\ t.what = s.what /\ t.head = s.head /\ t.at = "hello"
        /\ t.wire = s.wire /\ t.reply = s.reply /\ t.told = s.told
        /\ t.open = s.open /\ t.torn = s.torn /\ t.alone = s.alone
    BY <1>1
  <1> HIDE DEF t, s
  <1>4. Formed(store, t)
    BY <1>1, <1>2, <1>3 DEF Formed
  <1>5. Untorn /\ Undisturbed => Follows(change, store[Hub], s, t, {})
    BY <1>1, <1>2, <1>3 DEF Follows, InOrder, Carried, Known, InFlight, Ended, Hopes
  <1> QED
    BY <1>2, <1>3, <1>4, <1>5, QuietStep DEF s

\* A client alone with the server, whose heads are there: so is what they depend on.
LEMMA AloneIsKnown ==
  ASSUME NativeInv, Untorn, Undisturbed, NEW n \in Sessions, sess[n].what = "send", sess[n].alone, sess[n].open,
         sess[n].at = "hello", sess[n].head \subseteq store[Hub]
  PROVE  Holds(change, store[Hub], sess[n].head)
  <1> DEFINE c == sess[n].client
             C == store[Hub] \cap store[c]
  <1>1. Sessions = 1..Len(sess) /\ Len(sess) \in Nat
    BY NativeFacts DEF NativeInv
  <1>2. c \in Clients /\ sess[n].head \subseteq store[c]
    BY SessionIs DEF Formed
  <1>3. ASSUME NEW m \in Sessions, sess[m].client = c PROVE InFlight(sess[m]) = {}
    <2>1. m <= n
      BY <1>3 DEF Undisturbed
    <2>2. CASE m = n
      BY <2>2 DEF InFlight
    <2>3. CASE m # n
      <3>1. m \in 1..(n - 1)
        BY <1>1, <2>1, <2>3
      <3>2. Ended(sess[m])
        BY <3>1 DEF Undisturbed
      <3> QED
        BY <3>2 DEF Ended, InFlight
    <2> QED
      BY <2>2, <2>3
  <1>4. ASSUME NEW x \in C PROVE change[x].deps \subseteq C
    <2>1. change[x].deps \subseteq store[c]
      BY <1>2 DEF NativeInv, OwnStores
    <2>2. \A y \in change[x].deps : y \in store[Hub] \/ \E m \in Sessions : sess[m].client = c /\ y \in InFlight(sess[m])
      BY <1>2 DEF Undisturbed
    <2> QED
      BY <1>3, <2>1, <2>2
  <1>5. C \in SUBSET store[Hub] /\ sess[n].head \subseteq C
    BY <1>2
  <1> QED
    BY <1>4, <1>5 DEF Holds

\* handle_connection answers: refused, nothing is required, or the heads are.
LEMMA HelloSound ==
  ASSUME NativeInv, NEW n \in Sessions, Hello(n)
  PROVE  NativeInv'
  <1> DEFINE s == sess[n]
             ok == status(n) = 0
             required == IF ok THEN compute_required_hashes(s.head) ELSE {}
             reply == [status |-> status(n), required |-> required, frontier |-> compute_local_frontier]
             next == CASE ~ok -> "refused" [] ok /\ required # {} -> "ingest" [] OTHER -> "wants"
             told == [s EXCEPT !.at = next, !.reply = reply]
             left == [s EXCEPT !.at = "failed"]
  <1>1. /\ Formed(store, s)
        /\ DOMAIN s = {"client", "what", "head", "token", "at", "wire", "open", "reply", "frames", "told", "torn", "alone"}
        /\ Untorn /\ Undisturbed => InOrder(s)
    BY SessionIs
  <1>2. /\ UNCHANGED <<change, store, view, proc>> /\ s.at = "hello"
        /\ \/ sess' = [sess EXCEPT ![n] = told]
           \/ ~s.open /\ sess' = [sess EXCEPT ![n] = left]
    BY DEF Hello, Step, syncVars, stores
  <1>3. CASE ~s.open /\ sess' = [sess EXCEPT ![n] = left]
    <2>1. /\ DOMAIN left = DOMAIN s /\ left.client = s.client /\ left.what = s.what /\ left.head = s.head
          /\ left.at = "failed" /\ left.wire = s.wire /\ left.reply = s.reply /\ left.told = s.told
          /\ left.open = s.open /\ left.torn = s.torn /\ left.alone = s.alone
      BY <1>1
    <2> HIDE DEF left, s
    <2>2. Formed(store, left)
      BY <1>1, <2>1 DEF Formed
    <2>3. Untorn /\ Undisturbed => Follows(change, store[Hub], s, left, {})
      BY <1>1, <1>2, <1>3, <2>1 DEF Follows, InOrder, Carried, Known, InFlight, Ended, Hopes
    <2> QED
      BY <1>2, <1>3, <2>1, <2>2, <2>3, QuietStep DEF s
  <1>4. CASE sess' = [sess EXCEPT ![n] = told]
    <2>1. /\ DOMAIN told = DOMAIN s /\ told.client = s.client /\ told.what = s.what /\ told.head = s.head
          /\ told.at = next /\ told.wire = s.wire /\ told.reply = reply /\ told.told = s.told
          /\ told.open = s.open /\ told.torn = s.torn /\ told.alone = s.alone
      BY <1>1
    <2>2. reply.status = status(n) /\ reply.required = required
      OBVIOUS
    <2>3. \/ next = "refused" /\ reply.status # 0
          \/ next = "ingest" /\ reply.status = 0 /\ required # {} /\ required = s.head \ store[Hub]
          \/ next = "wants" /\ reply.status = 0 /\ required = {} /\ s.head \subseteq store[Hub]
      BY DEF compute_required_hashes
    <2>4. s.what = "send" /\ s.alone /\ s.open /\ s.head \subseteq store[Hub] /\ Untorn /\ Undisturbed =>
            Holds(change, store[Hub], s.head)
      BY <1>2, AloneIsKnown
    <2> HIDE DEF told, s, reply, required, next
    <2>5. s.what # "send" => s.head = {}
      BY <1>1 DEF Formed
    <2>6. next = "ingest" => s.what = "send"
      BY <2>3, <2>5
    <2>7. next \in {"refused", "ingest", "wants"}
      BY <2>3
    <2>8. Formed(store, told)
      BY <1>1, <2>1, <2>6, <2>7 DEF Formed
    <2>9. ASSUME Untorn, Undisturbed PROVE Follows(change, store[Hub], s, told, {})
      <3>1. CASE s.what # "send"
        BY <1>1, <1>2, <2>1, <3>1, NotSending DEF Ended
      <3>2. CASE s.what = "send"
        <4>1. InOrder(s) /\ s.wire = <<>> /\ s.told # "ok"
          BY <1>1, <1>2, <2>9, <3>2 DEF InOrder
        <4>2. next = "ingest" => required = s.head /\ s.head # {}
          BY <1>1, <2>3, <3>2 DEF Formed
        <4>3. InOrder(told)
          BY <1>1, <1>2, <2>1, <2>2, <2>3, <4>1, <4>2 DEF InOrder, Hopes
        <4>4. Carried(change, store[Hub], told)
          BY <2>1, <4>1 DEF Carried
        <4>5. Known(change, store[Hub], told)
          BY <2>1, <2>2, <2>3, <2>4, <2>9, <3>2, <4>1, <4>2 DEF Known, Hopes
        <4> QED
          BY <1>2, <4>3, <4>4, <4>5 DEF Follows, Ended, InFlight
      <3> QED
        BY <3>1, <3>2
    <2>10. told.at = "served" => Holds(change, store[Hub], told.head)
      BY <2>1, <2>7
    <2> QED
      BY <1>2, <1>4, <2>1, <2>8, <2>9, <2>10, QuietStep DEF s
  <1> QED
    BY <1>2, <1>3, <1>4

\* Who sends heads asks for no blocks.
LEMMA WantsSound ==
  ASSUME NativeInv, NEW n \in Sessions, Wants(n)
  PROVE  NativeInv'
  <1> DEFINE s == sess[n]
  <1>1. /\ Formed(store, s)
        /\ DOMAIN s = {"client", "what", "head", "token", "at", "wire", "open", "reply", "frames", "told", "torn", "alone"}
        /\ Untorn /\ Undisturbed => InOrder(s) /\ Carried(change, store[Hub], s) /\ Known(change, store[Hub], s)
    BY SessionIs
  <1>2. UNCHANGED <<change, store, view, proc>> /\ s.at = "wants"
    BY DEF Wants, syncVars, stores
  <1>3. PICK t : /\ sess' = [sess EXCEPT ![n] = t]
                 /\ DOMAIN t = DOMAIN s /\ t.client = s.client /\ t.what = s.what /\ t.head = s.head
                 /\ t.open = s.open /\ t.torn = s.torn /\ t.alone = s.alone /\ t.told = s.told
                 /\ t.wire = s.wire \/ t.wire = <<>>
                 /\ t.at \in {"persist", "failed"}
                 /\ s.wire = <<>> => t.at = "persist" /\ t.reply = s.reply
    <2>1. CASE s.wire = <<>>
      <3> DEFINE t == [s EXCEPT !.at = "persist"]
      <3>1. sess' = [sess EXCEPT ![n] = t]
        BY <2>1 DEF Wants, Step
      <3>2. /\ DOMAIN t = DOMAIN s /\ t.client = s.client /\ t.what = s.what /\ t.head = s.head
            /\ t.open = s.open /\ t.torn = s.torn /\ t.alone = s.alone /\ t.told = s.told
            /\ t.wire = s.wire /\ t.at = "persist" /\ t.reply = s.reply
        BY <1>1
      <3> HIDE DEF t
      <3> QED
        BY <2>1, <3>1, <3>2
    <2>2. CASE s.wire # <<>>
      <3> DEFINE w == Head(s.wire).want
                 t == [s EXCEPT !.at = "persist", !.wire = <<>>, !.reply = [blocks |-> w] @@ s.reply]
                 u == [s EXCEPT !.at = "failed"]
      <3>1. sess' = [sess EXCEPT ![n] = t] \/ sess' = [sess EXCEPT ![n] = u]
        BY <2>2 DEF Wants, Step
      <3>2. /\ DOMAIN t = DOMAIN s /\ t.client = s.client /\ t.what = s.what /\ t.head = s.head
            /\ t.open = s.open /\ t.torn = s.torn /\ t.alone = s.alone /\ t.told = s.told
            /\ t.wire = <<>> /\ t.at = "persist"
        BY <1>1
      <3>3. /\ DOMAIN u = DOMAIN s /\ u.client = s.client /\ u.what = s.what /\ u.head = s.head
            /\ u.open = s.open /\ u.torn = s.torn /\ u.alone = s.alone /\ u.told = s.told
            /\ u.wire = s.wire /\ u.at = "failed"
        BY <1>1
      <3> HIDE DEF t, u
      <3> QED
        BY <2>2, <3>1, <3>2, <3>3
    <2> QED
      BY <2>1, <2>2
  <1> HIDE DEF s
  <1>4. Streamed(store[s.client], <<>>)
    BY DEF Streamed
  <1>5. Formed(store, t)
    <2>1. CASE s.what = "send"
      BY <1>1, <1>3, <1>4, <2>1 DEF Formed
    <2>2. CASE s.what # "send"
      BY <1>1, <1>3, <2>2 DEF Formed
    <2> QED
      BY <2>1, <2>2
  <1>6. ASSUME Untorn, Undisturbed PROVE Follows(change, store[Hub], s, t, {})
    <2>1. CASE s.what # "send"
      BY <1>1, <1>2, <1>3, <2>1, NotSending DEF Ended
    <2>2. CASE s.what = "send"
      <3>1. InOrder(s) /\ Carried(change, store[Hub], s) /\ Known(change, store[Hub], s)
        BY <1>1, <1>6
      <3>2. s.wire = <<>> /\ t.wire = <<>> /\ t.at = "persist" /\ t.reply = s.reply
        BY <1>2, <1>3, <2>2, <3>1 DEF InOrder
      <3>3. InFlight(s) = {} /\ InFlight(t) = {} /\ ~Ended(s)
        BY <1>2, <3>2 DEF InFlight, Ended
      <3>4. InOrder(t)
        BY <1>2, <1>3, <2>2, <3>1, <3>2 DEF InOrder, Hopes
      <3>5. Carried(change, store[Hub], t)
        BY <1>3, <3>1, <3>2, <3>3 DEF Carried
      <3>6. Known(change, store[Hub], t)
        BY <1>2, <1>3, <3>1, <3>2 DEF Known, Hopes
      <3> QED
        BY <3>3, <3>4, <3>5, <3>6 DEF Follows
    <2> QED
      BY <2>1, <2>2
  <1> QED
    BY <1>2, <1>3, <1>5, <1>6, QuietStep DEF s

\* A session that is cut off, and whose client may notice.
LEMMA CutOffSound ==
  ASSUME NativeInv, NEW n \in Sessions, NEW t, sess' = [sess EXCEPT ![n] = t], UNCHANGED <<change, store, view>>,
         Formed(store, t), t.torn, t.at # "served",
         t.client = sess[n].client, t.what = sess[n].what, t.alone = sess[n].alone,
         \/ t.open = sess[n].open /\ proc' = proc
         \/ ~t.open /\ sess[n].open /\ proc' = [proc EXCEPT ![sess[n].client] = Idle]
  PROVE  NativeInv'
  <1> DEFINE X == {}
  <1>1. store \in [Repos -> SUBSET Ids] /\ view \in [Repos -> SUBSET Ids]
    BY DEF NativeInv, NativeTyped
  <1>2. X \subseteq store[sess[n].client] /\ Becomes(n, t, X)
    BY <1>1 DEF Becomes, Ids
  <1> HIDE DEF X
  <1>3. Untorn /\ Undisturbed /\ ~t.torn => Follows(change, store[Hub] \cup X, sess[n], t, X)
    OBVIOUS
  <1> QED
    BY <1>2, <1>3, StepOfOne

\* What is taken from the wire of a session that ingests.
LEMMA FrameIs ==
  ASSUME NativeInv, NEW n \in Sessions, sess[n].at = "ingest", sess[n].wire # <<>>
  PROVE  LET s == sess[n]
             rest == Tail(s.wire)
         IN  /\ s.what = "send" /\ s.client \in Clients
             /\ Streamed(store[s.client], rest)
             /\ Head(s.wire) # Eof => Head(s.wire) \in store[s.client]
             /\ Head(s.wire) = Eof => rest = <<>> /\ ToSet(s.wire) = {Eof}
             /\ ToSet(s.wire) = {Head(s.wire)} \cup ToSet(rest)
             /\ ~s.open
  <1> DEFINE s == sess[n]
             w == s.wire
             rest == Tail(w)
             own == store[s.client]
  <1>1. s.what = "send" /\ s.client \in Clients /\ Streamed(own, w) /\ (s.open => w = <<>>) /\ s.open \in BOOLEAN
    BY SessionIs DEF Formed
  <1>2. w # <<>> /\ w \in Seq(own \cup {Eof}) /\ \A i \in 1..Len(w) : w[i] = Eof => i = Len(w)
    BY <1>1 DEF Streamed
  <1> HIDE DEF s, w, own
  <1>3. /\ Head(w) = w[1] /\ Len(w) \in Nat \ {0} /\ Head(w) \in ToSet(w) /\ ToSet(w) \subseteq own \cup {Eof}
        /\ rest \in Seq(own \cup {Eof})
        /\ ToSet(w) = {Head(w)} \cup ToSet(rest)
    BY <1>2, MembersOf
  <1>4. Len(rest) = Len(w) - 1 /\ \A i \in 1..Len(rest) : rest[i] = w[i + 1]
    BY <1>2, HeadTailProperties
  <1> HIDE DEF rest
  <1>5. Streamed(own, rest)
    <2>1. ASSUME NEW i \in 1..Len(rest), rest[i] = Eof PROVE i = Len(rest)
      <3>1. i + 1 \in 1..Len(w) /\ w[i + 1] = Eof
        BY <1>3, <1>4, <2>1
      <3> QED
        BY <1>2, <1>3, <1>4, <3>1
    <2> QED
      BY <1>3, <2>1 DEF Streamed
  <1>6. ASSUME Head(w) = Eof PROVE rest = <<>> /\ ToSet(w) = {Eof}
    <2>1. Len(w) = 1
      <3>1. w[1] = Eof /\ 1 \in 1..Len(w)
        BY <1>3, <1>6
      <3> QED
        BY <1>2, <3>1
    <2>2. rest = <<>>
      BY <1>3, <1>4, <2>1
    <2> QED
      BY <1>3, <1>6, <2>2 DEF ToSet
  <1> QED
    BY <1>1, <1>2, <1>3, <1>5, <1>6 DEF s, w, own, rest

\* ingest_payload_stream: the end, a change that joins the hub's, or one too many.
LEMMA IngestSound ==
  ASSUME NativeInv, NEW n \in Sessions, Ingest(n)
  PROVE  NativeInv'
  <1> DEFINE s == sess[n]
             frame == Head(s.wire)
             rest == Tail(s.wire)
             hub == store[Hub]
             taken == IF s.reply.required \subseteq hub THEN "wants" ELSE "failed"
  <1>1. /\ Formed(store, s)
        /\ DOMAIN s = {"client", "what", "head", "token", "at", "wire", "open", "reply", "frames", "told", "torn", "alone"}
        /\ Untorn /\ Undisturbed => InOrder(s) /\ Carried(change, hub, s) /\ Known(change, hub, s)
    BY SessionIs
  <1>2. s.at = "ingest" /\ s.wire # <<>> /\ UNCHANGED <<change, view, proc>>
    BY DEF Ingest
  <1>3. /\ s.what = "send" /\ s.client \in Clients
        /\ Streamed(store[s.client], rest)
        /\ frame # Eof => frame \in store[s.client]
        /\ frame = Eof => rest = <<>> /\ ToSet(s.wire) = {Eof}
        /\ ToSet(s.wire) = {frame} \cup ToSet(rest)
        /\ ~s.open
    BY <1>2, FrameIs
  <1>4. CASE frame = Eof
    <2> DEFINE t == [s EXCEPT !.wire = rest, !.at = taken]
    <2>1. sess' = [sess EXCEPT ![n] = t] /\ store' = store
      BY <1>4 DEF Ingest
    <2>2. /\ DOMAIN t = DOMAIN s /\ t.client = s.client /\ t.what = s.what /\ t.head = s.head
          /\ t.at = taken /\ t.wire = rest /\ t.reply = s.reply /\ t.told = s.told
          /\ t.open = s.open /\ t.torn = s.torn /\ t.alone = s.alone
      BY <1>1
    <2>3. \/ taken = "wants" /\ s.reply.required \subseteq hub
          \/ taken = "failed" /\ ~(s.reply.required \subseteq hub)
      OBVIOUS
    <2>4. rest = <<>>
      BY <1>3, <1>4
    <2>5. InFlight(s) = {}
      BY <1>3, <1>4 DEF InFlight
    <2> HIDE DEF t, s, taken, hub, rest
    <2>6. Formed(store, t)
      BY <1>1, <1>3, <2>2, <2>3 DEF Formed
    <2>7. ASSUME Untorn, Undisturbed PROVE Follows(change, hub, s, t, {})
      <3>1. InOrder(s) /\ Carried(change, hub, s) /\ Known(change, hub, s)
        BY <1>1, <2>7
      <3>2. s.reply.status = 0 /\ s.reply.required = s.head /\ s.head # {}
        BY <1>2, <1>3, <3>1 DEF InOrder
      <3>3. InFlight(t) = {}
        BY <2>2, <2>3 DEF InFlight
      <3>4. InOrder(t)
        BY <1>2, <1>3, <2>2, <2>3, <2>4, <3>1, <3>2 DEF InOrder, Hopes
      <3>5. Carried(change, hub, t)
        <4> SUFFICES ASSUME s.told = "ok"
                     PROVE  /\ t.at = "wants"
                            /\ \E C \in SUBSET hub : s.head \subseteq C /\ \A x \in C : change[x].deps \subseteq C
          BY <2>2, <3>3 DEF Carried
        <4>1. PICK C \in SUBSET hub : s.head \subseteq C /\ \A x \in C : change[x].deps \subseteq C
          BY <1>3, <2>5, <3>1, <3>2 DEF Carried
        <4> QED
          BY <2>2, <2>3, <3>2, <4>1
      <3>6. Known(change, hub, t)
        BY <2>2, <3>2 DEF Known
      <3>7. ~Ended(s)
        BY <1>2 DEF Ended
      <3> QED
        BY <2>5, <3>4, <3>5, <3>6, <3>7 DEF Follows
    <2>8. t.at # "served"
      BY <2>2, <2>3
    <2> QED
      BY <1>2, <2>1, <2>2, <2>6, <2>7, <2>8, QuietStep DEF s, hub
  <1>5. CASE frame # Eof /\ s.frames < MaxFrames
    <2> DEFINE X == {frame}
               more == hub \cup X
               t == [s EXCEPT !.wire = rest, !.frames = s.frames + 1]
    <2>1. sess' = [sess EXCEPT ![n] = t] /\ store' = [store EXCEPT ![Hub] = @ \cup X]
      <3>1. /\ sess' = [[sess EXCEPT ![n].wire = Tail(@)] EXCEPT ![n].frames = @ + 1]
            /\ store' = [store EXCEPT ![Hub] = @ \cup {frame}]
        BY <1>5 DEF Ingest
      <3>2. [sess EXCEPT ![n].wire = Tail(@)][n].frames = s.frames
        BY <1>1
      <3> QED
        BY <3>1, <3>2
    <2>2. /\ DOMAIN t = DOMAIN s /\ t.client = s.client /\ t.what = s.what /\ t.head = s.head
          /\ t.at = s.at /\ t.wire = rest /\ t.reply = s.reply /\ t.told = s.told
          /\ t.open = s.open /\ t.torn = s.torn /\ t.alone = s.alone
      BY <1>1
    <2>3. X \subseteq store[s.client]
      BY <1>3, <1>5
    <2>4. InFlight(s) = X \cup InFlight(t)
      BY <1>2, <1>3, <1>5, <2>2 DEF InFlight
    <2> HIDE DEF t, s, hub, rest, X, frame
    <2>5. Formed(store, t)
      BY <1>1, <1>3, <2>2 DEF Formed
    <2>6. ASSUME Untorn, Undisturbed PROVE Follows(change, more, s, t, X)
      <3>1. InOrder(s) /\ Carried(change, hub, s) /\ Known(change, hub, s)
        BY <1>1, <2>6
      <3>2. s.reply.status = 0 /\ s.reply.required = s.head /\ s.head # {} /\ s.told = "ok"
        BY <1>2, <1>3, <3>1 DEF InOrder
      <3>3. InOrder(t)
        BY <1>2, <1>3, <2>2, <3>1, <3>2 DEF InOrder, Hopes
      <3>4. PICK C \in SUBSET (hub \cup InFlight(s)) :
              s.head \cup InFlight(s) \subseteq C /\ \A x \in C : change[x].deps \subseteq C
        BY <1>3, <3>1, <3>2 DEF Carried
      <3>5. C \in SUBSET (more \cup InFlight(t)) /\ s.head \cup InFlight(t) \subseteq C /\ X \subseteq C
        BY <2>4, <3>4
      <3>6. Carried(change, more, t)
        BY <1>2, <2>2, <3>4, <3>5 DEF Carried
      <3>7. Known(change, more, t)
        BY <2>2, <3>2 DEF Known
      <3>8. \A x \in X : change[x].deps \subseteq more \cup InFlight(t)
        BY <3>4, <3>5
      <3> QED
        BY <2>2, <2>4, <3>3, <3>6, <3>7, <3>8 DEF Follows, Ended
    <2>7. t.at # "served"
      BY <1>2, <2>2
    <2>8. view \in [Repos -> SUBSET Ids]
      BY DEF NativeInv, NativeTyped
    <2>9. Becomes(n, t, X)
      BY <1>2, <2>1, <2>2, <2>8 DEF Becomes, s, Ids
    <2> QED
      BY <2>2, <2>3, <2>5, <2>6, <2>7, <2>9, StepOfOne DEF s, hub
  <1>6. CASE frame # Eof /\ ~(s.frames < MaxFrames)
    <2> DEFINE t == [s EXCEPT !.wire = rest, !.at = "failed", !.torn = TRUE]
    <2>1. sess' = [sess EXCEPT ![n] = t] /\ store' = store
      BY <1>6 DEF Ingest
    <2>2. /\ DOMAIN t = DOMAIN s /\ t.client = s.client /\ t.what = s.what /\ t.head = s.head
          /\ t.at = "failed" /\ t.wire = rest /\ t.open = s.open /\ t.torn = TRUE /\ t.alone = s.alone
      BY <1>1
    <2> HIDE DEF t, s, rest
    <2>3. Formed(store, t)
      BY <1>1, <1>3, <2>2 DEF Formed
    <2> QED
      BY <1>2, <2>1, <2>2, <2>3, CutOffSound DEF s
  <1> QED
    BY <1>4, <1>5, <1>6

\* The stream stops before its end.
LEMMA IngestFailsSound ==
  ASSUME NativeInv, NEW n \in Sessions, IngestFails(n)
  PROVE  NativeInv'
  <1> DEFINE s == sess[n]
             t == [s EXCEPT !.at = "failed", !.torn = TRUE]
  <1>1. /\ Formed(store, s)
        /\ DOMAIN s = {"client", "what", "head", "token", "at", "wire", "open", "reply", "frames", "told", "torn", "alone"}
    BY SessionIs
  <1>2. sess' = [sess EXCEPT ![n] = t] /\ UNCHANGED <<change, store, view, proc>>
    BY DEF IngestFails, syncVars, stores
  <1>3. /\ DOMAIN t = DOMAIN s /\ t.client = s.client /\ t.what = s.what /\ t.head = s.head
        /\ t.at = "failed" /\ t.wire = s.wire /\ t.open = s.open /\ t.torn = TRUE /\ t.alone = s.alone
    BY <1>1
  <1> HIDE DEF t, s
  <1>4. Formed(store, t)
    BY <1>1, <1>3 DEF Formed
  <1> QED
    BY <1>2, <1>3, <1>4, CutOffSound DEF s

\* persist_view_heads: the check finds what was carried, and what was known.
LEMMA PersistHeadsSound ==
  ASSUME NativeInv, NEW n \in Sessions, PersistHeads(n)
  PROVE  NativeInv'
  <1> DEFINE s == sess[n]
             hub == store[Hub]
             end == IF ensure_dependency_closure_present(s.head) THEN "served" ELSE "failed"
             t == [s EXCEPT !.at = end]
             X == {}
  <1>1. /\ Formed(store, s)
        /\ DOMAIN s = {"client", "what", "head", "token", "at", "wire", "open", "reply", "frames", "told", "torn", "alone"}
        /\ s.head \subseteq Numbers
        /\ Untorn /\ Undisturbed => InOrder(s) /\ Carried(change, hub, s) /\ Known(change, hub, s)
    BY SessionIs
  <1>2. /\ s.at = "persist" /\ UNCHANGED <<change, store, proc>> /\ sess' = [sess EXCEPT ![n] = t]
        /\ view' \in {view, [view EXCEPT ![Hub] = s.head]}
    BY DEF PersistHeads, Step
  <1>3. Contents(change) /\ store \in [Repos -> SUBSET Ids] /\ view \in [Repos -> SUBSET Ids]
        /\ Hub \in Repos /\ Hub \notin Clients /\ Clients \subseteq Repos /\ hub \subseteq DOMAIN change
        /\ \A c \in Clients : store[c] \subseteq Ids
    BY NativeFacts DEF NativeInv, NativeTyped, Ids
  <1>4. \/ end = "served" /\ Holds(change, hub, s.head)
        \/ end = "failed" /\ ~Holds(change, hub, s.head)
    <2>1. ensure_dependency_closure_present(s.head) <=> Reached(s.head, [x \in hub |-> change[x].deps]) \subseteq hub
      BY DEF ensure_dependency_closure_present, ancestors
    <2> DEFINE hs == s.head
    <2>2. hs \subseteq Numbers
      BY <1>1
    <2> HIDE DEF hs, hub
    <2>3. Holds(change, hub, hs) <=> Reached(hs, [x \in hub |-> change[x].deps]) \subseteq hub
      BY <1>3, <2>2, HoldsIsClosed
    <2> QED
      BY <2>1, <2>3 DEF hs, hub
  <1>5. /\ DOMAIN t = DOMAIN s /\ t.client = s.client /\ t.what = s.what /\ t.head = s.head
        /\ t.at = end /\ t.wire = s.wire /\ t.reply = s.reply /\ t.told = s.told
        /\ t.open = s.open /\ t.torn = s.torn /\ t.alone = s.alone
    BY <1>1
  <1>6. view' \in [Repos -> SUBSET Ids] /\ \A c \in Clients : view'[c] = view[c]
    <2>1. s.head \subseteq Ids
      BY <1>1, <1>3 DEF Formed
    <2>2. [view EXCEPT ![Hub] = s.head] \in [Repos -> SUBSET Ids]
      BY <1>3, <2>1
    <2> QED
      BY <1>2, <1>3, <2>2
  <1>7. Becomes(n, t, X) /\ hub \cup X = hub /\ X \subseteq store[s.client]
    BY <1>2, <1>3, <1>5, <1>6 DEF Becomes, Ids
  <1> HIDE DEF t, s, end, X, hub
  <1>8. Formed(store, t)
    BY <1>1, <1>4, <1>5 DEF Formed
  <1>9. t.at = "served" => Holds(change, hub, t.head)
    BY <1>4, <1>5
  <1>10. ASSUME Untorn, Undisturbed PROVE Follows(change, hub, s, t, X)
    <2>1. InOrder(s) /\ Carried(change, hub, s) /\ Known(change, hub, s)
      BY <1>1, <1>10
    <2>2. InFlight(s) = {} /\ InFlight(t) = {} /\ ~Ended(s) /\ \A x \in X : FALSE
      BY <1>2, <1>4, <1>5 DEF InFlight, Ended, X
    <2>3. s.what = "send" /\ s.told = "ok" /\ s.reply.required # {} => Holds(change, hub, s.head)
      BY <2>1, <2>2 DEF Carried, Holds
    <2>4. s.what = "send" /\ s.alone /\ Hopes(s) /\ s.reply.required = {} => Holds(change, hub, s.head)
      BY <1>2, <2>1 DEF Known
    <2>5. InOrder(t)
      <3> SUFFICES ASSUME s.what = "send" PROVE InOrder(t)
        BY <1>5 DEF InOrder
      <3>1. s.open /\ s.reply # None /\ s.reply.status = 0 => s.reply.required = {}
        BY <1>2, <2>1 DEF InOrder
      <3> QED
        BY <1>2, <1>4, <1>5, <2>1, <3>1 DEF InOrder, Hopes
    <2>6. Carried(change, hub, t)
      <3> SUFFICES ASSUME s.what = "send", s.told = "ok", s.reply.required # {}
                   PROVE  end = "served" /\ \E C \in SUBSET hub : s.head \subseteq C /\ \A x \in C : change[x].deps \subseteq C
        BY <1>5, <2>2 DEF Carried
      <3> QED
        BY <1>4, <2>3 DEF Holds
    <2>7. Known(change, hub, t)
      BY <1>4, <1>5, <2>4 DEF Known, Hopes
    <2> QED
      BY <2>2, <2>5, <2>6, <2>7 DEF Follows
  <1> QED
    BY <1>5, <1>7, <1>8, <1>9, <1>10, StepOfOne DEF s, hub

\* A prefix of what was sent arrives.
LEMMA LoseSound ==
  ASSUME NativeInv, NEW n \in Sessions, Lose(n)
  PROVE  NativeInv'
  <1> DEFINE s == sess[n]
             told == IF s.open THEN "failed" ELSE s.told
  <1>1. /\ Formed(store, s)
        /\ DOMAIN s = {"client", "what", "head", "token", "at", "wire", "open", "reply", "frames", "told", "torn", "alone"}
    BY SessionIs
  <1>2. PICK k \in 0..Len(s.wire) :
          sess' = [sess EXCEPT ![n].wire = SubSeq(@, 1, k), ![n].open = FALSE, ![n].torn = TRUE, ![n].told = told]
    BY DEF Lose
  <1> DEFINE t == [s EXCEPT !.wire = SubSeq(s.wire, 1, k), !.open = FALSE, !.torn = TRUE, !.told = told]
  <1>3. sess' = [sess EXCEPT ![n] = t]
    BY <1>2
  <1>4. /\ DOMAIN t = DOMAIN s /\ t.client = s.client /\ t.what = s.what /\ t.head = s.head
        /\ t.at = s.at /\ t.wire = SubSeq(s.wire, 1, k) /\ t.open = FALSE /\ t.torn = TRUE /\ t.alone = s.alone
    BY <1>1
  <1>5. /\ UNCHANGED <<change, store, view>> /\ s.at # "served"
        /\ \/ s.open /\ proc' = [proc EXCEPT ![s.client] = Idle]
           \/ ~s.open /\ proc' = proc
    BY DEF Lose, End, stores, Over
  <1> HIDE DEF t, s
  <1>6. s.what = "send" => Streamed(store[s.client], SubSeq(s.wire, 1, k))
    <2> SUFFICES ASSUME s.what = "send" PROVE Streamed(store[s.client], SubSeq(s.wire, 1, k))
      OBVIOUS
    <2> DEFINE w == s.wire
               S == store[s.client] \cup {Eof}
               p == SubSeq(w, 1, k)
    <2>1. w \in Seq(S) /\ \A i \in 1..Len(w) : w[i] = Eof => i = Len(w)
      BY <1>1 DEF Formed, Streamed
    <2>2. k \in 0..Len(w)
      OBVIOUS
    <2> HIDE DEF w, S
    <2>3. p \in Seq(S) /\ Len(p) = k /\ \A i \in 1..k : p[i] = w[i]
      BY <2>1, <2>2, SubSeqProperties
    <2>4. ASSUME NEW i \in 1..Len(p), p[i] = Eof PROVE i = Len(p)
      BY <2>1, <2>2, <2>3, <2>4
    <2> QED
      BY <2>3, <2>4 DEF Streamed, w, S
  <1>7. Formed(store, t)
    BY <1>1, <1>4, <1>6 DEF Formed
  <1>8. \/ t.open = s.open /\ proc' = proc
        \/ ~t.open /\ s.open /\ proc' = [proc EXCEPT ![s.client] = Idle]
    BY <1>1, <1>4, <1>5 DEF Formed
  <1> QED
    BY <1>3, <1>4, <1>5, <1>7, <1>8, CutOffSound DEF s

\* The server is restarted: what was not over is cut off.
LEMMA RestartSound ==
  ASSUME NativeInv, Restart
  PROVE  NativeInv'
  <1> DEFINE k == Len(sess)
             new == sess'
             cut(n) == [sess[n] EXCEPT !.at = "failed", !.wire = <<>>, !.torn = TRUE,
                                       !.told = IF @ = None THEN "failed" ELSE @]
  <1>1. Sessions = 1..k /\ k \in Nat
    BY NativeFacts DEF NativeInv
  <1>2. /\ new = [n \in 1..k |-> IF ~Over(n) THEN cut(n) ELSE sess[n]]
        /\ \E n \in 1..k : ~Over(n)
        /\ UNCHANGED <<change, store, view>>
        /\ proc' = [c \in Clients |-> IF proc[c].at = "native" /\ new[proc[c].session].torn THEN Idle ELSE proc[c]]
    BY <1>1 DEF Restart, Running, stores
  <1> HIDE DEF new, k, cut
  <1>3. new = [n \in 1..k |-> new[n]] /\ DOMAIN new = 1..k
    BY <1>2
  <1>4. ASSUME NEW n \in 1..k
        PROVE  /\ new[n].client = sess[n].client /\ new[n].what = sess[n].what /\ new[n].open = sess[n].open
               /\ Over(n) => new[n] = sess[n]
               /\ ~Over(n) => new[n].torn /\ new[n].at = "failed"
               /\ Formed(store, new[n])
    <2> DEFINE s == sess[n]
               t == new[n]
    <2>1. /\ Formed(store, s)
          /\ DOMAIN s = {"client", "what", "head", "token", "at", "wire", "open", "reply", "frames", "told", "torn", "alone"}
      BY <1>1, SessionIs
    <2>2. Over(n) => t = s
      BY <1>2
    <2>3. ~Over(n) => t = [s EXCEPT !.at = "failed", !.wire = <<>>, !.torn = TRUE,
                                    !.told = IF @ = None THEN "failed" ELSE @]
      BY <1>2 DEF cut
    <2> HIDE DEF s, t
    <2>4. Streamed(store[s.client], <<>>)
      BY DEF Streamed
    <2>5. ASSUME ~Over(n)
          PROVE  /\ DOMAIN t = DOMAIN s /\ t.client = s.client /\ t.what = s.what /\ t.head = s.head
                 /\ t.at = "failed" /\ t.wire = <<>> /\ t.open = s.open /\ t.torn = TRUE /\ t.alone = s.alone
      BY <2>1, <2>3, <2>5
    <2>6. ~Over(n) => Formed(store, t)
      BY <2>1, <2>4, <2>5 DEF Formed
    <2> QED
      BY <2>1, <2>2, <2>5, <2>6 DEF s, t
  <1>5. Sessions' = 1..k
    BY <1>3 DEF Sessions, new
  <1>6. NativeTyped'
    <2>1. new \in Seq({new[n] : n \in DOMAIN new})
      BY <1>1, <1>3, OfItsElements
    <2>2. DOMAIN proc' = Clients /\ proc' = [c \in Clients |-> proc'[c]]
      BY <1>2
    <2> QED
      BY <1>2, <2>1, <2>2 DEF NativeInv, NativeTyped, Sessions, Ids, new
  <1>7. OwnStores'
    BY <1>2 DEF NativeInv, OwnStores
  <1>8. ClientsAtSessions'
    <2> SUFFICES ASSUME NEW c \in Clients, proc'[c] # Idle
                 PROVE  /\ proc'[c].at = "native" /\ proc'[c].session \in 1..k
                        /\ new[proc'[c].session].client = c /\ new[proc'[c].session].open
                        /\ new[proc'[c].session].what = proc'[c].command
      BY <1>5 DEF ClientsAtSessions, new
    <2>1. proc'[c] = proc[c]
      BY <1>2
    <2>2. /\ proc[c].at = "native" /\ proc[c].session \in 1..k
          /\ sess[proc[c].session].client = c /\ sess[proc[c].session].open
          /\ sess[proc[c].session].what = proc[c].command
      BY <1>1, <2>1 DEF NativeInv, ClientsAtSessions
    <2> QED
      BY <1>4, <2>1, <2>2
  <1>9. ASSUME NEW n \in 1..k
        PROVE  Formed(store, new[n]) /\ (new[n].at = "served" => Holds(change, store[Hub], new[n].head))
    BY <1>1, <1>4, SessionIs
  <1>10. ~Untorn'
    BY <1>2, <1>4, <1>5 DEF Untorn, new
  <1> QED
    BY <1>2, <1>5, <1>6, <1>7, <1>8, <1>9, <1>10 DEF NativeInv, new

-----------------------------------------------------------------------------
\* At first there are no sessions.
LEMMA NativeStarts ==
  ASSUME NativeInit
  PROVE  NativeInv
  <1>1. /\ change = [x \in {} |-> {}] /\ Ids = {}
        /\ store = [r \in Repos |-> {}] /\ view = [r \in Repos |-> {}] /\ proc = [c \in Clients |-> Idle]
        /\ sess = <<>> /\ Sessions = {}
    BY DEF NativeInit, SyncInit, Ids, Sessions
  <1>2. Contents(change)
    BY StartsSound DEF NativeInit, IInv, Typed
  <1>3. Clients \subseteq Repos
    BY DEF Repos
  <1>4. NativeTyped
    <2>1. <<>> \in Seq({sess[n] : n \in Sessions})
      OBVIOUS
    <2> QED
      BY <1>1, <1>2, <2>1 DEF NativeTyped
  <1>5. OwnStores /\ ClientsAtSessions
    BY <1>1, <1>3 DEF OwnStores, ClientsAtSessions
  <1>6. Undisturbed
    BY <1>1 DEF Undisturbed, Repos
  <1> QED
    BY <1>1, <1>4, <1>5, <1>6 DEF NativeInv

\* Every step of a client, of the server and every loss preserves the invariant.
LEMMA NativeSteps ==
  ASSUME NativeInv, [NativeNext]_nativeVars
  PROVE  NativeInv'
  <1>1. CASE UNCHANGED nativeVars
    <2>1. UNCHANGED <<change, store, view, proc, sess>>
      BY <1>1 DEF nativeVars, syncVars, stores
    <2> QED
      BY <2>1 DEF NativeInv, NativeTyped, OwnStores, ClientsAtSessions, Untorn, Undisturbed, Ids, Sessions
  <1>2. ASSUME NEW c \in Clients,
               \/ Snap(c) /\ UNCHANGED sess
               \/ SendHeads(c) \/ Exchange(c) \/ Stream(c) \/ Compare(c) \/ Want(c) \/ Fetch(c) \/ GiveUp(c)
        PROVE  NativeInv'
    BY <1>2, NativeSnap, SendHeadsSound, ExchangeSound, StreamSound, CompareSound, WantSound, FetchSound, GiveUpSound
  <1>3. ASSUME NEW n \in Sessions,
               \/ Accept(n) \/ Hello(n) \/ Ingest(n) \/ IngestFails(n) \/ Wants(n) \/ PersistHeads(n) \/ Lose(n)
        PROVE  NativeInv'
    BY <1>3, AcceptSound, HelloSound, IngestSound, IngestFailsSound, WantsSound, PersistHeadsSound, LoseSound
  <1>4. CASE Restart
    BY <1>4, RestartSound
  <1> QED
    BY <1>1, <1>2, <1>3, <1>4 DEF NativeNext

\* persist_view_heads only saves heads whose history is there, whatever sessions were
\* cut off before; and a client that was told of success is served, unless sessions
\* were cut off or another was under way when it began (NativeSyncIsSound).
THEOREM NativeSyncAlwaysSound == NativeSpec => []NativeSyncIsSound
  <1>1. NativeInit => NativeInv
    BY NativeStarts
  <1>2. NativeInv /\ [NativeNext]_nativeVars => NativeInv'
    BY NativeSteps
  <1>3. ASSUME NativeInv PROVE NativeSyncIsSound
    <2>1. ASSUME NEW n \in Sessions, sess[n].at = "served"
          PROVE  ancestors(store[Hub], sess[n].head) \subseteq store[Hub]
      <3> DEFINE hs == sess[n].head
                 hub == store[Hub]
      <3>1. Holds(change, hub, hs) /\ hs \subseteq Numbers
        BY <1>3, <2>1, SessionIs
      <3>2. Contents(change) /\ hub \subseteq DOMAIN change
        BY <1>3, NativeFacts DEF NativeInv, NativeTyped, Ids
      <3> HIDE DEF hs, hub
      <3>3. Reached(hs, [x \in hub |-> change[x].deps]) \subseteq hub
        BY <3>1, <3>2, HoldsIsClosed
      <3> QED
        BY <3>3 DEF ancestors, hs, hub
    <2>2. ASSUME NEW n \in Sessions, sess[n].what = "send", sess[n].told = "ok", Over(n), sess[n].alone,
                 \A m \in Sessions : ~sess[m].torn
          PROVE  sess[n].at = "served"
      <3> DEFINE s == sess[n]
      <3>1. InOrder(s) /\ Carried(change, store[Hub], s) /\ Known(change, store[Hub], s)
        BY <1>3, <2>2 DEF NativeInv, Untorn, Undisturbed
      <3>2. s.what = "send" /\ s.told = "ok" /\ s.alone /\ s.at \in {"served", "refused", "failed"}
        BY <2>2 DEF Over
      <3> HIDE DEF s
      <3>3. s.at # "refused" /\ s.reply.status = 0
        BY <3>1, <3>2 DEF InOrder
      <3>4. s.at = "served"
        BY <3>1, <3>2, <3>3 DEF Carried, Known, Hopes
      <3> QED
        BY <3>4 DEF s
    <2> QED
      BY <2>1, <2>2 DEF NativeSyncIsSound, ServedHeadsAreClosed, SuccessIsServed
  <1> QED
    BY <1>1, <1>2, <1>3, PTL DEF NativeSpec
=============================================================================
