--------------------------- MODULE FireRetryProofs ---------------------------
(***************************************************************************)
(* What holds of the pool of pending commands for any igniters and zones,  *)
(* any number of attempts and any losses on the bus.                       *)
(***************************************************************************)
EXTENDS FireRetry, FiniteSetTheorems, WellFoundedInduction, TLAPS

Pool == [Slots -> {Free} \cup Item]

-----------------------------------------------------------------------------
(* Numbers: the least one of a set, and induction for a set. *)

LEMMA LeastNatural ==
    ASSUME NEW S, S \subseteq Nat, S # {}
    PROVE  \E n \in S : \A m \in S : n <= m
<1> DEFINE R == StrictSubsetOrdering(Nat)
           F == FiniteSubsetsOf(Nat)
           T == {1 .. n : n \in S}
<1>1. T # {}
  OBVIOUS
<1>2. T \subseteq F
  <2> SUFFICES ASSUME NEW n \in Nat PROVE 1 .. n \in F
    OBVIOUS
  <2>1. IsFiniteSet(1 .. n)
    BY FS_Interval
  <2> QED
    BY <2>1 DEF FiniteSubsetsOf
<1>3. IsWellFoundedOn(R, F)
  BY FS_StrictSubsetOrderingWellFounded
<1>4. \E x \in T : \A y \in T : <<y, x>> \notin R
  <2> HIDE DEF R, F, T
  <2> QED
    BY <1>1, <1>2, <1>3, WFMin
<1>5. PICK n \in S : \A m \in S : <<1 .. m, 1 .. n>> \notin R
  BY <1>4
<1>6. ASSUME NEW m \in S, m < n
      PROVE  <<1 .. m, 1 .. n>> \in R
  <2>1. 1 .. m \subseteq 1 .. n /\ n \in 1 .. n /\ n \notin 1 .. m
    BY <1>6
  <2> QED
    BY <2>1 DEF StrictSubsetOrdering
<1>7. \A m \in S : ~(m < n)
  <2> HIDE DEF R
  <2> QED
    BY <1>5, <1>6
<1>8. n \in Nat /\ \A m \in S : m \in Nat /\ n <= m
  BY <1>7
<1> QED
  BY <1>8

LEMMA SetInduction ==
    ASSUME NEW A, 0 \in A, \A n \in Nat : n \in A => n + 1 \in A
    PROVE  Nat \subseteq A
<1> SUFFICES ASSUME Nat \ A # {} PROVE FALSE
  OBVIOUS
<1>1. PICK n \in Nat \ A : \A m \in Nat \ A : n <= m
  BY LeastNatural
<1>2. n - 1 \in Nat /\ n - 1 \notin A
  BY <1>1
<1> QED
  BY <1>1, <1>2

LEMMA FirstOK ==
    ASSUME NEW S, S \subseteq Slots, S # {}
    PROVE  First(S) \in S
<1>1. S \subseteq Nat
  BY DEF Slots
<1>2. \E i \in S : \A j \in S : i <= j
  BY <1>1, LeastNatural
<1> QED
  BY <1>2 DEF First
-----------------------------------------------------------------------------
(* One command is queued (Fire_RetryFind, Fire_RetryAlloc). *)

LEMMA ItemFields ==
    ASSUME NEW p \in Pool, NEW i \in Slots
    PROVE  /\ p[i].used \in BOOLEAN
           /\ p[i].used => p[i] \in Item /\ CommandOf(p[i]) \in Command
           /\ ~p[i].used => p[i] = Free
<1>1. p[i] = Free \/ p[i] \in Item
  BY DEF Pool
<1>2. CASE p[i] = Free
  BY <1>2 DEF Free
<1>3. CASE p[i] \in Item
  BY <1>3 DEF Item, CommandOf, Command
<1> QED
  BY <1>1, <1>2, <1>3

\* What a command waiting in an item is.
LEMMA HoldsIsCommand ==
    ASSUME NEW p \in Pool, NEW i \in Slots, NEW c \in Command
    PROVE  Holds(p, i, c) <=> p[i].used /\ CommandOf(p[i]) = c
BY DEF Holds, CommandOf, Command

\* The command is kept unless the pool is full, nothing that was kept is lost,
\* and nothing is kept twice.
LEMMA QueueOK ==
    ASSUME NEW p \in Pool, NEW c \in Command
    PROVE  /\ Queue(p, c) \in Pool
           /\ Single(p) => Single(Queue(p, c))
           /\ Kept(p) \subseteq Kept(Queue(p, c))
           /\ Kept(Queue(p, c)) \subseteq Kept(p) \cup {c}
           /\ FreeSlots(p) # {} => c \in Kept(Queue(p, c))
<1> DEFINE item == [used |-> TRUE, kind |-> c.kind, addr |-> c.addr, attempts_sent |-> 1]
           q == Queue(p, c)
<1>1. item \in Item /\ CommandOf(item) = c /\ item.used = TRUE
  BY PoolAssumption DEF Item, Command, CommandOf
<1>2. \A i \in Matching(p, c) : i \in Slots /\ p[i].used /\ CommandOf(p[i]) = c
  BY HoldsIsCommand DEF Matching
<1>3. ASSUME Matching(p, c) = {}
      PROVE  c \notin Kept(p)
  BY <1>3, HoldsIsCommand DEF Matching, Kept
<1>4. CASE Matching(p, c) # {}
  <2> DEFINE i == First(Matching(p, c))
  <2>1. i \in Matching(p, c)
    BY <1>4, FirstOK DEF Matching
  <2>2. i \in Slots /\ p[i].used /\ CommandOf(p[i]) = c
    BY <1>2, <2>1
  <2>3. q = [p EXCEPT ![i] = item]
    BY <1>4 DEF Queue
  <2> HIDE DEF i, q, item
  <2>4. /\ q \in Pool /\ q[i] = item
        /\ \A j \in Slots : j # i => q[j] = p[j]
    BY <1>1, <2>2, <2>3 DEF Pool
  <2>5. \A j \in Slots : q[j].used = p[j].used /\ CommandOf(q[j]) = CommandOf(p[j])
    BY <1>1, <2>2, <2>4, ItemFields
  <2>6. Kept(q) = Kept(p) /\ (Single(p) => Single(q)) /\ c \in Kept(p)
    BY <2>2, <2>4, <2>5, ItemFields DEF Kept, Single
  <2> QED
    BY <2>4, <2>6 DEF q
<1>5. CASE Matching(p, c) = {} /\ FreeSlots(p) # {}
  <2> DEFINE i == First(FreeSlots(p))
  <2>1. i \in FreeSlots(p)
    BY <1>5, FirstOK DEF FreeSlots
  <2>2. i \in Slots /\ ~p[i].used
    BY <2>1 DEF FreeSlots
  <2>3. q = [p EXCEPT ![i] = item]
    BY <1>5 DEF Queue
  <2> HIDE DEF i, q, item
  <2>4. /\ q \in Pool /\ q[i] = item
        /\ \A j \in Slots : j # i => q[j] = p[j]
    BY <1>1, <2>2, <2>3 DEF Pool
  <2>5. c \notin Kept(p)
    BY <1>3, <1>5
  <2>6. Kept(p) \subseteq Kept(q) /\ Kept(q) \subseteq Kept(p) \cup {c} /\ c \in Kept(q)
    BY <1>1, <2>2, <2>4 DEF Kept
  <2>7. Single(p) => Single(q)
    <3> SUFFICES ASSUME Single(p), NEW j \in Slots, NEW k \in Slots,
                        q[j].used, q[k].used, CommandOf(q[j]) = CommandOf(q[k]), j # k
                 PROVE  FALSE
      BY DEF Single
    <3>1. CASE j # i /\ k # i
      BY <2>4, <3>1 DEF Single
    <3>2. CASE j = i
      BY <1>1, <2>4, <2>5, <3>2 DEF Kept
    <3>3. CASE k = i
      BY <1>1, <2>4, <2>5, <3>3 DEF Kept
    <3> QED
      BY <3>1, <3>2, <3>3
  <2> QED
    BY <2>4, <2>6, <2>7 DEF q
<1>6. CASE Matching(p, c) = {} /\ FreeSlots(p) = {}
  <2>1. q = p
    BY <1>6 DEF Queue
  <2> QED
    BY <1>6, <2>1
<1> QED
  BY <1>4, <1>5, <1>6
-----------------------------------------------------------------------------
(* A number of commands is queued. *)

\* The pools the recursive function of QueueAll goes through.
LEMMA QueueAllSteps ==
    ASSUME NEW p \in Pool, NEW cmds \in Seq(Command)
    PROVE  \E f : /\ f[0] = p
                  /\ \A n \in 1 .. Len(cmds) : f[n] = Queue(f[n - 1], cmds[n])
                  /\ QueueAll(p, cmds) = f[Len(cmds)]
<1> DEFINE L == Len(cmds)
           Def(g, k) == [n \in 0 .. k |-> IF n = 0 THEN p ELSE Queue(g[n - 1], cmds[n])]
           A == {k \in Nat : \E g : g = Def(g, k)}
<1>1. L \in Nat
  OBVIOUS
<1>2. 0 \in A
  <2> DEFINE g == [n \in 0 .. 0 |-> p]
  <2>1. g = Def(g, 0)
    OBVIOUS
  <2> QED
    BY <2>1
<1>3. ASSUME NEW k \in Nat, k \in A
      PROVE  k + 1 \in A
  <2>1. PICK g : g = Def(g, k)
    BY <1>3
  <2> DEFINE h == [n \in 0 .. k + 1 |-> IF n = k + 1 THEN Queue(g[k], cmds[k + 1]) ELSE g[n]]
  <2>2. ASSUME NEW n \in 0 .. k + 1
        PROVE  h[n] = IF n = 0 THEN p ELSE Queue(h[n - 1], cmds[n])
    <3>1. CASE n = 0
      <4>1. 0 \in 0 .. k /\ 0 # k + 1 /\ 0 \in 0 .. k + 1
        OBVIOUS
      <4>2. g[0] = p
        BY <2>1, <4>1
      <4> QED
        BY <3>1, <4>1, <4>2
    <3>2. CASE n \in 1 .. k
      <4>1. /\ n \in 0 .. k /\ n # 0 /\ n # k + 1 /\ n - 1 \in 0 .. k + 1 /\ n - 1 # k + 1
        BY <3>2
      <4>2. g[n] = Queue(g[n - 1], cmds[n])
        BY <2>1, <4>1
      <4>3. h[n] = g[n] /\ h[n - 1] = g[n - 1]
        BY <4>1
      <4> QED
        BY <4>1, <4>2, <4>3
    <3>3. CASE n = k + 1
      <4>1. k \in 0 .. k + 1 /\ k # k + 1 /\ n # 0 /\ n - 1 = k
        BY <3>3
      <4>2. h[k] = g[k] /\ h[n] = Queue(g[k], cmds[k + 1])
        BY <3>3, <4>1
      <4> QED
        BY <3>3, <4>1, <4>2
    <3> QED
      BY <3>1, <3>2, <3>3
  <2>3. h = Def(h, k + 1)
    BY <2>2
  <2> HIDE DEF Def, h
  <2> QED
    BY <2>3
<1>4. L \in A
  <2> HIDE DEF A
  <2> QED
    BY <1>1, <1>2, <1>3, SetInduction
<1> DEFINE f == CHOOSE g : g = Def(g, L)
<1>5. f = Def(f, L)
  <2>1. \E g : g = Def(g, L)
    BY <1>4
  <2> HIDE DEF Def
  <2> QED
    BY <2>1
<1>6. QueueAll(p, cmds) = f[L]
  BY DEF QueueAll
<1> HIDE DEF f
<1>7. f[0] = p /\ \A n \in 1 .. L : f[n] = Queue(f[n - 1], cmds[n])
  BY <1>1, <1>5
<1> QED
  BY <1>6, <1>7

\* The commands are kept, unless the pool is full, and nothing else changes.
LEMMA QueueAllOK ==
    ASSUME NEW p \in Pool, NEW cmds \in Seq(Command)
    PROVE  /\ QueueAll(p, cmds) \in Pool
           /\ Single(p) => Single(QueueAll(p, cmds))
           /\ Kept(p) \subseteq Kept(QueueAll(p, cmds))
           /\ Kept(QueueAll(p, cmds)) \subseteq Kept(p) \cup ToSet(cmds)
<1>1. PICK f : /\ f[0] = p
               /\ \A n \in 1 .. Len(cmds) : f[n] = Queue(f[n - 1], cmds[n])
               /\ QueueAll(p, cmds) = f[Len(cmds)]
  BY QueueAllSteps
<1> DEFINE Good(q) == /\ q \in Pool
                      /\ Single(p) => Single(q)
                      /\ Kept(p) \subseteq Kept(q)
                      /\ Kept(q) \subseteq Kept(p) \cup ToSet(cmds)
           A == {n \in Nat : n <= Len(cmds) => Good(f[n])}
<1>2. 0 \in A
  BY <1>1
<1>3. ASSUME NEW n \in Nat, n \in A
      PROVE  n + 1 \in A
  <2> SUFFICES ASSUME n + 1 <= Len(cmds) PROVE Good(f[n + 1])
    OBVIOUS
  <2>1. n + 1 \in 1 .. Len(cmds) /\ n <= Len(cmds)
    OBVIOUS
  <2>2. Good(f[n])
    BY <1>3, <2>1
  <2>3. cmds[n + 1] \in Command /\ cmds[n + 1] \in ToSet(cmds)
    BY <2>1 DEF ToSet
  <2>4. f[n + 1] = Queue(f[n], cmds[n + 1])
    <3>1. f[n + 1] = Queue(f[n + 1 - 1], cmds[n + 1])
      BY <1>1, <2>1
    <3>2. n + 1 - 1 = n
      OBVIOUS
    <3> QED
      BY <3>1, <3>2
  <2>5. /\ Queue(f[n], cmds[n + 1]) \in Pool
        /\ Single(f[n]) => Single(Queue(f[n], cmds[n + 1]))
        /\ Kept(f[n]) \subseteq Kept(Queue(f[n], cmds[n + 1]))
        /\ Kept(Queue(f[n], cmds[n + 1])) \subseteq Kept(f[n]) \cup {cmds[n + 1]}
    BY <2>2, <2>3, QueueOK
  <2> QED
    BY <2>2, <2>3, <2>4, <2>5
<1>4. Len(cmds) \in Nat
  OBVIOUS
<1>5. Len(cmds) \in A
  <2> HIDE DEF A
  <2> QED
    BY <1>2, <1>3, <1>4, SetInduction
<1> QED
  BY <1>1, <1>4, <1>5

\* An item for each igniter is enough for commands of one kind.
LEMMA RoomForOneKind ==
    ASSUME NEW p \in Pool, Single(p), NEW c \in Command, c \notin Kept(p),
           \A d \in Kept(p) : d.kind = c.kind
    PROVE  FreeSlots(p) # {}
<1> SUFFICES ASSUME FreeSlots(p) = {} PROVE FALSE
  OBVIOUS
<1> DEFINE T == Igniters \ {c.addr}
           g == [i \in Slots |-> p[i].addr]
<1>1. \A i \in Slots : p[i].used /\ CommandOf(p[i]) \in Command /\ CommandOf(p[i]) \in Kept(p)
  BY ItemFields DEF FreeSlots, Kept
<1>2. \A i \in Slots : CommandOf(p[i]) = [kind |-> c.kind, addr |-> p[i].addr]
  BY <1>1 DEF CommandOf
<1>3. c = [kind |-> c.kind, addr |-> c.addr]
  BY DEF Command
<1>4. g \in [Slots -> T]
  <2> SUFFICES ASSUME NEW i \in Slots PROVE p[i].addr \in T
    OBVIOUS
  <2>1. p[i].addr \in Igniters
    <3>1. CommandOf(p[i]).addr \in Igniters
      BY <1>1 DEF Command
    <3>2. CommandOf(p[i]).addr = p[i].addr
      BY DEF CommandOf
    <3> QED
      BY <3>1, <3>2
  <2>2. p[i].addr # c.addr
    BY <1>1, <1>2, <1>3
  <2> QED
    BY <2>1, <2>2
<1>5. \A i, j \in Slots : g[i] = g[j] => i = j
  BY <1>1, <1>2 DEF Single
<1>6. IsFiniteSet(T) /\ Cardinality(T) = Cardinality(Igniters) - 1
  <2>1. IsFiniteSet(Igniters) /\ c.addr \in Igniters
    BY PoolAssumption DEF Command
  <2> QED
    BY <2>1, FS_RemoveElement
<1>7. IsFiniteSet(Slots) /\ Cardinality(Slots) = MaxItems
  BY PoolAssumption, FS_Interval DEF Slots
<1>8. Cardinality(Igniters) \in Nat /\ MaxItems >= Cardinality(Igniters)
  BY PoolAssumption, FS_CardinalityType
<1>9. Cardinality(T) < Cardinality(Slots)
  BY <1>6, <1>7, <1>8, PoolAssumption
<1> HIDE DEF g, T
<1>10. \E i, j \in Slots : i # j /\ g[i] = g[j]
  BY <1>4, <1>6, <1>7, <1>9, FS_PigeonHole
<1> QED
  BY <1>5, <1>10

\* If nothing else waits, commands of one kind are all kept.
LEMMA QueueAllKeeps ==
    ASSUME NEW p \in Pool, Single(p), NEW cmds \in Seq(Command), NEW kind,
           \A d \in Kept(p) : d.kind = kind, \A c \in ToSet(cmds) : c.kind = kind
    PROVE  ToSet(cmds) \subseteq Kept(QueueAll(p, cmds))
<1>1. PICK f : /\ f[0] = p
               /\ \A n \in 1 .. Len(cmds) : f[n] = Queue(f[n - 1], cmds[n])
               /\ QueueAll(p, cmds) = f[Len(cmds)]
  BY QueueAllSteps
<1> DEFINE Good(n) == /\ f[n] \in Pool /\ Single(f[n])
                      /\ \A d \in Kept(f[n]) : d.kind = kind
                      /\ \A m \in 1 .. n : cmds[m] \in Kept(f[n])
           A == {n \in Nat : n <= Len(cmds) => Good(n)}
<1>2. 0 \in A
  BY <1>1
<1>3. ASSUME NEW n \in Nat, n \in A
      PROVE  n + 1 \in A
  <2> SUFFICES ASSUME n + 1 <= Len(cmds) PROVE Good(n + 1)
    OBVIOUS
  <2> DEFINE c == cmds[n + 1]
  <2>1. n + 1 \in 1 .. Len(cmds) /\ n <= Len(cmds)
    OBVIOUS
  <2>2. Good(n)
    BY <1>3, <2>1
  <2>3. c \in Command /\ c.kind = kind
    BY <2>1 DEF ToSet
  <2>4. f[n + 1] = Queue(f[n], c)
    <3>1. f[n + 1] = Queue(f[n + 1 - 1], cmds[n + 1])
      BY <1>1, <2>1
    <3>2. n + 1 - 1 = n
      OBVIOUS
    <3> QED
      BY <3>1, <3>2
  <2> HIDE DEF c
  <2>5. /\ f[n + 1] \in Pool /\ Single(f[n + 1])
        /\ Kept(f[n]) \subseteq Kept(f[n + 1])
        /\ Kept(f[n + 1]) \subseteq Kept(f[n]) \cup {c}
        /\ FreeSlots(f[n]) # {} => c \in Kept(f[n + 1])
    BY <2>2, <2>3, <2>4, QueueOK
  <2>6. c \in Kept(f[n + 1])
    BY <2>2, <2>3, <2>5, RoomForOneKind
  <2>7. \A m \in 1 .. n + 1 : m \in 1 .. n \/ m = n + 1
    OBVIOUS
  <2> QED
    BY <2>2, <2>3, <2>5, <2>6, <2>7 DEF c
<1>4. Len(cmds) \in Nat
  OBVIOUS
<1>5. Len(cmds) \in A
  <2> HIDE DEF A
  <2> QED
    BY <1>2, <1>3, <1>4, SetInduction
<1> QED
  BY <1>1, <1>4, <1>5 DEF ToSet

\* The commands are those of the kind to the igniters of A.
LEMMA CommandsOK ==
    ASSUME NEW kind \in Kind, NEW A \in SUBSET Igniters
    PROVE  /\ Commands(kind, A) \in Seq(Command)
           /\ ToSet(Commands(kind, A)) = [kind : {kind}, addr : A]
<1> DEFINE n == Cardinality(A)
           s == SetToSeq(A)
<1>1. IsFiniteSet(A) /\ n \in Nat /\ ExistsBijection(1 .. n, A)
  BY PoolAssumption, FS_Subset, FS_CardinalityType
<1>2. s \in [1 .. n -> A] /\ IsInjective(s)
  <2>1. \E f \in [1 .. n -> A] : IsInjective(f)
    BY <1>1 DEF ExistsBijection, Bijection, Injection
  <2> QED
    BY <2>1 DEF SetToSeq
<1>3. \A a \in A : \E i \in 1 .. n : s[i] = a
  <2>1. s \in Injection(1 .. n, A)
    BY <1>2 DEF Injection
  <2>2. Cardinality(1 .. n) = n
    BY <1>1, FS_Interval
  <2>3. s \in Surjection(1 .. n, A)
    <3> HIDE DEF s, n
    <3> QED
      BY <1>1, <2>1, <2>2, FS_Injection DEF n
  <2> QED
    BY <2>3 DEF Surjection
<1>4. Commands(kind, A) = [i \in 1 .. n |-> [kind |-> kind, addr |-> s[i]]]
  BY <1>2 DEF Commands
<1> HIDE DEF s, n
<1>5. Commands(kind, A) \in Seq(Command)
  BY <1>1, <1>2, <1>4 DEF Command
<1>6. ToSet(Commands(kind, A)) = {[kind |-> kind, addr |-> s[i]] : i \in 1 .. n}
  BY <1>4 DEF ToSet
<1>7. ToSet(Commands(kind, A)) = [kind : {kind}, addr : A]
  <2>1. ASSUME NEW i \in 1 .. n
        PROVE  [kind |-> kind, addr |-> s[i]] \in [kind : {kind}, addr : A]
    BY <1>2
  <2>2. ASSUME NEW c \in [kind : {kind}, addr : A]
        PROVE  \E i \in 1 .. n : c = [kind |-> kind, addr |-> s[i]]
    <3>1. c = [kind |-> kind, addr |-> c.addr] /\ c.addr \in A
      OBVIOUS
    <3>2. PICK i \in 1 .. n : s[i] = c.addr
      BY <1>3, <3>1
    <3> QED
      BY <3>1, <3>2
  <2> QED
    BY <1>6, <2>1, <2>2
<1> QED
  BY <1>5, <1>7

\* Fire_RetryCancelKind drops the commands of these kinds and no other.
LEMMA CancelKindsOK ==
    ASSUME NEW p \in Pool, NEW kinds
    PROVE  /\ CancelKinds(p, kinds) \in Pool
           /\ Single(p) => Single(CancelKinds(p, kinds))
           /\ Kept(CancelKinds(p, kinds)) = {c \in Kept(p) : c.kind \notin kinds}
<1> DEFINE q == CancelKinds(p, kinds)
<1>1. q \in Pool
  BY DEF CancelKinds, Pool
<1>2. ASSUME NEW i \in Slots
      PROVE  /\ p[i].used /\ p[i].kind \notin kinds => q[i] = p[i]
             /\ q[i].used => p[i].used /\ p[i].kind \notin kinds
  <2>1. q[i] = IF p[i].used /\ p[i].kind \in kinds THEN Free ELSE p[i]
    BY DEF CancelKinds
  <2>2. Free.used = FALSE
    BY DEF Free
  <2> HIDE DEF q
  <2> QED
    BY <2>1, <2>2
<1>3. \A i \in Slots : CommandOf(p[i]).kind = p[i].kind
  BY DEF CommandOf
<1> HIDE DEF q
<1>4. Single(p) => Single(q)
  BY <1>2 DEF Single
<1>5. Kept(q) = {c \in Kept(p) : c.kind \notin kinds}
  BY <1>2, <1>3 DEF Kept
<1> QED
  BY <1>1, <1>4, <1>5 DEF q
-----------------------------------------------------------------------------
(* The invariant. *)

\* The panel has stopped the igniter, by whichever way, and not started it
\* again.
IsStopped(a) == ordered[a] \in {"STOP", "STOP_ALL", "RESET"}

\* No STOP of the igniter is ahead of a START.
InTime(w, a) ==
    \A i \in DOMAIN w : \A j \in i + 1 .. Len(w) : w[i] = Stop(a) => w[j] # Start(a)

\* Nothing on its way starts a stopped igniter for good, and one that has
\* carried out its STOP is off and stays off.
StoppedIsOff ==
    \A a \in Igniters : IsStopped(a) =>
        /\ Start(a) \notin Kept(pool) /\ Start(a) \notin Loose(wire)
        /\ Stop(a) \notin late =>
               /\ InTime(wire, a)
               /\ Stop(a) \in ToSet(acks) \/ fate[Stop(a)] = "acknowledged" =>
                      a \notin burning /\ Start(a) \notin ToSet(wire)

Inv == TypeOK /\ OneItemPerCommand /\ StoppedIsOff /\ GeneralStopIsRetried

Orders == {"nothing", "START", "STOP", "STOP_ALL", "RESET"}
Fates == {"none", "sent", "acknowledged", "given up", "dropped"}
Spent == [ops : 0 .. MaxOps, lost : 0 .. MaxLost]

LEMMA StartStop ==
    ASSUME NEW a \in Igniters
    PROVE  /\ Start(a) \in Command /\ Stop(a) \in Command /\ Start(a) # Stop(a)
           /\ Start(a).kind = "START" /\ Stop(a).kind = "STOP"
           /\ Start(a).addr = a /\ Stop(a).addr = a
BY DEF Start, Stop, Command, Kind

LEMMA QueueEnds ==
    ASSUME NEW s \in Seq(Command)
    PROVE  /\ ToSet(s) \subseteq Command
           /\ \A c \in Command : /\ Append(s, c) \in Seq(Command)
                                 /\ ToSet(Append(s, c)) = ToSet(s) \cup {c}
                                 /\ Len(Append(s, c)) = Len(s) + 1
           /\ s # <<>> => /\ Head(s) \in ToSet(s) /\ Tail(s) \in Seq(Command)
                          /\ ToSet(Tail(s)) \subseteq ToSet(s)
                          /\ ToSet(s) \subseteq ToSet(Tail(s)) \cup {Head(s)}
                          /\ Len(Tail(s)) < Len(s)
<1>1. ToSet(s) \subseteq Command
  BY DEF ToSet
<1>2. ASSUME NEW c \in Command
      PROVE  /\ Append(s, c) \in Seq(Command)
             /\ ToSet(Append(s, c)) = ToSet(s) \cup {c}
             /\ Len(Append(s, c)) = Len(s) + 1
  <2> DEFINE t == Append(s, c)
  <2>1. /\ t \in Seq(Command) /\ Len(t) = Len(s) + 1 /\ Len(s) \in Nat
        /\ DOMAIN t = 1 .. Len(s) + 1 /\ DOMAIN s = 1 .. Len(s)
        /\ \A i \in 1 .. Len(s) : t[i] = s[i]
        /\ t[Len(s) + 1] = c
    OBVIOUS
  <2>2. \A i \in 1 .. Len(s) + 1 : i \in 1 .. Len(s) \/ i = Len(s) + 1
    BY <2>1
  <2> HIDE DEF t
  <2>3. ToSet(t) = ToSet(s) \cup {c}
    BY <2>1, <2>2 DEF ToSet
  <2> QED
    BY <2>1, <2>3 DEF t
<1>3. ASSUME s # <<>>
      PROVE  /\ Head(s) \in ToSet(s) /\ Tail(s) \in Seq(Command)
             /\ ToSet(Tail(s)) \subseteq ToSet(s)
             /\ ToSet(s) \subseteq ToSet(Tail(s)) \cup {Head(s)}
             /\ Len(Tail(s)) < Len(s)
  <2>1. /\ Len(s) \in Nat /\ Len(s) > 0 /\ DOMAIN s = 1 .. Len(s) /\ Head(s) = s[1]
        /\ Tail(s) \in Seq(Command) /\ Len(Tail(s)) = Len(s) - 1
        /\ DOMAIN Tail(s) = 1 .. Len(s) - 1
        /\ \A i \in 1 .. Len(s) - 1 : Tail(s)[i] = s[i + 1]
    BY <1>3
  <2>2. \A i \in 1 .. Len(s) - 1 : i + 1 \in 1 .. Len(s)
    BY <2>1
  <2>3. \A i \in 1 .. Len(s) : i = 1 \/ (i - 1 \in 1 .. Len(s) - 1 /\ s[i] = Tail(s)[i - 1])
    BY <2>1
  <2> DEFINE t == Tail(s)
             h == Head(s)
             n == Len(s)
  <2> HIDE DEF t, h, n
  <2>4. /\ n \in Nat /\ n > 0 /\ DOMAIN s = 1 .. n /\ h = s[1] /\ DOMAIN t = 1 .. n - 1
        /\ \A i \in 1 .. n - 1 : t[i] = s[i + 1] /\ i + 1 \in 1 .. n
        /\ \A i \in 1 .. n : i = 1 \/ (i - 1 \in 1 .. n - 1 /\ s[i] = t[i - 1])
    BY <2>1, <2>2, <2>3 DEF t, h, n
  <2>5. h \in ToSet(s) /\ ToSet(t) \subseteq ToSet(s)
    <3>1. 1 \in DOMAIN s /\ \A i \in DOMAIN t : i + 1 \in DOMAIN s /\ t[i] = s[i + 1]
      BY <2>4
    <3>2. h \in ToSet(s)
      BY <2>4, <3>1 DEF ToSet
    <3>3. ToSet(t) \subseteq ToSet(s)
      BY <3>1 DEF ToSet
    <3> QED
      BY <3>2, <3>3
  <2>6. ToSet(s) \subseteq ToSet(t) \cup {h}
    BY <2>4 DEF ToSet
  <2> QED
    BY <2>1, <2>5, <2>6 DEF t, h, n
<1> QED
  BY <1>1, <1>2, <1>3

LEMMA NothingOnTheWay == <<>> \in Seq(Command) /\ ToSet(<<>>) = {} /\ Loose(<<>>) = {}
<1>1. <<>> \in Seq(Command) /\ DOMAIN <<>> = {}
  OBVIOUS
<1>2. ToSet(<<>>) = {} /\ Loose(<<>>) = {}
  BY <1>1 DEF ToSet, Loose
<1> QED
  BY <1>1, <1>2

\* The places of two sequences one behind the other.
LEMMA Places ==
    ASSUME NEW s \in Seq(Command), NEW t \in Seq(Command)
    PROVE  /\ s \o t \in Seq(Command) /\ Len(s \o t) = Len(s) + Len(t)
           /\ DOMAIN (s \o t) = 1 .. Len(s) + Len(t)
           /\ DOMAIN s = 1 .. Len(s) /\ DOMAIN t = 1 .. Len(t)
           /\ Len(s) \in Nat /\ Len(t) \in Nat
           /\ \A i \in 1 .. Len(s) : (s \o t)[i] = s[i] /\ s[i] \in Command
           /\ \A i \in 1 .. Len(t) : (s \o t)[Len(s) + i] = t[i] /\ t[i] \in Command
           /\ ToSet(s \o t) = ToSet(s) \cup ToSet(t)
<1>1. /\ s \o t \in Seq(Command) /\ Len(s \o t) = Len(s) + Len(t)
      /\ DOMAIN (s \o t) = 1 .. Len(s) + Len(t)
      /\ DOMAIN s = 1 .. Len(s) /\ DOMAIN t = 1 .. Len(t)
      /\ Len(s) \in Nat /\ Len(t) \in Nat
      /\ \A i \in 1 .. Len(s) : (s \o t)[i] = s[i] /\ s[i] \in Command
      /\ \A i \in 1 .. Len(t) : (s \o t)[Len(s) + i] = t[i] /\ t[i] \in Command
  OBVIOUS
<1> DEFINE w == s \o t
           m == Len(s)
           n == Len(t)
<1>2. ToSet(w) = ToSet(s) \cup ToSet(t)
  <2> HIDE DEF w, m, n
  <2>1. \A i \in 1 .. m + n : i \in 1 .. m \/ (i - m \in 1 .. n /\ m + (i - m) = i)
    BY <1>1 DEF m, n
  <2>2. \A i \in 1 .. m : i \in 1 .. m + n
    BY <1>1 DEF m, n
  <2>3. \A i \in 1 .. n : m + i \in 1 .. m + n
    BY <1>1 DEF m, n
  <2>4. ToSet(w) \subseteq ToSet(s) \cup ToSet(t)
    <3> SUFFICES ASSUME NEW i \in 1 .. m + n PROVE w[i] \in ToSet(s) \cup ToSet(t)
      BY <1>1 DEF ToSet, w, m, n
    <3> QED
      BY <1>1, <2>1 DEF ToSet, w, m, n
  <2>5. ToSet(s) \subseteq ToSet(w)
    BY <1>1, <2>2 DEF ToSet, w, m, n
  <2>6. ToSet(t) \subseteq ToSet(w)
    BY <1>1, <2>3 DEF ToSet, w, m, n
  <2> QED
    BY <2>4, <2>5, <2>6
<1> QED
  BY <1>1, <1>2

\* Commands of one kind go out behind those on their way.
LEMMA LooseThen ==
    ASSUME NEW s \in Seq(Command), NEW t \in Seq(Command), NEW kind,
           \A c \in ToSet(t) : c.kind = kind
    PROVE  \A c : c \in Loose(s \o t) <=>
               \/ c \in Loose(s) /\ Stop(c.addr) \notin ToSet(t)
               \/ kind = "START" /\ c \in ToSet(t)
<1> DEFINE w == s \o t
           m == Len(s)
           n == Len(t)
<1>1. /\ Len(w) = m + n /\ DOMAIN w = 1 .. m + n /\ DOMAIN s = 1 .. m /\ DOMAIN t = 1 .. n
      /\ m \in Nat /\ n \in Nat
      /\ \A i \in 1 .. m : w[i] = s[i]
      /\ \A i \in 1 .. n : w[m + i] = t[i] /\ t[i] \in Command
  BY Places
<1>2. Len(s) = m
  OBVIOUS
<1> HIDE DEF w, m, n
<1>3. \A i \in 1 .. n : t[i] \in ToSet(t) /\ t[i].kind = kind
  BY <1>1 DEF ToSet
<1>4. \A a : Stop(a).kind = "STOP"
  BY DEF Stop
<1>5. ASSUME NEW c \in Loose(s), Stop(c.addr) \notin ToSet(t)
      PROVE  c \in Loose(w)
  <2>1. PICK i \in 1 .. m : s[i] = c /\ \A j \in i + 1 .. m : s[j] # Stop(c.addr)
    BY <1>1, <1>2, <1>5 DEF Loose
  <2>2. i \in 1 .. m + n /\ w[i] = c
    BY <1>1, <2>1
  <2>3. ASSUME NEW j \in i + 1 .. m + n
        PROVE  w[j] # Stop(c.addr)
    <3>1. CASE j \in 1 .. m
      <4>1. j \in i + 1 .. m
        BY <1>1, <2>1, <2>3, <3>1
      <4> QED
        BY <1>1, <2>1, <3>1, <4>1
    <3>2. CASE j \notin 1 .. m
      <4>1. j - m \in 1 .. n /\ m + (j - m) = j
        BY <1>1, <2>1, <2>3, <3>2
      <4>2. w[j] = t[j - m] /\ t[j - m] \in ToSet(t)
        BY <1>1, <1>3, <4>1
      <4> QED
        BY <1>5, <4>2
    <3> QED
      BY <3>1, <3>2
  <2> QED
    BY <1>1, <1>5, <2>2, <2>3 DEF Loose
<1>6. ASSUME NEW c \in ToSet(t), kind = "START"
      PROVE  c \in Loose(w)
  <2>1. PICK k \in 1 .. n : t[k] = c
    BY <1>1, <1>6 DEF ToSet
  <2>2. m + k \in 1 .. m + n /\ w[m + k] = c /\ c \in Command /\ c.kind = "START"
    BY <1>1, <1>3, <1>6, <2>1
  <2>3. ASSUME NEW j \in m + k + 1 .. m + n
        PROVE  w[j] # Stop(c.addr)
    <3>1. j - m \in 1 .. n /\ m + (j - m) = j
      BY <1>1, <2>1, <2>3
    <3>2. w[j] = t[j - m] /\ t[j - m].kind = "START"
      BY <1>1, <1>3, <1>6, <3>1
    <3> QED
      BY <1>4, <3>2
  <2> QED
    BY <1>1, <2>2, <2>3 DEF Loose
<1>7. ASSUME NEW c \in Loose(w)
      PROVE  \/ c \in Loose(s) /\ Stop(c.addr) \notin ToSet(t)
             \/ kind = "START" /\ c \in ToSet(t)
  <2>1. PICK i \in 1 .. m + n : w[i] = c /\ \A j \in i + 1 .. m + n : w[j] # Stop(c.addr)
    BY <1>1, <1>7 DEF Loose
  <2>2. c \in Command /\ c.kind = "START"
    BY <1>7 DEF Loose
  <2>3. CASE i \in 1 .. m
    <3>1. s[i] = c
      BY <1>1, <2>1, <2>3
    <3>2. ASSUME NEW j \in i + 1 .. m
          PROVE  s[j] # Stop(c.addr)
      <4>1. j \in 1 .. m /\ j \in i + 1 .. m + n
        BY <1>1, <2>3, <3>2
      <4> QED
        BY <1>1, <2>1, <4>1
    <3>3. c \in Loose(s)
      BY <1>1, <1>2, <2>2, <2>3, <3>1, <3>2 DEF Loose
    <3>4. ASSUME Stop(c.addr) \in ToSet(t)
          PROVE  FALSE
      <4>1. PICK k \in 1 .. n : t[k] = Stop(c.addr)
        BY <1>1, <3>4 DEF ToSet
      <4>2. m + k \in i + 1 .. m + n /\ w[m + k] = Stop(c.addr)
        BY <1>1, <2>3, <4>1
      <4> QED
        BY <2>1, <4>2
    <3> QED
      BY <3>3, <3>4
  <2>4. CASE i \notin 1 .. m
    <3>1. i - m \in 1 .. n /\ m + (i - m) = i
      BY <1>1, <2>1, <2>4
    <3>2. c = t[i - m] /\ t[i - m] \in ToSet(t) /\ t[i - m].kind = kind
      BY <1>1, <1>3, <2>1, <3>1
    <3> QED
      BY <2>2, <3>2
  <2> QED
    BY <2>3, <2>4
<1> QED
  BY <1>5, <1>6, <1>7 DEF w

\* The first command leaves the bus.
LEMMA LooseTail ==
    ASSUME NEW s \in Seq(Command), s # <<>>
    PROVE  /\ Loose(Tail(s)) \subseteq Loose(s)
           /\ Loose(s) \subseteq Loose(Tail(s)) \cup {Head(s)}
           /\ \A a : InTime(s, a) =>
                  /\ InTime(Tail(s), a)
                  /\ Head(s) = Stop(a) => Start(a) \notin ToSet(Tail(s))
<1> DEFINE t == Tail(s)
           h == Head(s)
           n == Len(s)
<1>1. /\ n \in Nat /\ n > 0 /\ DOMAIN s = 1 .. n /\ h = s[1]
      /\ Len(t) = n - 1 /\ DOMAIN t = 1 .. n - 1
      /\ \A i \in 1 .. n - 1 : t[i] = s[i + 1]
  OBVIOUS
<1>2. Len(s) = n
  OBVIOUS
<1> HIDE DEF t, h, n
<1>3. \A i \in 1 .. n - 1 : i + 1 \in 1 .. n
  BY <1>1
<1>4. ASSUME NEW c \in Loose(t)
      PROVE  c \in Loose(s)
  <2>1. PICK i \in 1 .. n - 1 : t[i] = c /\ \A j \in i + 1 .. n - 1 : t[j] # Stop(c.addr)
    BY <1>1, <1>4 DEF Loose
  <2>2. i + 1 \in 1 .. n /\ s[i + 1] = c
    BY <1>1, <2>1
  <2>3. ASSUME NEW j \in i + 1 + 1 .. n
        PROVE  s[j] # Stop(c.addr)
    <3>1. j - 1 \in 1 .. n - 1 /\ j - 1 \in i + 1 .. n - 1 /\ j - 1 + 1 = j
      BY <1>1, <2>1, <2>3
    <3>2. t[j - 1] = s[j - 1 + 1]
      BY <1>1, <3>1
    <3> QED
      BY <2>1, <3>1, <3>2
  <2> QED
    BY <1>1, <1>2, <1>4, <2>2, <2>3 DEF Loose
<1>5. ASSUME NEW c \in Loose(s), c # h
      PROVE  c \in Loose(t)
  <2>1. PICK i \in 1 .. n : s[i] = c /\ \A j \in i + 1 .. n : s[j] # Stop(c.addr)
    BY <1>1, <1>2, <1>5 DEF Loose
  <2>2. i # 1
    BY <1>1, <1>5, <2>1
  <2>3. i - 1 \in 1 .. n - 1 /\ i - 1 + 1 = i
    BY <1>1, <2>1, <2>2
  <2>4. t[i - 1] = c
    <3>1. t[i - 1] = s[i - 1 + 1]
      BY <1>1, <2>3
    <3> QED
      BY <2>1, <2>3, <3>1
  <2>5. ASSUME NEW j \in i - 1 + 1 .. n - 1
        PROVE  t[j] # Stop(c.addr)
    <3>1. j \in 1 .. n - 1 /\ j + 1 \in i + 1 .. n
      BY <1>1, <2>1, <2>5
    <3>2. t[j] = s[j + 1]
      BY <1>1, <3>1
    <3> QED
      BY <2>1, <3>1, <3>2
  <2> QED
    BY <1>1, <1>5, <2>3, <2>4, <2>5 DEF Loose
<1>6. ASSUME NEW a, InTime(s, a)
      PROVE  InTime(t, a) /\ (h = Stop(a) => Start(a) \notin ToSet(t))
  <2>1. \A i \in 1 .. n : \A j \in i + 1 .. n : s[i] = Stop(a) => s[j] # Start(a)
    BY <1>1, <1>2, <1>6 DEF InTime
  <2>2. ASSUME NEW i \in 1 .. n - 1, NEW j \in i + 1 .. n - 1, t[i] = Stop(a)
        PROVE  t[j] # Start(a)
    <3>1. i + 1 \in 1 .. n /\ j \in 1 .. n - 1 /\ j + 1 \in i + 1 + 1 .. n
      BY <1>1, <2>2
    <3>2. t[i] = s[i + 1] /\ t[j] = s[j + 1]
      BY <1>1, <3>1
    <3> QED
      BY <2>1, <2>2, <3>1, <3>2
  <2>3. InTime(t, a)
    BY <1>1, <2>2 DEF InTime
  <2>4. ASSUME h = Stop(a), NEW j \in 1 .. n - 1
        PROVE  t[j] # Start(a)
    <3>1. 1 \in 1 .. n /\ j + 1 \in 1 + 1 .. n /\ t[j] = s[j + 1]
      BY <1>1, <2>4
    <3> QED
      BY <1>1, <2>1, <2>4, <3>1
  <2> QED
    BY <1>1, <2>3, <2>4 DEF ToSet
<1> QED
  BY <1>4, <1>5, <1>6 DEF t, h

\* Nothing behind them starts the igniter again.
LEMMA InTimeThen ==
    ASSUME NEW s \in Seq(Command), NEW t \in Seq(Command), NEW a,
           InTime(s, a) \/ Stop(a) \notin ToSet(s), Start(a) \notin ToSet(t)
    PROVE  InTime(s \o t, a)
<1> DEFINE w == s \o t
           m == Len(s)
           n == Len(t)
<1>1. /\ Len(w) = m + n /\ DOMAIN w = 1 .. m + n /\ DOMAIN s = 1 .. m /\ DOMAIN t = 1 .. n
      /\ m \in Nat /\ n \in Nat
      /\ \A i \in 1 .. m : w[i] = s[i]
      /\ \A i \in 1 .. n : w[m + i] = t[i]
  BY Places
<1>2. Len(s) = m
  OBVIOUS
<1> HIDE DEF w, m, n
<1>3. \A i \in 1 .. m : \A j \in i + 1 .. m : s[i] = Stop(a) => s[j] # Start(a)
  BY <1>1, <1>2 DEF InTime, ToSet
<1>4. ASSUME NEW i \in 1 .. m + n, NEW j \in i + 1 .. m + n, w[i] = Stop(a), w[j] = Start(a)
      PROVE  FALSE
  <2>1. CASE j \in 1 .. m
    <3>1. i \in 1 .. m /\ j \in i + 1 .. m
      BY <1>1, <1>4, <2>1
    <3> QED
      BY <1>1, <1>3, <1>4, <2>1, <3>1
  <2>2. CASE j \notin 1 .. m
    <3>1. j - m \in 1 .. n /\ m + (j - m) = j
      BY <1>1, <1>4, <2>2
    <3>2. w[j] = t[j - m]
      BY <1>1, <3>1
    <3> QED
      BY <1>1, <1>4, <3>1, <3>2 DEF ToSet
  <2> QED
    BY <2>1, <2>2
<1>5. InTime(w, a)
  BY <1>1, <1>4 DEF InTime
<1> QED
  BY <1>5 DEF w

LEMMA InvInit == Init => Inv
<1> SUFFICES ASSUME Init PROVE Inv
  OBVIOUS
<1>1. Kept(pool) = {} /\ Single(pool)
  BY DEF Init, Free, Kept, Single
<1>2. 0 \in 0 .. MaxOps /\ 0 \in 0 .. MaxLost
  BY PoolAssumption
<1>3. TypeOK
  BY <1>2 DEF Init, TypeOK
<1>4. \A a \in Igniters : ~IsStopped(a) /\ ordered[a] # "STOP_ALL"
  BY DEF Init, IsStopped
<1> QED
  BY <1>1, <1>3, <1>4 DEF Inv, OneItemPerCommand, StoppedIsOff, GeneralStopIsRetried

\* What the commands of the panel have in common.
LEMMA SentOK ==
    ASSUME Inv, NEW cmds \in Seq(Command), NEW p, NEW forgotten, Sent(cmds, p, forgotten)
    PROVE  /\ pool' = p
           /\ wire' = wire \o cmds /\ wire' \in Seq(Command)
           /\ ToSet(wire') = ToSet(wire) \cup ToSet(cmds)
           /\ fate' \in [Command -> Fates]
           /\ \A c \in ToSet(cmds) : fate'[c] = "sent"
           /\ \A c \in Command \ ToSet(cmds) :
                  fate'[c] = IF c \in forgotten THEN "dropped" ELSE fate[c]
           /\ late' \in SUBSET Command
           /\ \A c \in ToSet(cmds) : c \in late' <=> c \in ToSet(wire) \cup ToSet(acks)
           /\ \A c : c \notin ToSet(cmds) => (c \in late' <=> c \in late)
           /\ spent' \in Spent
           /\ acks' = acks /\ acks \in Seq(Command)
           /\ burning' = burning /\ burning \in SUBSET Igniters
<1>1. /\ wire \in Seq(Command) /\ acks \in Seq(Command) /\ burning \in SUBSET Igniters
      /\ fate \in [Command -> Fates] /\ late \in SUBSET Command
  BY DEF Inv, TypeOK, Fates
<1>2. /\ pool' = p /\ wire' = wire \o cmds /\ acks' = acks /\ burning' = burning
      /\ fate' = [c \in Command |-> IF c \in ToSet(cmds) THEN "sent"
                                    ELSE IF c \in forgotten THEN "dropped" ELSE fate[c]]
      /\ late' = (late \ ToSet(cmds)) \cup (ToSet(cmds) \cap (ToSet(wire) \cup ToSet(acks)))
  BY DEF Sent
<1>3. wire' \in Seq(Command) /\ ToSet(wire') = ToSet(wire) \cup ToSet(cmds)
  BY <1>1, <1>2, Places
<1>4. ToSet(cmds) \subseteq Command
  BY QueueEnds
<1>5. late' \in SUBSET Command
  BY <1>1, <1>2, <1>4
<1>6. /\ \A c \in ToSet(cmds) : c \in late' <=> c \in ToSet(wire) \cup ToSet(acks)
      /\ \A c : c \notin ToSet(cmds) => (c \in late' <=> c \in late)
  BY <1>2
<1>7. /\ fate' \in [Command -> Fates]
      /\ \A c \in ToSet(cmds) : fate'[c] = "sent"
      /\ \A c \in Command \ ToSet(cmds) :
             fate'[c] = IF c \in forgotten THEN "dropped" ELSE fate[c]
  BY <1>1, <1>2, <1>4 DEF Fates
<1>8. spent' \in Spent
  <2>1. spent \in Spent /\ spent.ops < MaxOps /\ spent' = [spent EXCEPT !.ops = @ + 1]
    BY DEF Sent, Inv, TypeOK, Spent
  <2>2. spent.ops + 1 \in 0 .. MaxOps
    BY <2>1, PoolAssumption DEF Spent
  <2> QED
    BY <2>1, <2>2 DEF Spent
<1> QED
  BY <1>1, <1>2, <1>3, <1>5, <1>6, <1>7, <1>8

\* A command given to the igniters of A; other items are dropped first.
LEMMA GiveOK ==
    ASSUME Inv, NEW kind \in Kind, NEW A \in SUBSET Igniters, NEW dropped,
           Give(kind, A, dropped)
    PROVE  /\ pool' \in Pool /\ Single(pool')
           /\ {c \in Kept(pool) : c.kind \notin dropped} \subseteq Kept(pool')
           /\ Kept(pool') \subseteq {c \in Kept(pool) : c.kind \notin dropped}
                                      \cup [kind : {kind}, addr : A]
           /\ Sent(Commands(kind, A), pool', {})
<1> DEFINE cmds == Commands(kind, A)
           p == CancelKinds(pool, dropped)
<1>1. cmds \in Seq(Command) /\ ToSet(cmds) = [kind : {kind}, addr : A]
  BY CommandsOK
<1>2. pool \in Pool /\ Single(pool)
  BY DEF Inv, TypeOK, Pool, OneItemPerCommand
<1>3. p \in Pool /\ Single(p) /\ Kept(p) = {c \in Kept(pool) : c.kind \notin dropped}
  BY <1>2, CancelKindsOK
<1>4. Sent(cmds, QueueAll(p, cmds), {})
  BY DEF Give
<1> HIDE DEF cmds, p
<1>5. pool' = QueueAll(p, cmds)
  BY <1>1, <1>4, SentOK
<1>6. /\ pool' \in Pool /\ Single(pool') /\ Kept(p) \subseteq Kept(pool')
      /\ Kept(pool') \subseteq Kept(p) \cup ToSet(cmds)
  BY <1>1, <1>3, <1>5, QueueAllOK
<1>7. Sent(cmds, pool', {})
  BY <1>4, <1>5
<1> QED
  BY <1>1, <1>3, <1>6, <1>7 DEF cmds

\* A command to the igniters of A: those that are stopped stay off, and those
\* that it stops are off once they have carried it out.
LEMMA StoppedAfterSent ==
    ASSUME Inv, NEW kind \in Kind, NEW A \in SUBSET Igniters, NEW forgotten,
           Sent(Commands(kind, A), pool', forgotten),
           \A a \in Igniters : Start(a) \in Kept(pool') =>
               (Start(a) \in Kept(pool) /\ kind # "STOP") \/ (kind = "START" /\ a \in A),
           \A a \in Igniters : IsStopped(a)' =>
               IF a \in A THEN kind = "STOP" \/ (kind # "START" /\ IsStopped(a))
                          ELSE IsStopped(a)
    PROVE  StoppedIsOff'
<1> SUFFICES ASSUME NEW a \in Igniters, IsStopped(a)'
             PROVE  /\ Start(a) \notin Kept(pool') /\ Start(a) \notin Loose(wire')
                    /\ Stop(a) \notin late' =>
                           /\ InTime(wire', a)
                           /\ Stop(a) \in ToSet(acks') \/ fate'[Stop(a)] = "acknowledged" =>
                                  a \notin burning' /\ Start(a) \notin ToSet(wire')
  BY DEF StoppedIsOff
<1> DEFINE cmds == Commands(kind, A)
<1>1. cmds \in Seq(Command) /\ ToSet(cmds) = [kind : {kind}, addr : A]
  BY CommandsOK
<1>2. \A c \in ToSet(cmds) : c.kind = kind
  BY <1>1
<1>3. /\ Start(a) \in ToSet(cmds) <=> kind = "START" /\ a \in A
      /\ Stop(a) \in ToSet(cmds) <=> kind = "STOP" /\ a \in A
  BY <1>1 DEF Start, Stop
<1>4. IF a \in A THEN kind = "STOP" \/ (kind # "START" /\ IsStopped(a)) ELSE IsStopped(a)
  OBVIOUS
<1>5. Start(a) \notin ToSet(cmds)
  BY <1>3, <1>4
<1> HIDE DEF cmds
<1>6. /\ wire' = wire \o cmds /\ ToSet(wire') = ToSet(wire) \cup ToSet(cmds)
      /\ acks' = acks /\ burning' = burning
      /\ Stop(a) \in ToSet(cmds) =>
             /\ fate'[Stop(a)] = "sent"
             /\ Stop(a) \in late' <=> Stop(a) \in ToSet(wire) \cup ToSet(acks)
      /\ Stop(a) \notin ToSet(cmds) =>
             /\ fate'[Stop(a)] = IF Stop(a) \in forgotten THEN "dropped" ELSE fate[Stop(a)]
             /\ Stop(a) \in late' <=> Stop(a) \in late
  <2>1. Sent(cmds, pool', forgotten)
    BY DEF cmds
  <2>2. /\ wire' = wire \o cmds /\ ToSet(wire') = ToSet(wire) \cup ToSet(cmds)
        /\ acks' = acks /\ burning' = burning
        /\ \A c \in ToSet(cmds) : fate'[c] = "sent"
        /\ \A c \in Command \ ToSet(cmds) :
               fate'[c] = IF c \in forgotten THEN "dropped" ELSE fate[c]
        /\ \A c \in ToSet(cmds) : c \in late' <=> c \in ToSet(wire) \cup ToSet(acks)
        /\ \A c : c \notin ToSet(cmds) => (c \in late' <=> c \in late)
    BY <1>1, <2>1, SentOK
  <2>3. Stop(a) \in Command
    BY StartStop
  <2> QED
    BY <2>2, <2>3
<1>7. wire \in Seq(Command)
  BY DEF Inv, TypeOK
<1>8. IsStopped(a) =>
          /\ Start(a) \notin Kept(pool) /\ Start(a) \notin Loose(wire)
          /\ Stop(a) \notin late =>
                 /\ InTime(wire, a)
                 /\ Stop(a) \in ToSet(acks) \/ fate[Stop(a)] = "acknowledged" =>
                        a \notin burning /\ Start(a) \notin ToSet(wire)
  BY DEF Inv, StoppedIsOff
<1>9. Start(a) \notin Kept(pool')
  BY <1>4, <1>8
<1>10. Start(a) \notin Loose(wire')
  <2>1. Start(a) \in Loose(wire') => Start(a) \in Loose(wire) /\ Stop(a) \notin ToSet(cmds)
    BY <1>1, <1>2, <1>5, <1>6, <1>7, LooseThen, StartStop
  <2> QED
    BY <1>3, <1>4, <1>8, <2>1
<1>11. ASSUME Stop(a) \notin late'
       PROVE  InTime(wire', a)
  <2>1. InTime(wire, a) \/ Stop(a) \notin ToSet(wire)
    BY <1>3, <1>4, <1>6, <1>8, <1>11
  <2> QED
    BY <1>1, <1>5, <1>6, <1>7, <2>1, InTimeThen
<1>12. ASSUME Stop(a) \notin late', Stop(a) \in ToSet(acks') \/ fate'[Stop(a)] = "acknowledged"
       PROVE  a \notin burning' /\ Start(a) \notin ToSet(wire')
  BY <1>3, <1>4, <1>5, <1>6, <1>8, <1>12
<1> QED
  BY <1>9, <1>10, <1>11, <1>12

LEMMA StoppedAfterGive ==
    ASSUME Inv, NEW kind \in Kind, NEW A \in SUBSET Igniters, NEW dropped,
           Give(kind, A, dropped),
           kind = "STOP" => "START" \in dropped,
           \A a \in Igniters : IsStopped(a)' =>
               IF a \in A THEN kind = "STOP" \/ (kind # "START" /\ IsStopped(a))
                          ELSE IsStopped(a)
    PROVE  StoppedIsOff'
<1>1. /\ Kept(pool') \subseteq {c \in Kept(pool) : c.kind \notin dropped}
                                \cup [kind : {kind}, addr : A]
      /\ Sent(Commands(kind, A), pool', {})
  BY GiveOK
<1>2. ASSUME NEW a \in Igniters, Start(a) \in Kept(pool')
      PROVE  (Start(a) \in Kept(pool) /\ kind # "STOP") \/ (kind = "START" /\ a \in A)
  <2>1. Start(a).kind = "START" /\ Start(a).addr = a
    BY StartStop
  <2> QED
    BY <1>1, <1>2, <2>1
<1> QED
  BY <1>1, <1>2, StoppedAfterSent

\* A STOP to all that is not dropped stays in the pool.
LEMMA RetriedAfterGive ==
    ASSUME Inv, NEW kind \in Kind, NEW A \in SUBSET Igniters, NEW dropped,
           Give(kind, A, dropped), "STOP" \notin dropped,
           NEW a \in Igniters, ordered[a] = "STOP_ALL", a \in A => kind # "STOP",
           fate'[Stop(a)] = "sent"
    PROVE  Stop(a) \in Kept(pool')
<1>1. /\ {c \in Kept(pool) : c.kind \notin dropped} \subseteq Kept(pool')
      /\ Sent(Commands(kind, A), pool', {})
  BY GiveOK
<1>2. Commands(kind, A) \in Seq(Command) /\ ToSet(Commands(kind, A)) = [kind : {kind}, addr : A]
  BY CommandsOK
<1>3. Stop(a) \notin [kind : {kind}, addr : A] /\ Stop(a).kind = "STOP" /\ Stop(a) \in Command
  BY StartStop
<1>4. fate'[Stop(a)] = fate[Stop(a)]
  <2> DEFINE cmds == Commands(kind, A)
  <2>1. Stop(a) \in Command \ ToSet(cmds)
    BY <1>2, <1>3
  <2>2. cmds \in Seq(Command) /\ Sent(cmds, pool', {})
    BY <1>1, <1>2
  <2> HIDE DEF cmds
  <2>3. \A c \in Command \ ToSet(cmds) : fate'[c] = IF c \in {} THEN "dropped" ELSE fate[c]
    BY <2>2, SentOK
  <2> QED
    BY <2>1, <2>3
<1>5. Stop(a) \in Kept(pool)
  BY <1>4 DEF Inv, GeneralStopIsRetried
<1> QED
  BY <1>1, <1>3, <1>5

LEMMA TypeAfterSent ==
    ASSUME Inv, NEW cmds \in Seq(Command), NEW forgotten, Sent(cmds, pool', forgotten),
           pool' \in Pool, ordered' \in [Igniters -> Orders]
    PROVE  TypeOK'
<1>1. /\ wire' \in Seq(Command) /\ fate' \in [Command -> Fates] /\ late' \in SUBSET Command
      /\ spent' \in Spent /\ acks' \in Seq(Command) /\ burning' \in SUBSET Igniters
  BY SentOK
<1> QED
  BY <1>1 DEF TypeOK, Pool, Orders, Spent, Fates

LEMMA TypeAfterGive ==
    ASSUME Inv, NEW kind \in Kind, NEW A \in SUBSET Igniters, NEW dropped,
           Give(kind, A, dropped), ordered' \in [Igniters -> Orders]
    PROVE  TypeOK' /\ OneItemPerCommand'
<1>1. pool' \in Pool /\ Single(pool') /\ Sent(Commands(kind, A), pool', {})
  BY GiveOK
<1>2. Commands(kind, A) \in Seq(Command)
  BY CommandsOK
<1> QED
  BY <1>1, <1>2, TypeAfterSent DEF OneItemPerCommand

LEMMA OrderedIs ==
    ASSUME TypeOK, NEW how \in Orders, NEW A \in SUBSET Igniters, Ordered(how, A)
    PROVE  /\ ordered' \in [Igniters -> Orders]
           /\ \A a \in Igniters : ordered'[a] = IF a \in A THEN how ELSE ordered[a]
BY DEF Ordered, TypeOK, Orders

LEMMA ZoneIgniters == \A z : InZone(z) \in SUBSET Igniters
BY DEF InZone

\* The orders for a zone (Fire_SendPhase2Zone, Fire_SendPhase2ZonePending,
\* Fire_SendStopZone, Fire_PauseZoneCountdown, Fire_ResumeZoneCountdown).
LEMMA InvZoneOrders ==
    ASSUME Inv, NEW online \in SUBSET Igniters,
           \/ StartZone(online) \/ RestartZone(online) \/ StopZone(online)
           \/ PauseZone(online) \/ ResumeZone(online)
    PROVE  Inv'
<1>1. TypeOK
  BY DEF Inv
<1>2. ASSUME NEW A \in SUBSET Igniters, Give("START", A, {}), Ordered("START", A)
      PROVE  Inv'
  <2>1. "START" \in Kind
    BY DEF Kind
  <2>2. /\ ordered' \in [Igniters -> Orders]
        /\ \A a \in Igniters : ordered'[a] = IF a \in A THEN "START" ELSE ordered[a]
    BY <1>1, <1>2, OrderedIs DEF Orders
  <2>3. StoppedIsOff'
    BY <1>2, <2>1, <2>2, StoppedAfterGive DEF IsStopped
  <2>4. GeneralStopIsRetried'
    BY <1>2, <2>1, <2>2, RetriedAfterGive DEF GeneralStopIsRetried
  <2> QED
    BY <1>2, <2>1, <2>2, <2>3, <2>4, TypeAfterGive DEF Inv
<1>3. ASSUME NEW A \in SUBSET Igniters, Give("STOP", A, {"START"}), Ordered("STOP", A)
      PROVE  Inv'
  <2>1. "STOP" \in Kind
    BY DEF Kind
  <2>2. /\ ordered' \in [Igniters -> Orders]
        /\ \A a \in Igniters : ordered'[a] = IF a \in A THEN "STOP" ELSE ordered[a]
    BY <1>1, <1>3, OrderedIs DEF Orders
  <2>3. StoppedIsOff'
    BY <1>3, <2>1, <2>2, StoppedAfterGive DEF IsStopped
  <2>4. GeneralStopIsRetried'
    BY <1>3, <2>1, <2>2, RetriedAfterGive DEF GeneralStopIsRetried
  <2> QED
    BY <1>3, <2>1, <2>2, <2>3, <2>4, TypeAfterGive DEF Inv
<1>4. ASSUME NEW A \in SUBSET Igniters, NEW kind \in {"PAUSE", "RESUME"}, Give(kind, A, {}),
             UNCHANGED ordered
      PROVE  Inv'
  <2>1. kind \in Kind /\ kind # "START" /\ kind # "STOP" /\ ordered' \in [Igniters -> Orders]
    BY <1>1, <1>4 DEF Kind, TypeOK, Orders
  <2>2. StoppedIsOff'
    BY <1>4, <2>1, StoppedAfterGive DEF IsStopped
  <2>3. GeneralStopIsRetried'
    BY <1>4, <2>1, RetriedAfterGive DEF GeneralStopIsRetried
  <2> QED
    BY <1>4, <2>1, <2>2, <2>3, TypeAfterGive DEF Inv
<1>5. \A cap : \A A \in Collected(online, cap) : A \in SUBSET Igniters
  BY DEF Collected
<1>6. CASE StartZone(online)
  <2>1. PICK A \in Collected(online, ZoneCap) : \E unfinished \in SUBSET A :
            Give("START", unfinished, {}) /\ Ordered("START", unfinished)
    BY <1>6, Zenon DEF StartZone
  <2>2. A \in SUBSET Igniters
    BY <1>5
  <2>3. PICK unfinished \in SUBSET A :
            Give("START", unfinished, {}) /\ Ordered("START", unfinished)
    BY <2>1, Zenon
  <2> QED
    BY <1>2, <2>2, <2>3
<1>7. CASE RestartZone(online)
  BY <1>2, <1>7 DEF RestartZone
<1>8. CASE StopZone(online)
  <2>1. PICK A \in Collected(online, ZoneCap) : Give("STOP", A, {"START"}) /\ Ordered("STOP", A)
    BY <1>8, Zenon DEF StopZone
  <2> QED
    BY <1>3, <1>5, <2>1
<1>9. CASE PauseZone(online)
  <2>1. PICK A \in Collected(online, ZoneCap) : Give("PAUSE", A, {}) /\ UNCHANGED ordered
    BY <1>9, Zenon DEF PauseZone
  <2> QED
    BY <1>4, <1>5, <2>1
<1>10. CASE ResumeZone(online)
  <2>1. PICK A \in Collected(online, ZoneCap) : Give("RESUME", A, {}) /\ UNCHANGED ordered
    BY <1>10, Zenon DEF ResumeZone
  <2> QED
    BY <1>4, <1>5, <2>1
<1> QED
  BY <1>6, <1>7, <1>8, <1>9, <1>10

\* The STOP to all, which needs an item for each igniter
\* (Fire_SendStopAllMcus).
LEMMA InvStopAll ==
    ASSUME Inv, NEW online \in SUBSET Igniters, StopAll(online)
    PROVE  Inv'
<1> DEFINE dropped == {"START", "PAUSE", "RESUME"}
           p == CancelKinds(pool, dropped)
<1>0. PICK A \in Collected(online, AllCap) : Give("STOP", A, dropped) /\ Ordered("STOP_ALL", A)
  BY Zenon DEF StopAll
<1> DEFINE cmds == Commands("STOP", A)
<1>1. /\ A \in SUBSET Igniters /\ "STOP" \in Kind
      /\ pool \in Pool /\ Single(pool) /\ TypeOK /\ "START" \in dropped /\ "STOP" \notin dropped
  BY DEF Collected, Kind, Inv, TypeOK, Pool, OneItemPerCommand
<1>2. /\ ordered' \in [Igniters -> Orders]
      /\ \A a \in Igniters : ordered'[a] = IF a \in A THEN "STOP_ALL" ELSE ordered[a]
  BY <1>0, <1>1, OrderedIs DEF Orders
<1>3. p \in Pool /\ Single(p) /\ Kept(p) = {c \in Kept(pool) : c.kind \notin dropped}
  BY <1>1, CancelKindsOK
<1>4. \A c \in Kept(p) : c.kind = "STOP"
  BY <1>1, <1>3, ItemFields DEF Kept, Command, Kind
<1>5. cmds \in Seq(Command) /\ ToSet(cmds) = [kind : {"STOP"}, addr : A]
  BY <1>1, CommandsOK
<1>6. pool' = QueueAll(p, cmds)
  <2>1. Sent(cmds, QueueAll(p, cmds), {})
    BY <1>0 DEF Give
  <2> HIDE DEF cmds, p
  <2> QED
    BY <1>5, <2>1, SentOK
<1>7. \A a \in A : Stop(a) \in ToSet(cmds)
  BY <1>5 DEF Stop
<1> HIDE DEF p, cmds, dropped
<1>8. ToSet(cmds) \subseteq Kept(pool')
  <2>1. \A c \in ToSet(cmds) : c.kind = "STOP"
    BY <1>5
  <2> QED
    BY <1>3, <1>4, <1>5, <1>6, <2>1, QueueAllKeeps
<1>9. GeneralStopIsRetried'
  <2> SUFFICES ASSUME NEW a \in Igniters, ordered'[a] = "STOP_ALL", fate'[Stop(a)] = "sent"
               PROVE  Stop(a) \in Kept(pool')
    BY DEF GeneralStopIsRetried
  <2>1. CASE a \in A
    BY <1>7, <1>8, <2>1
  <2>2. CASE a \notin A
    BY <1>0, <1>1, <1>2, <2>2, RetriedAfterGive
  <2> QED
    BY <2>1, <2>2
<1>10. StoppedIsOff'
  BY <1>0, <1>1, <1>2, StoppedAfterGive DEF IsStopped
<1> QED
  BY <1>0, <1>1, <1>2, <1>9, <1>10, TypeAfterGive DEF Inv

\* The reset of a fire empties the pool (Fire_GostResetFire).
LEMMA InvResetFire ==
    ASSUME Inv, NEW online \in SUBSET Igniters, ResetFire(online)
    PROVE  Inv'
<1> DEFINE empty == [i \in Slots |-> Free]
<1>0. PICK A \in Collected(online, AllCap) :
          Sent(Commands("STOP", A), empty, Kept(pool)) /\ Ordered("RESET", A)
  BY Zenon DEF ResetFire
<1> DEFINE cmds == Commands("STOP", A)
<1>1. A \in SUBSET Igniters /\ "STOP" \in Kind
  BY DEF Collected, Kind
<1>2. cmds \in Seq(Command) /\ ToSet(cmds) = [kind : {"STOP"}, addr : A]
  BY <1>1, CommandsOK
<1>3. /\ ordered' \in [Igniters -> Orders]
      /\ \A a \in Igniters : ordered'[a] = IF a \in A THEN "RESET" ELSE ordered[a]
  BY <1>0, <1>1, OrderedIs DEF Orders, Inv
<1>4. Sent(cmds, empty, Kept(pool))
  BY <1>0
<1> HIDE DEF cmds
<1>5. pool' = empty
  <2> HIDE DEF empty
  <2> QED
    BY <1>2, <1>4, SentOK
<1>6. \A i \in Slots : pool'[i].used = FALSE
  BY <1>5 DEF Free
<1>7. Kept(pool') = {} /\ Single(pool') /\ pool' \in Pool
  BY <1>5, <1>6 DEF Kept, Single, Pool
<1> HIDE DEF empty
<1>8. Sent(cmds, pool', Kept(pool))
  BY <1>4, <1>5
<1>9. TypeOK'
  BY <1>2, <1>3, <1>7, <1>8, TypeAfterSent
<1>10. StoppedIsOff'
  BY <1>1, <1>3, <1>7, <1>8, StoppedAfterSent DEF IsStopped, cmds
<1>11. GeneralStopIsRetried'
  <2> SUFFICES ASSUME NEW a \in Igniters, ordered'[a] = "STOP_ALL", fate'[Stop(a)] = "sent"
               PROVE  FALSE
    BY DEF GeneralStopIsRetried
  <2>1. a \notin A /\ ordered[a] = "STOP_ALL"
    BY <1>3
  <2>2. Stop(a) \in Command /\ Stop(a) \notin ToSet(cmds)
    BY <1>2, <2>1, StartStop
  <2>3. fate'[Stop(a)] = IF Stop(a) \in Kept(pool) THEN "dropped" ELSE fate[Stop(a)]
    <3>1. \A c \in Command \ ToSet(cmds) :
              fate'[c] = IF c \in Kept(pool) THEN "dropped" ELSE fate[c]
      BY <1>2, <1>8, SentOK
    <3> QED
      BY <2>2, <3>1
  <2>4. fate[Stop(a)] = "sent" => Stop(a) \in Kept(pool)
    BY <2>1 DEF Inv, GeneralStopIsRetried
  <2> QED
    BY <2>3, <2>4
<1> QED
  BY <1>7, <1>9, <1>10, <1>11 DEF Inv, OneItemPerCommand

\* The items of one command leave the pool.
LEMMA ItemGone ==
    ASSUME NEW p \in Pool, NEW q, Single(p), NEW G, NEW c,
           \A i \in Slots : q[i] = IF i \in G THEN Free ELSE p[i],
           \A i \in G : CommandOf(p[i]) = c
    PROVE  Single(q) /\ Kept(q) \subseteq Kept(p) /\ Kept(p) \subseteq Kept(q) \cup {c}
<1>1. Free.used = FALSE
  BY DEF Free
<1>2. \A i \in Slots : q[i].used => q[i] = p[i] /\ p[i].used
  BY <1>1
<1>3. Single(q)
  BY <1>2 DEF Single
<1>4. Kept(q) \subseteq Kept(p)
  BY <1>2 DEF Kept
<1>5. ASSUME NEW d \in Kept(p)
      PROVE  d \in Kept(q) \cup {c}
  <2>1. PICK i \in Slots : p[i].used /\ CommandOf(p[i]) = d
    BY <1>5 DEF Kept
  <2>2. CASE i \in G
    BY <2>1, <2>2
  <2>3. CASE i \notin G
    BY <2>1, <2>3 DEF Kept
  <2> QED
    BY <2>2, <2>3
<1> QED
  BY <1>3, <1>4, <1>5

\* Fire_RetryProcess sends a command once more.
LEMMA ResendOK ==
    ASSUME Inv, NEW i \in Slots, Resend(i)
    PROVE  /\ CommandOf(pool[i]) \in Kept(pool) /\ CommandOf(pool[i]) \in Command
           /\ pool' \in Pool /\ Single(pool') /\ Kept(pool') = Kept(pool)
           /\ wire' = wire \o <<CommandOf(pool[i])>>
           /\ wire' \in Seq(Command) /\ ToSet(wire') = ToSet(wire) \cup {CommandOf(pool[i])}
           /\ UNCHANGED <<acks, burning, ordered, fate, late, spent>>
<1>1. pool \in Pool /\ wire \in Seq(Command) /\ Single(pool)
  BY DEF Inv, TypeOK, Pool, OneItemPerCommand
<1>2. pool[i] \in Item /\ CommandOf(pool[i]) \in Command /\ CommandOf(pool[i]) \in Kept(pool)
  BY <1>1, ItemFields DEF Resend, Kept
<1>3. [pool[i] EXCEPT !.attempts_sent = @ + 1] \in Item
  <2>1. pool[i].attempts_sent + 1 \in 1 .. MaxAttempts
    <3>1. pool[i].attempts_sent \in 1 .. MaxAttempts
      BY <1>2 DEF Item
    <3>2. pool[i].attempts_sent < MaxAttempts /\ MaxAttempts \in Nat
      BY PoolAssumption DEF Resend
    <3> QED
      BY <3>1, <3>2
  <2> QED
    BY <1>2, <2>1 DEF Item
<1>4. pool' = [pool EXCEPT ![i] = [pool[i] EXCEPT !.attempts_sent = @ + 1]]
  BY DEF Resend
<1>5. pool' \in Pool
  BY <1>1, <1>3, <1>4 DEF Pool
<1>6. \A j \in Slots : pool'[j].used = pool[j].used /\ CommandOf(pool'[j]) = CommandOf(pool[j])
  <2>1. /\ [pool[i] EXCEPT !.attempts_sent = @ + 1].used = pool[i].used
        /\ CommandOf([pool[i] EXCEPT !.attempts_sent = @ + 1]) = CommandOf(pool[i])
    BY <1>2 DEF Item, CommandOf
  <2> QED
    BY <1>1, <1>4, <2>1 DEF Pool
<1>7. Kept(pool') = Kept(pool) /\ Single(pool')
  BY <1>1, <1>6 DEF Kept, Single
<1>8. wire' \in Seq(Command) /\ ToSet(wire') = ToSet(wire) \cup {CommandOf(pool[i])}
  BY <1>1, <1>2, QueueEnds DEF Resend
<1>10. wire' = wire \o <<CommandOf(pool[i])>>
  <2> DEFINE c == CommandOf(pool[i])
  <2>1. wire' = Append(wire, c)
    BY DEF Resend
  <2> HIDE DEF c
  <2>2. Append(wire, c) = wire \o <<c>>
    BY <1>1
  <2> QED
    BY <2>1, <2>2 DEF c
<1>9. UNCHANGED <<acks, burning, ordered, fate, late, spent>>
  BY DEF Resend
<1> QED
  BY <1>2, <1>5, <1>7, <1>8, <1>9, <1>10

LEMMA One ==
    ASSUME NEW c \in Command
    PROVE  <<c>> \in Seq(Command) /\ ToSet(<<c>>) = {c}
<1>1. <<c>> \in Seq(Command) /\ DOMAIN <<c>> = {1} /\ <<c>>[1] = c
  OBVIOUS
<1> QED
  BY <1>1 DEF ToSet

LEMMA InvResend ==
    ASSUME Inv, NEW i \in Slots, Resend(i)
    PROVE  Inv'
<1> DEFINE c == CommandOf(pool[i])
<1>1. /\ c \in Kept(pool) /\ c \in Command
      /\ pool' \in Pool /\ Single(pool') /\ Kept(pool') = Kept(pool)
      /\ wire' = wire \o <<c>>
      /\ wire' \in Seq(Command) /\ ToSet(wire') = ToSet(wire) \cup {c}
      /\ UNCHANGED <<acks, burning, ordered, fate, late, spent>>
  BY ResendOK
<1> HIDE DEF c
<1>2. TypeOK'
  BY <1>1 DEF Inv, TypeOK, Pool, Fates
<1>3. StoppedIsOff'
  <2> SUFFICES ASSUME NEW a \in Igniters, IsStopped(a)
               PROVE  /\ Start(a) \notin Kept(pool') /\ Start(a) \notin Loose(wire')
                      /\ Stop(a) \notin late =>
                             /\ InTime(wire', a)
                             /\ Stop(a) \in ToSet(acks) \/ fate[Stop(a)] = "acknowledged" =>
                                    a \notin burning /\ Start(a) \notin ToSet(wire')
    BY <1>1 DEF StoppedIsOff, IsStopped
  <2>1. /\ Start(a) \notin Kept(pool) /\ Start(a) \notin Loose(wire)
        /\ Stop(a) \notin late =>
               /\ InTime(wire, a)
               /\ Stop(a) \in ToSet(acks) \/ fate[Stop(a)] = "acknowledged" =>
                      a \notin burning /\ Start(a) \notin ToSet(wire)
    BY DEF Inv, StoppedIsOff
  <2>2. wire \in Seq(Command) /\ <<c>> \in Seq(Command) /\ ToSet(<<c>>) = {c} /\ c # Start(a)
    <3>1. <<c>> \in Seq(Command) /\ ToSet(<<c>>) = {c}
      BY <1>1, One
    <3>2. wire \in Seq(Command)
      BY DEF Inv, TypeOK
    <3> QED
      BY <1>1, <2>1, <3>1, <3>2
  <2>3. \A d \in ToSet(<<c>>) : d.kind = c.kind
    BY <2>2
  <2>4. wire' = wire \o <<c>> /\ ToSet(wire') = ToSet(wire) \cup {c} /\ Kept(pool') = Kept(pool)
    BY <1>1
  <2>5. Start(a) \notin Loose(wire')
    BY <2>1, <2>2, <2>3, <2>4, LooseThen
  <2>6. InTime(wire, a) => InTime(wire', a)
    BY <2>2, <2>4, InTimeThen
  <2> QED
    BY <2>1, <2>2, <2>4, <2>5, <2>6
<1>4. GeneralStopIsRetried'
  BY <1>1 DEF Inv, GeneralStopIsRetried
<1> QED
  BY <1>1, <1>2, <1>3, <1>4 DEF Inv, OneItemPerCommand

\* Fire_RetryProcess gives a command up.
LEMMA GiveUpOK ==
    ASSUME Inv, NEW i \in Slots, GiveUp(i)
    PROVE  /\ CommandOf(pool[i]) \in Command
           /\ fate' = [fate EXCEPT ![CommandOf(pool[i])] = "given up"]
           /\ pool' \in Pool /\ Single(pool') /\ Kept(pool') \subseteq Kept(pool)
           /\ Kept(pool) \subseteq Kept(pool') \cup {CommandOf(pool[i])}
           /\ UNCHANGED <<wire, acks, burning, ordered, late, spent>>
<1> DEFINE c == CommandOf(pool[i])
<1>1. pool \in Pool /\ Single(pool)
  BY DEF Inv, TypeOK, Pool, OneItemPerCommand
<1>2. c \in Command
  BY <1>1, ItemFields DEF GiveUp
<1>3. pool' = [pool EXCEPT ![i] = Free] /\ fate' = [fate EXCEPT ![c] = "given up"]
  BY DEF GiveUp
<1>4. pool' \in Pool /\ \A j \in Slots : pool'[j] = IF j \in {i} THEN Free ELSE pool[j]
  BY <1>1, <1>3 DEF Pool
<1>5. /\ Single(pool') /\ Kept(pool') \subseteq Kept(pool)
      /\ Kept(pool) \subseteq Kept(pool') \cup {c}
  BY <1>1, <1>4, ItemGone
<1>6. UNCHANGED <<wire, acks, burning, ordered, late, spent>>
  BY DEF GiveUp
<1> QED
  BY <1>2, <1>3, <1>4, <1>5, <1>6

LEMMA InvGiveUp ==
    ASSUME Inv, NEW i \in Slots, GiveUp(i)
    PROVE  Inv'
<1> DEFINE c == CommandOf(pool[i])
<1>1. c \in Command
  BY GiveUpOK
<1>2. fate' = [fate EXCEPT ![c] = "given up"]
  BY GiveUpOK
<1>3. pool' \in Pool
  BY GiveUpOK
<1>4. /\ Single(pool') /\ Kept(pool') \subseteq Kept(pool)
      /\ Kept(pool) \subseteq Kept(pool') \cup {c}
  BY GiveUpOK
<1>5. UNCHANGED <<wire, acks, burning, ordered, late, spent>>
  BY GiveUpOK
<1> HIDE DEF c
<1>6. /\ fate' \in [Command -> Fates]
      /\ \A d \in Command : fate'[d] = IF d = c THEN "given up" ELSE fate[d]
  BY <1>1, <1>2 DEF Inv, TypeOK, Fates
<1>7. TypeOK'
  BY <1>3, <1>5, <1>6 DEF Inv, TypeOK, Pool, Fates
<1>8. StoppedIsOff'
  BY <1>4, <1>5, <1>6, StartStop DEF Inv, StoppedIsOff, IsStopped
<1>9. GeneralStopIsRetried'
  <2> SUFFICES ASSUME NEW a \in Igniters, ordered[a] = "STOP_ALL", fate'[Stop(a)] = "sent"
               PROVE  Stop(a) \in Kept(pool')
    BY <1>5 DEF GeneralStopIsRetried
  <2>1. Stop(a) # c /\ fate[Stop(a)] = "sent"
    BY <1>6, StartStop
  <2>2. Stop(a) \in Kept(pool)
    BY <2>1 DEF Inv, GeneralStopIsRetried
  <2> QED
    BY <1>4, <2>1, <2>2
<1> QED
  BY <1>4, <1>7, <1>8, <1>9 DEF Inv, OneItemPerCommand

\* An acknowledgement arrives (Fire_RetryAckByMsgId).
LEMMA AcknowledgedOK ==
    ASSUME Inv, Acknowledged
    PROVE  /\ Head(acks) \in Command /\ Head(acks) \in ToSet(acks)
           /\ acks' \in Seq(Command) /\ ToSet(acks') \subseteq ToSet(acks)
           /\ fate' = [fate EXCEPT ![Head(acks)] = "acknowledged"]
           /\ pool' \in Pool /\ Single(pool') /\ Kept(pool') \subseteq Kept(pool)
           /\ Kept(pool) \subseteq Kept(pool') \cup {Head(acks)}
           /\ UNCHANGED <<wire, burning, ordered, late, spent>>
<1> DEFINE c == Head(acks)
           G == Matching(pool, c)
<1>1. pool \in Pool /\ Single(pool) /\ acks \in Seq(Command) /\ acks # <<>>
  BY DEF Inv, TypeOK, Pool, OneItemPerCommand, Acknowledged
<1>2. c \in ToSet(acks) /\ c \in Command /\ acks' \in Seq(Command) /\ ToSet(acks') \subseteq ToSet(acks)
  BY <1>1, QueueEnds DEF Acknowledged
<1>3. pool' = [i \in Slots |-> IF i \in G THEN Free ELSE pool[i]]
  BY DEF Acknowledged
<1>4. pool' \in Pool /\ \A j \in Slots : pool'[j] = IF j \in G THEN Free ELSE pool[j]
  BY <1>1, <1>3 DEF Pool
<1>5. \A i \in G : i \in Slots /\ CommandOf(pool[i]) = c
  BY <1>1, <1>2, HoldsIsCommand DEF Matching
<1>6. /\ fate' = [fate EXCEPT ![c] = "acknowledged"]
      /\ UNCHANGED <<wire, burning, ordered, late, spent>>
  BY DEF Acknowledged
<1> HIDE DEF c, G
<1>7. /\ Single(pool') /\ Kept(pool') \subseteq Kept(pool)
      /\ Kept(pool) \subseteq Kept(pool') \cup {c}
  BY <1>1, <1>4, <1>5, ItemGone
<1> QED
  BY <1>2, <1>4, <1>6, <1>7 DEF c

LEMMA InvAcknowledged ==
    ASSUME Inv, Acknowledged
    PROVE  Inv'
<1> DEFINE c == Head(acks)
<1>1. c \in ToSet(acks) /\ c \in Command /\ acks' \in Seq(Command) /\ ToSet(acks') \subseteq ToSet(acks)
  BY AcknowledgedOK
<1>2. pool' \in Pool
  BY AcknowledgedOK
<1>3. /\ fate' = [fate EXCEPT ![c] = "acknowledged"]
      /\ UNCHANGED <<wire, burning, ordered, late, spent>>
  BY AcknowledgedOK
<1>4. /\ Single(pool') /\ Kept(pool') \subseteq Kept(pool)
      /\ Kept(pool) \subseteq Kept(pool') \cup {c}
  BY AcknowledgedOK
<1> HIDE DEF c
<1>5. /\ fate' \in [Command -> Fates]
      /\ \A d \in Command : fate'[d] = IF d = c THEN "acknowledged" ELSE fate[d]
  BY <1>1, <1>3 DEF Inv, TypeOK, Fates
<1>6. TypeOK'
  BY <1>1, <1>2, <1>3, <1>5 DEF Inv, TypeOK, Pool, Fates
<1>7. StoppedIsOff'
  <2> SUFFICES ASSUME NEW a \in Igniters, IsStopped(a)
               PROVE  /\ Start(a) \notin Kept(pool') /\ Start(a) \notin Loose(wire)
                      /\ Stop(a) \notin late =>
                             /\ InTime(wire, a)
                             /\ Stop(a) \in ToSet(acks') \/ fate'[Stop(a)] = "acknowledged" =>
                                    a \notin burning /\ Start(a) \notin ToSet(wire)
    BY <1>3 DEF StoppedIsOff, IsStopped
  <2>1. /\ Start(a) \notin Kept(pool) /\ Start(a) \notin Loose(wire)
        /\ Stop(a) \notin late =>
               /\ InTime(wire, a)
               /\ Stop(a) \in ToSet(acks) \/ fate[Stop(a)] = "acknowledged" =>
                      a \notin burning /\ Start(a) \notin ToSet(wire)
    BY DEF Inv, StoppedIsOff
  <2>2. fate'[Stop(a)] = "acknowledged" => Stop(a) = c \/ fate[Stop(a)] = "acknowledged"
    BY <1>5, StartStop
  <2> QED
    BY <1>1, <1>4, <2>1, <2>2
<1>8. GeneralStopIsRetried'
  BY <1>3, <1>4, <1>5, StartStop DEF Inv, GeneralStopIsRetried
<1> QED
  BY <1>4, <1>6, <1>7, <1>8 DEF Inv, OneItemPerCommand

\* An igniter carries out a command.
LEMMA InvCarryOut ==
    ASSUME Inv, CarryOut
    PROVE  Inv'
<1> DEFINE c == Head(wire)
<1>1. wire \in Seq(Command) /\ wire # <<>> /\ acks \in Seq(Command)
  BY DEF Inv, TypeOK, CarryOut
<1>2. c \in ToSet(wire) /\ c \in Command /\ wire' \in Seq(Command) /\ ToSet(wire') \subseteq ToSet(wire)
  BY <1>1, QueueEnds DEF CarryOut
<1>3. acks' \in Seq(Command) /\ ToSet(acks') = ToSet(acks) \cup {c}
  BY <1>1, <1>2, QueueEnds DEF CarryOut
<1>4. /\ burning' = CASE c.kind = "START" -> burning \cup {c.addr}
                      [] c.kind = "STOP" -> burning \ {c.addr}
                      [] OTHER -> burning
      /\ UNCHANGED <<pool, ordered, fate, late, spent>>
  BY DEF CarryOut
<1> HIDE DEF c
<1>5. /\ c.kind = "START" => burning' = burning \cup {c.addr}
      /\ c.kind = "STOP" => burning' = burning \ {c.addr}
      /\ c.kind \notin {"START", "STOP"} => burning' = burning
      /\ c.addr \in Igniters
  BY <1>2, <1>4 DEF Command
<1>6. burning' \in SUBSET Igniters
  BY <1>5 DEF Inv, TypeOK
<1>7. TypeOK'
  BY <1>2, <1>3, <1>4, <1>6 DEF Inv, TypeOK
<1>8. StoppedIsOff'
  <2> SUFFICES ASSUME NEW a \in Igniters, IsStopped(a)
               PROVE  /\ Start(a) \notin Kept(pool) /\ Start(a) \notin Loose(wire')
                      /\ Stop(a) \notin late =>
                             /\ InTime(wire', a)
                             /\ Stop(a) \in ToSet(acks') \/ fate[Stop(a)] = "acknowledged" =>
                                    a \notin burning' /\ Start(a) \notin ToSet(wire')
    <3>1. pool' = pool /\ late' = late /\ fate' = fate
      BY <1>4
    <3>2. Kept(pool') = Kept(pool)
      BY <3>1
    <3> QED
      BY <1>4, <3>1, <3>2 DEF StoppedIsOff, IsStopped
  <2>1. /\ Start(a) \notin Kept(pool) /\ Start(a) \notin Loose(wire)
        /\ Stop(a) \notin late =>
               /\ InTime(wire, a)
               /\ Stop(a) \in ToSet(acks) \/ fate[Stop(a)] = "acknowledged" =>
                      a \notin burning /\ Start(a) \notin ToSet(wire)
    BY DEF Inv, StoppedIsOff
  <2>2. /\ Loose(wire') \subseteq Loose(wire)
        /\ InTime(wire, a) => /\ InTime(wire', a)
                              /\ c = Stop(a) => Start(a) \notin ToSet(wire')
    <3>1. wire' = Tail(wire)
      BY DEF CarryOut
    <3> QED
      BY <1>1, <3>1, LooseTail DEF c
  <2>3. c.kind = "START" /\ c.addr = a => c = Start(a)
    BY <1>2 DEF Start, Command
  <2>4. c = Stop(a) => a \notin burning'
    BY <1>5, StartStop
  <2>5. a \notin burning /\ c # Start(a) => a \notin burning'
    BY <1>5, <2>3
  <2> QED
    BY <1>2, <1>3, <2>1, <2>2, <2>4, <2>5
<1> QED
  BY <1>4, <1>7, <1>8 DEF Inv, OneItemPerCommand, GeneralStopIsRetried

\* Something is lost on the bus.
LEMMA InvLose ==
    ASSUME Inv, LoseCommand \/ LoseAck
    PROVE  Inv'
<1>1. spent' \in Spent
  <2>1. spent \in Spent /\ spent.lost < MaxLost /\ spent' = [spent EXCEPT !.lost = @ + 1]
    BY DEF Inv, TypeOK, Spent, LoseCommand, LoseAck
  <2>2. spent.lost + 1 \in 0 .. MaxLost
    BY <2>1, PoolAssumption DEF Spent
  <2> QED
    BY <2>1, <2>2 DEF Spent
<1>2. /\ wire' \in Seq(Command) /\ acks' \in Seq(Command)
      /\ ToSet(wire') \subseteq ToSet(wire) /\ ToSet(acks') \subseteq ToSet(acks)
      /\ Loose(wire') \subseteq Loose(wire) /\ \A a : InTime(wire, a) => InTime(wire', a)
  <2>1. wire \in Seq(Command) /\ acks \in Seq(Command)
    BY DEF Inv, TypeOK
  <2>2. CASE LoseCommand
    <3>1. wire # <<>> /\ wire' = Tail(wire) /\ acks' = acks
      BY <2>2 DEF LoseCommand
    <3> QED
      BY <2>1, <3>1, QueueEnds, LooseTail
  <2>3. CASE LoseAck
    <3>1. acks # <<>> /\ acks' = Tail(acks) /\ wire' = wire
      BY <2>3 DEF LoseAck
    <3>2. Loose(wire') = Loose(wire) /\ \A a : InTime(wire, a) => InTime(wire', a)
      BY <3>1
    <3> QED
      BY <2>1, <3>1, <3>2, QueueEnds
  <2> QED
    BY <2>2, <2>3
<1>3. UNCHANGED <<pool, burning, ordered, fate, late>>
  BY DEF LoseCommand, LoseAck
<1>4. TypeOK'
  BY <1>1, <1>2, <1>3 DEF Inv, TypeOK, Spent
<1>5. StoppedIsOff'
  <2>1. Kept(pool') = Kept(pool)
    BY <1>3
  <2> QED
    BY <1>2, <1>3, <2>1 DEF Inv, StoppedIsOff, IsStopped
<1> QED
  BY <1>3, <1>4, <1>5 DEF Inv, OneItemPerCommand, GeneralStopIsRetried

LEMMA InvNext == Inv /\ [Next]_vars => Inv'
<1> SUFFICES ASSUME Inv, [Next]_vars PROVE Inv'
  OBVIOUS
<1>1. CASE UNCHANGED vars
  <2>1. /\ Kept(pool') = Kept(pool) /\ Loose(wire') = Loose(wire) /\ ToSet(wire') = ToSet(wire)
        /\ \A a : InTime(wire, a) => InTime(wire', a)
    BY <1>1 DEF vars
  <2> QED
    BY <1>1, <2>1 DEF vars, Inv, TypeOK, OneItemPerCommand, StoppedIsOff, IsStopped,
                      GeneralStopIsRetried
<1>2. \A z : \A A \in SUBSET InZone(z) : A \in SUBSET Igniters
  BY ZoneIgniters
<1> QED
  BY <1>1, <1>2, InvZoneOrders, InvStopAll, InvResetFire, InvResend, InvGiveUp, InvAcknowledged,
     InvCarryOut, InvLose DEF Next

LEMMA InvAlways == Spec => []Inv
BY InvInit, InvNext, PTL DEF Spec
-----------------------------------------------------------------------------
(* The zones with a START: the pool as module Fire takes it for granted. *)

Waiting == StartsOf(Kept(pool))
OnWire == StartsOf(Loose(wire))

StartsStep == [Starts!Next]_<<Waiting, OnWire, Halted>>

LEMMA StartsOfLess ==
    ASSUME NEW C, NEW D, \A c \in C : c.kind = "START" => c \in D
    PROVE  StartsOf(C) \subseteq StartsOf(D)
BY DEF StartsOf

\* One command less.
LEMMA StartsOfOne ==
    ASSUME NEW C, NEW D, NEW c \in Command, D \subseteq C, C \subseteq D \cup {c}
    PROVE  StartsOf(D) = StartsOf(C) \/ \E z \in Zones : StartsOf(D) = StartsOf(C) \ {z}
<1>1. StartsOf(D) \subseteq StartsOf(C)
  BY StartsOfLess
<1>2. ZoneOf[c.addr] \in Zones
  BY IgnitersAssumption DEF Command
<1>3. StartsOf(C) \subseteq StartsOf(D) \cup {ZoneOf[c.addr]}
  BY DEF StartsOf
<1> QED
  BY <1>1, <1>2, <1>3

\* The START of the igniters of A.
LEMMA StartsOfGiven ==
    ASSUME NEW kind, NEW A \in SUBSET Igniters
    PROVE  /\ kind # "START" => StartsOf([kind : {kind}, addr : A]) = {}
           /\ kind = "START" => StartsOf([kind : {kind}, addr : A]) = {ZoneOf[a] : a \in A}
<1> DEFINE G == [kind : {kind}, addr : A]
<1>1. \A c \in G : c.kind = kind /\ c.addr \in A
  OBVIOUS
<1>2. \A a \in A : [kind |-> kind, addr |-> a] \in G
  OBVIOUS
<1>3. kind # "START" => StartsOf(G) = {}
  <2> HIDE DEF G
  <2> QED
    BY <1>1 DEF StartsOf
<1>4. kind = "START" => StartsOf(G) \subseteq {ZoneOf[a] : a \in A}
  <2> HIDE DEF G
  <2> QED
    BY <1>1 DEF StartsOf
<1>5. ASSUME kind = "START", NEW a \in A
      PROVE  ZoneOf[a] \in StartsOf(G)
  <2> DEFINE c == [kind |-> kind, addr |-> a]
  <2>1. c \in G /\ c.kind = "START" /\ c.addr = a
    BY <1>2, <1>5
  <2> HIDE DEF c, G
  <2> QED
    BY <2>1 DEF StartsOf
<1> HIDE DEF G
<1>6. kind = "START" => StartsOf(G) = {ZoneOf[a] : a \in A}
  BY <1>4, <1>5
<1> QED
  BY <1>3, <1>6 DEF G

\* What a command of the panel does to the STARTs on their way.
LEMMA StartsSent ==
    ASSUME Inv, NEW kind \in Kind, NEW A \in SUBSET Igniters, NEW p, NEW forgotten,
           Sent(Commands(kind, A), p, forgotten)
    PROVE  /\ kind = "START" => OnWire' = OnWire \cup {ZoneOf[a] : a \in A}
           /\ kind # "START" => OnWire' \subseteq OnWire
           /\ kind \notin {"START", "STOP"} => OnWire' = OnWire
<1> DEFINE cmds == Commands(kind, A)
           G == [kind : {kind}, addr : A]
<1>1. cmds \in Seq(Command) /\ ToSet(cmds) = G
  BY CommandsOK
<1>2. wire' = wire \o cmds /\ wire \in Seq(Command)
  <2>1. Sent(cmds, p, forgotten)
    OBVIOUS
  <2> HIDE DEF cmds
  <2> QED
    BY <1>1, <2>1, SentOK DEF Inv, TypeOK
<1>3. \A c \in G : c.kind = kind
  OBVIOUS
<1>4. \A a : Stop(a) \in G => kind = "STOP"
  BY DEF Stop
<1>5. StartsOf(G) = IF kind = "START" THEN {ZoneOf[a] : a \in A} ELSE {}
  BY StartsOfGiven
<1>6. OnWire' = StartsOf(Loose(wire'))
  BY DEF OnWire, StartsOf
<1> HIDE DEF cmds, G
<1>7. \A c : c \in Loose(wire') <=>
          \/ c \in Loose(wire) /\ Stop(c.addr) \notin G
          \/ kind = "START" /\ c \in G
  BY <1>1, <1>2, <1>3, LooseThen
<1>8. CASE kind = "START"
  <2>1. Loose(wire') = Loose(wire) \cup G
    BY <1>4, <1>7, <1>8
  <2>2. StartsOf(Loose(wire) \cup G) = StartsOf(Loose(wire)) \cup StartsOf(G)
    BY DEF StartsOf
  <2> QED
    BY <1>5, <1>6, <1>8, <2>1, <2>2 DEF OnWire
<1>9. CASE kind # "START"
  <2>1. Loose(wire') \subseteq Loose(wire)
    BY <1>7, <1>9
  <2>2. OnWire' \subseteq OnWire
    BY <1>6, <2>1, StartsOfLess DEF OnWire
  <2>3. kind # "STOP" => Loose(wire') = Loose(wire)
    BY <1>4, <1>7, <1>9
  <2> QED
    BY <1>6, <1>9, <2>2, <2>3 DEF OnWire
<1> QED
  BY <1>8, <1>9

\* What it does to the STARTs that wait.
LEMMA StartsGiven ==
    ASSUME Inv, NEW kind \in Kind, NEW A \in SUBSET Igniters, NEW dropped,
           Give(kind, A, dropped)
    PROVE  /\ Sent(Commands(kind, A), pool', {})
           /\ "START" \notin dropped => Waiting \subseteq Waiting'
           /\ "START" \in dropped /\ kind # "START" => Waiting' = {}
           /\ Waiting' \subseteq Waiting \cup (IF kind = "START" THEN {ZoneOf[a] : a \in A} ELSE {})
<1> DEFINE G == [kind : {kind}, addr : A]
<1>1. /\ {c \in Kept(pool) : c.kind \notin dropped} \subseteq Kept(pool')
      /\ Kept(pool') \subseteq {c \in Kept(pool) : c.kind \notin dropped} \cup G
      /\ Sent(Commands(kind, A), pool', {})
  BY GiveOK
<1>2. Waiting' = StartsOf(Kept(pool'))
  BY DEF Waiting, StartsOf
<1>3. StartsOf(G) = IF kind = "START" THEN {ZoneOf[a] : a \in A} ELSE {}
  BY StartsOfGiven
<1>4. \A c \in G : c.kind = kind
  OBVIOUS
<1> HIDE DEF G
<1>5. "START" \notin dropped => Waiting \subseteq Waiting'
  <2>1. "START" \notin dropped => \A c \in Kept(pool) : c.kind = "START" => c \in Kept(pool')
    BY <1>1
  <2> QED
    BY <1>2, <2>1, StartsOfLess DEF Waiting
<1>6. "START" \in dropped /\ kind # "START" => Waiting' = {}
  <2>1. "START" \in dropped /\ kind # "START" => \A c \in Kept(pool') : c.kind # "START"
    BY <1>1, <1>4
  <2> QED
    BY <1>2, <2>1 DEF StartsOf
<1>7. Waiting' \subseteq Waiting \cup StartsOf(G)
  <2>1. \A c \in Kept(pool') : c \in Kept(pool) \/ c \in G
    BY <1>1
  <2> QED
    BY <1>2, <2>1 DEF StartsOf, Waiting
<1> QED
  BY <1>1, <1>3, <1>5, <1>6, <1>7

LEMMA HaltedNext ==
    Halted' = {y \in Zones : /\ InZone(y) # {}
                             /\ \A a \in InZone(y) : ordered'[a] \in {"STOP", "STOP_ALL", "RESET"}}
BY DEF Halted, InZone

\* Fire_SendPhase2Zone, Fire_SendPhase2ZonePending; a zone without igniters to
\* start gets nothing.
LEMMA StartZoneStarts ==
    ASSUME Inv, NEW z \in Zones, NEW A \in SUBSET InZone(z), Give("START", A, {}),
           Ordered("START", A)
    PROVE  StartsStep
<1>1. "START" \in Kind /\ A \in SUBSET Igniters
  BY ZoneIgniters DEF Kind
<1>2. \A a \in Igniters : ordered'[a] = IF a \in A THEN "START" ELSE ordered[a]
  BY <1>1, OrderedIs DEF Orders, Inv
<1>3. \A a \in A : ZoneOf[a] = z
  BY DEF InZone
<1>4. /\ OnWire' = OnWire \cup {ZoneOf[a] : a \in A}
      /\ Waiting \subseteq Waiting' /\ Waiting' \subseteq Waiting \cup {ZoneOf[a] : a \in A}
  <2>1. /\ Sent(Commands("START", A), pool', {})
        /\ Waiting \subseteq Waiting' /\ Waiting' \subseteq Waiting \cup {ZoneOf[a] : a \in A}
    BY <1>1, StartsGiven
  <2> QED
    BY <1>1, <2>1, StartsSent
<1>5. \A y \in Zones : y # z => \A a \in InZone(y) : ordered'[a] = ordered[a]
  BY <1>2, <1>3, ZoneIgniters DEF InZone
<1>6. CASE A = {}
  <2>1. OnWire' = OnWire /\ Waiting' = Waiting
    BY <1>4, <1>6
  <2>2. \A y \in Zones : \A a \in InZone(y) : ordered'[a] = ordered[a]
    BY <1>2, <1>6, ZoneIgniters
  <2>3. Halted' = Halted
    BY <2>2, HaltedNext DEF Halted
  <2> QED
    BY <2>1, <2>3 DEF StartsStep
<1>7. CASE A # {}
  <2>1. {ZoneOf[a] : a \in A} = {z}
    BY <1>3, <1>7
  <2>2. OnWire' = OnWire \cup {z} /\ Waiting' \in {Waiting, Waiting \cup {z}}
    BY <1>4, <2>1
  <2>3. Halted' = Halted \ {z}
    <3>1. z \notin Halted'
      BY <1>1, <1>2, <1>7, HaltedNext
    <3>2. \A y \in Zones : y # z => (y \in Halted' <=> y \in Halted)
      BY <1>5, HaltedNext DEF Halted
    <3>3. Halted \subseteq Zones /\ Halted' \subseteq Zones
      BY HaltedNext DEF Halted
    <3> QED
      BY <3>1, <3>2, <3>3
  <2>4. Starts!StartZone(z)
    BY <2>2, <2>3 DEF Starts!StartZone, Waiting, OnWire
  <2> QED
    BY <2>4 DEF Starts!Next, StartsStep
<1> QED
  BY <1>6, <1>7

\* Fire_SendStopZone, Fire_SendStopAllMcus and the reset of a fire: all STARTs
\* that wait are dropped, and those on their way to an igniter that is stopped
\* have its STOP behind them.
LEMMA StopStarts ==
    ASSUME Inv, StoppedIsOff', NEW A \in SUBSET Igniters, NEW how \in {"STOP", "STOP_ALL", "RESET"},
           Ordered(how, A), OnWire' \subseteq OnWire, Waiting' = {}
    PROVE  StartsStep
<1>1. \A a \in Igniters : ordered'[a] = IF a \in A THEN how ELSE ordered[a]
  BY OrderedIs DEF Orders, Inv
<1>2. Halted \subseteq Halted' /\ Halted' \in SUBSET Zones
  BY <1>1, ZoneIgniters, HaltedNext DEF Halted
<1>3. ASSUME NEW z \in Halted', z \in OnWire'
      PROVE  FALSE
  <2>1. OnWire' = StartsOf(Loose(wire'))
    BY DEF OnWire, StartsOf
  <2>2. PICK c \in Loose(wire') : c.kind = "START" /\ ZoneOf[c.addr] = z
    BY <1>3, <2>1 DEF StartsOf
  <2>3. c \in Command
    BY DEF Loose
  <2>4. c.addr \in Igniters /\ c = Start(c.addr)
    BY <2>2, <2>3 DEF Command, Start
  <2>5. c.addr \in InZone(z)
    BY <2>2, <2>4 DEF InZone
  <2>6. IsStopped(c.addr)'
    BY <1>3, <2>5, HaltedNext DEF IsStopped
  <2> QED
    BY <2>2, <2>4, <2>6 DEF StoppedIsOff
<1>4. Halted' = Halted \cup Halted' /\ OnWire' \in SUBSET (OnWire \ Halted')
  BY <1>2, <1>3
<1>5. PICK Z \in SUBSET Zones : Halted' = Halted \cup Z /\ OnWire' \in SUBSET (OnWire \ Z)
  BY <1>2, <1>4
<1>6. Starts!StopZones(Z)
  BY <1>5 DEF Starts!StopZones, Waiting, OnWire
<1> QED
  BY <1>6 DEF Starts!Next, StartsStep

\* An item goes: the last START of a zone settles it, others change nothing.
LEMMA SettleStarts ==
    ASSUME NEW c \in Command, Kept(pool') \subseteq Kept(pool),
           Kept(pool) \subseteq Kept(pool') \cup {c}, UNCHANGED <<wire, ordered>>
    PROVE  StartsStep
<1>1. OnWire' = OnWire /\ Halted' = Halted
  <2>1. Loose(wire') = Loose(wire)
    OBVIOUS
  <2> QED
    BY <2>1 DEF OnWire, Halted, StartsOf, InZone
<1>2. Waiting' = StartsOf(Kept(pool'))
  BY DEF Waiting, StartsOf
<1>3. Waiting' = Waiting \/ \E z \in Zones : Waiting' = Waiting \ {z}
  BY <1>2, StartsOfOne DEF Waiting
<1>4. ASSUME NEW z \in Zones, Waiting' = Waiting \ {z}
      PROVE  Starts!Settle(z)
  BY <1>1, <1>4 DEF Starts!Settle, Waiting, OnWire
<1> QED
  BY <1>1, <1>3, <1>4 DEF Starts!Next, StartsStep

\* A command leaves the bus, carried out or lost.
LEMMA ArriveStarts ==
    ASSUME Inv, wire # <<>>, wire' = Tail(wire), UNCHANGED <<pool, ordered>>
    PROVE  StartsStep
<1>1. wire \in Seq(Command)
  BY DEF Inv, TypeOK
<1>2. /\ Head(wire) \in Command /\ Loose(wire') \subseteq Loose(wire)
      /\ Loose(wire) \subseteq Loose(wire') \cup {Head(wire)}
  BY <1>1, QueueEnds, LooseTail
<1>3. Waiting' = Waiting /\ Halted' = Halted /\ OnWire' = StartsOf(Loose(wire'))
  BY DEF OnWire, Waiting, Kept, Halted, StartsOf, InZone
<1>4. OnWire' = OnWire \/ \E z \in Zones : OnWire' = OnWire \ {z}
  BY <1>2, <1>3, StartsOfOne DEF OnWire
<1>5. ASSUME NEW z \in Zones, OnWire' = OnWire \ {z}
      PROVE  Starts!Arrive(z)
  BY <1>3, <1>5 DEF Starts!Arrive, Waiting, OnWire
<1> QED
  BY <1>3, <1>4, <1>5 DEF Starts!Next, StartsStep

\* Fire_RetryProcess; a STOP sent again may follow a START.
LEMMA ResendStarts ==
    ASSUME Inv, NEW i \in Slots, Resend(i)
    PROVE  StartsStep
<1> DEFINE c == CommandOf(pool[i])
           z == ZoneOf[c.addr]
<1>1. /\ c \in Kept(pool) /\ c \in Command /\ Kept(pool') = Kept(pool)
      /\ wire' = wire \o <<c>> /\ ordered' = ordered
  BY ResendOK
<1>2. z \in Zones /\ c.addr \in Igniters
  BY <1>1, IgnitersAssumption DEF Command
<1>3. wire \in Seq(Command) /\ <<c>> \in Seq(Command) /\ ToSet(<<c>>) = {c}
  BY <1>1, One DEF Inv, TypeOK
<1> HIDE DEF c
<1>4. \A d : d \in Loose(wire') <=>
          \/ d \in Loose(wire) /\ Stop(d.addr) # c
          \/ c.kind = "START" /\ d = c
  <2> DEFINE t == <<c>>
             kind == c.kind
  <2>1. /\ t \in Seq(Command) /\ wire' = wire \o t /\ \A d \in ToSet(t) : d.kind = kind
        /\ \A d : d \in ToSet(t) <=> d = c
    BY <1>1, <1>3
  <2> HIDE DEF t, kind
  <2>2. \A d : d \in Loose(wire') <=>
            \/ d \in Loose(wire) /\ Stop(d.addr) \notin ToSet(t)
            \/ kind = "START" /\ d \in ToSet(t)
    BY <1>3, <2>1, LooseThen
  <2> QED
    BY <2>1, <2>2 DEF kind
<1>5. Waiting' = Waiting /\ Halted' = Halted /\ OnWire' = StartsOf(Loose(wire'))
  <2>1. Waiting' = StartsOf(Kept(pool')) /\ OnWire' = StartsOf(Loose(wire'))
    BY DEF Waiting, OnWire, StartsOf
  <2>2. Halted' = Halted
    BY <1>1 DEF Halted, InZone
  <2> QED
    BY <1>1, <2>1, <2>2 DEF Waiting
<1>6. CASE c.kind = "START"
  <2>1. z \in Waiting
    BY <1>1, <1>6 DEF Waiting, StartsOf
  <2>2. \A a : Stop(a) # c
    BY <1>6 DEF Stop
  <2>3. Loose(wire') = Loose(wire) \cup {c}
    BY <1>4, <1>6, <2>2
  <2>4. StartsOf(Loose(wire) \cup {c}) = StartsOf(Loose(wire)) \cup {z}
    BY <1>6 DEF StartsOf
  <2>5. Starts!Resend(z)
    BY <1>5, <2>1, <2>3, <2>4 DEF Starts!Resend, Waiting, OnWire
  <2> QED
    BY <1>2, <2>5 DEF Starts!Next, StartsStep
<1>7. CASE c.kind # "START"
  <2> DEFINE s == Start(c.addr)
  <2>1. s \in Command
    BY <1>2, StartStop
  <2>2. Loose(wire') \subseteq Loose(wire)
    BY <1>4, <1>7
  <2>3. ASSUME NEW d \in Loose(wire), d \notin Loose(wire')
        PROVE  d = s
    <3>1. Stop(d.addr) = c
      BY <1>4, <2>3
    <3>3. d \in Command /\ d.kind = "START"
      BY <2>3 DEF Loose
    <3>2. c.addr = d.addr
      BY <3>1 DEF Stop
    <3> QED
      BY <3>2, <3>3 DEF Start, Command
  <2> HIDE DEF s
  <2>4. Loose(wire) \subseteq Loose(wire') \cup {s}
    BY <2>3
  <2>5. OnWire' = OnWire \/ \E y \in Zones : OnWire' = OnWire \ {y}
    BY <1>5, <2>1, <2>2, <2>4, StartsOfOne DEF OnWire
  <2>6. ASSUME NEW y \in Zones, OnWire' = OnWire \ {y}
        PROVE  Starts!Arrive(y)
    BY <1>5, <2>6 DEF Starts!Arrive, Waiting, OnWire
  <2> QED
    BY <1>5, <2>5, <2>6 DEF Starts!Next, StartsStep
<1> QED
  BY <1>6, <1>7

\* The commands for a zone.
LEMMA ZoneStarts ==
    ASSUME Inv, Inv', NEW z \in Zones, NEW online \in SUBSET InZone(z),
           \/ StartZone(online) \/ RestartZone(online) \/ StopZone(online)
           \/ PauseZone(online) \/ ResumeZone(online)
    PROVE  StartsStep
<1>1. \A cap : \A A \in Collected(online, cap) : A \in SUBSET InZone(z)
  BY DEF Collected
<1>2. InZone(z) \subseteq Igniters
  BY ZoneIgniters
<1>3. CASE StartZone(online)
  <2>1. PICK A \in Collected(online, ZoneCap) : \E unfinished \in SUBSET A :
            Give("START", unfinished, {}) /\ Ordered("START", unfinished)
    BY <1>3, Zenon DEF StartZone
  <2>2. A \in SUBSET InZone(z)
    BY <1>1
  <2>3. PICK unfinished \in SUBSET A :
            Give("START", unfinished, {}) /\ Ordered("START", unfinished)
    BY <2>1, Zenon
  <2> QED
    BY <2>2, <2>3, StartZoneStarts
<1>4. CASE RestartZone(online)
  BY <1>4, StartZoneStarts DEF RestartZone
<1>5. CASE StopZone(online)
  <2>1. PICK A \in Collected(online, ZoneCap) : Give("STOP", A, {"START"}) /\ Ordered("STOP", A)
    BY <1>5, Zenon DEF StopZone
  <2>2. A \in SUBSET Igniters /\ "STOP" \in Kind
    BY <1>1, <1>2 DEF Kind
  <2>3. Sent(Commands("STOP", A), pool', {}) /\ Waiting' = {}
    BY <2>1, <2>2, StartsGiven
  <2>4. OnWire' \subseteq OnWire
    BY <2>2, <2>3, StartsSent
  <2> QED
    BY <2>1, <2>2, <2>3, <2>4, StopStarts DEF Inv
<1>6. ASSUME NEW A \in SUBSET Igniters, NEW kind \in {"PAUSE", "RESUME"}, Give(kind, A, {}),
             UNCHANGED ordered
      PROVE  StartsStep
  <2>1. kind \in Kind /\ kind # "START" /\ kind # "STOP"
    BY DEF Kind
  <2>2. /\ Sent(Commands(kind, A), pool', {})
        /\ Waiting \subseteq Waiting' /\ Waiting' \subseteq Waiting
    BY <1>6, <2>1, StartsGiven
  <2>3. OnWire' = OnWire
    BY <2>1, <2>2, StartsSent
  <2>4. Halted' = Halted
    BY <1>6 DEF Halted, InZone
  <2> QED
    BY <2>2, <2>3, <2>4 DEF StartsStep
<1>7. CASE PauseZone(online)
  <2>1. PICK A \in Collected(online, ZoneCap) : Give("PAUSE", A, {}) /\ UNCHANGED ordered
    BY <1>7, Zenon DEF PauseZone
  <2> QED
    BY <1>1, <1>2, <1>6, <2>1
<1>8. CASE ResumeZone(online)
  <2>1. PICK A \in Collected(online, ZoneCap) : Give("RESUME", A, {}) /\ UNCHANGED ordered
    BY <1>8, Zenon DEF ResumeZone
  <2> QED
    BY <1>1, <1>2, <1>6, <2>1
<1> QED
  BY <1>3, <1>4, <1>5, <1>7, <1>8

LEMMA StartsNext ==
    ASSUME Inv, Inv', [Next]_vars
    PROVE  StartsStep
<1>1. CASE UNCHANGED vars
  <2>1. Loose(wire') = Loose(wire) /\ Kept(pool') = Kept(pool)
    BY <1>1 DEF vars
  <2> QED
    BY <1>1, <2>1 DEF vars, StartsStep, Waiting, OnWire, Halted, StartsOf, InZone
<1>2. ASSUME NEW online \in SUBSET Igniters, StopAll(online)
      PROVE  StartsStep
  <2>1. PICK A \in Collected(online, AllCap) :
            Give("STOP", A, {"START", "PAUSE", "RESUME"}) /\ Ordered("STOP_ALL", A)
    BY <1>2, Zenon DEF StopAll
  <2>2. A \in SUBSET Igniters /\ "STOP" \in Kind
    BY DEF Collected, Kind
  <2>3. Sent(Commands("STOP", A), pool', {}) /\ Waiting' = {}
    BY <2>1, <2>2, StartsGiven
  <2>4. OnWire' \subseteq OnWire
    BY <2>2, <2>3, StartsSent
  <2> QED
    BY <2>1, <2>2, <2>3, <2>4, StopStarts DEF Inv
<1>3. ASSUME NEW online \in SUBSET Igniters, ResetFire(online)
      PROVE  StartsStep
  <2> DEFINE empty == [i \in Slots |-> Free]
  <2>1. PICK A \in Collected(online, AllCap) :
            Sent(Commands("STOP", A), empty, Kept(pool)) /\ Ordered("RESET", A)
    BY <1>3, Zenon DEF ResetFire
  <2>2. A \in SUBSET Igniters /\ "STOP" \in Kind
    BY DEF Collected, Kind
  <2>3. Waiting' = {}
    <3>1. pool' = empty
      BY <2>1 DEF Sent
    <3>2. \A i \in Slots : pool'[i].used = FALSE
      BY <3>1 DEF Free
    <3> QED
      BY <3>2 DEF Waiting, StartsOf, Kept
  <2> HIDE DEF empty
  <2>4. OnWire' \subseteq OnWire
    BY <2>1, <2>2, StartsSent
  <2> QED
    BY <2>1, <2>2, <2>3, <2>4, StopStarts DEF Inv
<1>4. ASSUME NEW i \in Slots, GiveUp(i)
      PROVE  StartsStep
  BY <1>4, GiveUpOK, SettleStarts
<1>5. CASE Acknowledged
  BY <1>5, AcknowledgedOK, SettleStarts
<1>6. CASE CarryOut \/ LoseCommand
  BY <1>6, ArriveStarts DEF CarryOut, LoseCommand
<1>7. CASE LoseAck
  <2>1. UNCHANGED <<pool, wire, ordered>>
    BY <1>7 DEF LoseAck
  <2>2. Loose(wire') = Loose(wire) /\ Kept(pool') = Kept(pool)
    BY <2>1
  <2> QED
    BY <2>1, <2>2 DEF StartsStep, Waiting, OnWire, Halted, StartsOf, InZone
<1> QED
  BY <1>1, <1>2, <1>3, <1>4, <1>5, <1>6, <1>7, ZoneStarts, ResendStarts DEF Next

LEMMA StartsInit == Init => Starts!Init
<1> SUFFICES ASSUME Init PROVE Starts!Init
  OBVIOUS
<1>1. Waiting = {}
  BY DEF Init, Waiting, StartsOf, Kept, Free
<1>2. OnWire = {}
  BY NothingOnTheWay DEF Init, OnWire, StartsOf
<1>3. Halted = {}
  BY DEF Init, Halted, InZone
<1> QED
  BY <1>1, <1>2, <1>3 DEF Starts!Init, Waiting, OnWire
\* A START that goes out has no STOP behind it yet.
LEMMA NewStartsAreLoose ==
    ASSUME Inv, [Next]_vars, NEW i \in Len(wire) + 1 .. Len(wire'), wire'[i].kind = "START"
    PROVE  wire'[i] \in Loose(wire')
<1>1. wire \in Seq(Command) /\ Len(wire) \in Nat
  <2>1. wire \in Seq(Command)
    BY DEF Inv, TypeOK
  <2> QED
    BY <2>1
<1>2. ASSUME NEW t \in Seq(Command), NEW kind, wire' = wire \o t, \A c \in ToSet(t) : c.kind = kind
      PROVE  wire'[i] \in Loose(wire')
  <2> DEFINE m == Len(wire)
             n == Len(t)
  <2>1. /\ Len(wire') = m + n /\ m \in Nat /\ n \in Nat /\ DOMAIN t = 1 .. n
        /\ \A k \in 1 .. n : wire'[m + k] = t[k]
    BY <1>1, <1>2, Places
  <2>2. i \in m + 1 .. Len(wire')
    OBVIOUS
  <2> HIDE DEF m, n
  <2>3. i - m \in 1 .. n /\ m + (i - m) = i
    BY <2>1, <2>2
  <2>4. wire'[i] = t[i - m] /\ t[i - m] \in ToSet(t)
    BY <2>1, <2>3 DEF ToSet
  <2>5. kind = "START"
    BY <1>2, <2>4
  <2> QED
    BY <1>1, <1>2, <2>4, <2>5, LooseThen
<1>3. ASSUME NEW kind \in Kind, NEW A \in SUBSET Igniters, NEW p, NEW forgotten,
             Sent(Commands(kind, A), p, forgotten)
      PROVE  wire'[i] \in Loose(wire')
  <2>1. /\ Commands(kind, A) \in Seq(Command)
        /\ ToSet(Commands(kind, A)) = [kind : {kind}, addr : A]
    BY CommandsOK
  <2>2. wire' = wire \o Commands(kind, A)
    BY <1>3 DEF Sent
  <2>3. \A c \in [kind : {kind}, addr : A] : c.kind = kind
    OBVIOUS
  <2> QED
    BY <1>2, <2>1, <2>2, <2>3
<1>4. ASSUME NEW kind \in Kind, NEW A \in SUBSET Igniters, NEW dropped, Give(kind, A, dropped)
      PROVE  wire'[i] \in Loose(wire')
  BY <1>3, <1>4 DEF Give
<1>5. \A cap : \A online \in SUBSET Igniters : \A A \in Collected(online, cap) : A \in SUBSET Igniters
  BY DEF Collected
<1>6. \A z : \A online \in SUBSET InZone(z) : online \in SUBSET Igniters
  BY ZoneIgniters
<1>7. Kind = {"START", "STOP", "PAUSE", "RESUME"}
  BY DEF Kind
<1>8. ASSUME NEW online \in SUBSET Igniters,
             \/ StartZone(online) \/ RestartZone(online) \/ StopZone(online)
             \/ PauseZone(online) \/ ResumeZone(online) \/ StopAll(online) \/ ResetFire(online)
      PROVE  wire'[i] \in Loose(wire')
  <2>1. CASE StartZone(online)
    <3>1. PICK A \in Collected(online, ZoneCap) : \E unfinished \in SUBSET A :
              Give("START", unfinished, {}) /\ Ordered("START", unfinished)
      BY <2>1, Zenon DEF StartZone
    <3>2. PICK unfinished \in SUBSET A :
              Give("START", unfinished, {}) /\ Ordered("START", unfinished)
      BY <3>1, Zenon
    <3>3. unfinished \in SUBSET Igniters
      BY <1>5
    <3> QED
      BY <1>4, <1>7, <3>2, <3>3
  <2>2. CASE RestartZone(online)
    BY <1>4, <1>7, <2>2 DEF RestartZone
  <2>3. CASE StopZone(online)
    <3>1. PICK A \in Collected(online, ZoneCap) : Give("STOP", A, {"START"}) /\ Ordered("STOP", A)
      BY <2>3, Zenon DEF StopZone
    <3> QED
      BY <1>4, <1>5, <1>7, <3>1
  <2>4. CASE PauseZone(online)
    <3>1. PICK A \in Collected(online, ZoneCap) : Give("PAUSE", A, {}) /\ UNCHANGED ordered
      BY <2>4, Zenon DEF PauseZone
    <3> QED
      BY <1>4, <1>5, <1>7, <3>1
  <2>5. CASE ResumeZone(online)
    <3>1. PICK A \in Collected(online, ZoneCap) : Give("RESUME", A, {}) /\ UNCHANGED ordered
      BY <2>5, Zenon DEF ResumeZone
    <3> QED
      BY <1>4, <1>5, <1>7, <3>1
  <2>6. CASE StopAll(online)
    <3>1. PICK A \in Collected(online, AllCap) :
              Give("STOP", A, {"START", "PAUSE", "RESUME"}) /\ Ordered("STOP_ALL", A)
      BY <2>6, Zenon DEF StopAll
    <3> QED
      BY <1>4, <1>5, <1>7, <3>1
  <2>7. CASE ResetFire(online)
    <3>1. PICK A \in Collected(online, AllCap) :
              Sent(Commands("STOP", A), [j \in Slots |-> Free], Kept(pool)) /\ Ordered("RESET", A)
      BY <2>7, Zenon DEF ResetFire
    <3> QED
      BY <1>3, <1>5, <1>7, <3>1
  <2> QED
    BY <1>8, <2>1, <2>2, <2>3, <2>4, <2>5, <2>6, <2>7
<1>9. ASSUME NEW k \in Slots, Resend(k)
      PROVE  wire'[i] \in Loose(wire')
  <2> DEFINE c == CommandOf(pool[k])
  <2>1. c \in Command /\ wire' = wire \o <<c>>
    BY <1>9, ResendOK
  <2> HIDE DEF c
  <2>2. <<c>> \in Seq(Command) /\ \A d \in ToSet(<<c>>) : d.kind = c.kind
    BY <2>1, One
  <2> QED
    BY <1>2, <2>1, <2>2
<1>10. ASSUME wire' = wire \/ (wire # <<>> /\ wire' = Tail(wire))
       PROVE  FALSE
  <2>1. Len(wire') <= Len(wire) /\ Len(wire') \in Nat
    BY <1>1, <1>10
  <2> QED
    BY <1>1, <2>1
<1>11. ~UNCHANGED vars
  BY <1>10 DEF vars
<1>12. ~(\E k \in Slots : GiveUp(k)) /\ ~Acknowledged /\ ~CarryOut /\ ~LoseCommand /\ ~LoseAck
  BY <1>10 DEF GiveUp, Acknowledged, CarryOut, LoseCommand, LoseAck
<1> QED
  BY <1>6, <1>8, <1>9, <1>11, <1>12 DEF Next
-----------------------------------------------------------------------------
(* The theorems. *)

\* The pool holds well-formed items and at most MaxAttempts attempts of each,
\* whatever is ordered and lost (g_fire_retry_items).
THEOREM TypeCorrectness == Spec => []TypeOK
<1>1. Inv => TypeOK
  BY DEF Inv
<1> QED
  BY <1>1, InvAlways, PTL

\* A command waits in one item at most, in a pool of any size (Fire_RetryFind,
\* Fire_RetryAlloc).
THEOREM OneItemPerCommandAlways == Spec => []OneItemPerCommand
<1>1. Inv => OneItemPerCommand
  BY DEF Inv
<1> QED
  BY <1>1, InvAlways, PTL

\* With an item for each igniter the STOP to all finds room whatever the pool
\* held before, and stays until it is acknowledged or given up
\* (Fire_SendStopAllMcus).
THEOREM GeneralStopIsRetriedAlways == Spec => []GeneralStopIsRetried
<1>1. Inv => GeneralStopIsRetried
  BY DEF Inv
<1> QED
  BY <1>1, InvAlways, PTL

\* An igniter whose STOP is acknowledged is off, whatever was lost, resent and
\* ordered before (Fire_RetryAckByMsgId, Fire_RetryCancelKind).
THEOREM AcknowledgedStopPrevailsAlways == Spec => []AcknowledgedStopPrevails
<1>1. Inv => AcknowledgedStopPrevails
  BY DEF Inv, StoppedIsOff, IsStopped, AcknowledgedStopPrevails
<1> QED
  BY <1>1, InvAlways, PTL

\* No START is sent or sent again to a stopped igniter (Fire_RetryCancelKind,
\* Fire_RetryCancelAll, Fire_RetryProcess).
THEOREM NoStartAfterStopAlways == Spec => NoStartAfterStop
<1> DEFINE A == \A a \in Igniters :
                   ordered'[a] \in {"STOP", "STOP_ALL", "RESET"} =>
                       \A i \in Len(wire) + 1 .. Len(wire') : wire'[i] # Start(a)
<1>1. Inv /\ Inv' /\ [Next]_vars => A
  <2> SUFFICES ASSUME Inv, Inv', [Next]_vars, NEW a \in Igniters, IsStopped(a)',
                      NEW i \in Len(wire) + 1 .. Len(wire'), wire'[i] = Start(a)
               PROVE  FALSE
    BY DEF IsStopped
  <2>1. wire'[i].kind = "START"
    BY StartStop
  <2>2. Start(a) \in Loose(wire')
    BY <2>1, NewStartsAreLoose
  <2> QED
    BY <2>2 DEF Inv, StoppedIsOff
<1>2. NoStartAfterStop <=> [][A]_vars
  BY DEF NoStartAfterStop
<1> HIDE DEF A
<1> QED
  BY <1>1, <1>2, InvAlways, InvNext, PTL DEF Spec

\* The pool implements what module Fire takes for granted of it: a START goes
\* out only when the panel gives it or while it waits, one at a time leaves the
\* pool otherwise, and a stop of any zone drops those of all zones
\* (Fire_RetryQueueStart, Fire_RetryCancelKind, Fire_RetryProcess).
THEOREM ImplementsStartRetries == Spec => KeepsStarts
<1>1. Inv /\ Inv' /\ [Next]_vars =>
          [Starts!Next]_<<StartsOf(Kept(pool)), StartsOf(Loose(wire)), Halted>>
  BY StartsNext DEF StartsStep, Waiting, OnWire
<1> QED
  BY <1>1, StartsInit, InvAlways, PTL DEF Spec, KeepsStarts, Starts!Spec

\* So a zone all igniters of which were stopped has no START that waits or is
\* on its way (Fire_RetryCancelKind, Fire_RetryCancelAll).
THEOREM HaltedIsQuietAlways == Spec => []Starts!HaltedIsQuiet
<1>1. Starts!Init => Starts!HaltedIsQuiet
  BY DEF Starts!Init, Starts!HaltedIsQuiet
<1>2. Starts!HaltedIsQuiet /\ StartsStep => Starts!HaltedIsQuiet'
  <2> SUFFICES ASSUME Halted \cap (Waiting \cup OnWire) = {}, StartsStep
               PROVE  Halted' \cap (Waiting' \cup OnWire') = {}
    BY DEF Starts!HaltedIsQuiet, Waiting, OnWire
  <2>1. CASE UNCHANGED <<Waiting, OnWire, Halted>>
    BY <2>1
  <2>2. CASE Starts!Next
    BY <2>2 DEF Starts!Next, Starts!StartZone, Starts!StopZones, Starts!Resend, Starts!Settle,
                Starts!Arrive, Waiting, OnWire
  <2> QED
    BY <2>1, <2>2 DEF StartsStep
<1>3. Inv /\ Inv' /\ [Next]_vars => StartsStep
  BY StartsNext
<1> QED
  BY <1>1, <1>2, <1>3, StartsInit, InvAlways, PTL DEF Spec
=============================================================================
