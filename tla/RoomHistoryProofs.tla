-------------------------- MODULE RoomHistoryProofs --------------------------
(***************************************************************************)
(* Proofs about RoomHistory for any participants, events, page size and    *)
(* store: a history has no event twice, what a writer last persisted is    *)
(* the end of its history, no later persist takes it back, and a sync gets *)
(* what was published when it began.                                       *)
(*                                                                         *)
(* A sync folds the pages it reads over the copy of the room.  What the    *)
(* fold does is proved by induction on the number of events, with a set of *)
(* naturals in the place of a predicate (SetInduction).                    *)
(***************************************************************************)
EXTENDS RoomHistory, WellFoundedInduction, TLAPS

(* A persist is among the waiting operations s.                            *)
Queued(s) == \E i \in DOMAIN s : s[i] = "persist"

PersistWaits(n) == Queued(ops[n])

(* What the store would be if g had been persisted last.                   *)
StoreIs(w, g) == latest[w] = LatestPage(g) /\ pages[w][latest[w]] = LatestMessages(g)

(* Only a node with a store persists.                                      *)
WritersPersist == \A n \in Nodes : PersistWaits(n) => n \in Writers

(* The copy a persist writes, or a sync extends, has no duplicates either. *)
CopiesDistinct == \A n \in Nodes : IsInjective(copy[n])

(* Without a persist to come, the operation thread works from the history  *)
(* as it is, and the store ends with it or is about to.                    *)
TailInv ==
  \A w \in Writers :
    ~PersistWaits(w)
      => /\ pc[w] # "idle" => copy[w] = history[w]
         /\ pc[w] # "persist" /\ ~failed[w] => StoreIs(w, history[w])

(* A history only grows while an operation runs: its copy is a prefix.     *)
CopyBehind ==
  ~shortened => \A n \in Nodes : pc[n] \in {"persist", "sync"} => IsPrefix(copy[n], history[n])

(* What was persisted last is a prefix of the history, and of the copy     *)
(* that is about to replace it or to be persisted.                         *)
StoreBehind ==
  ~shortened =>
    \A w \in Writers : \E g \in Prefixes(history[w]) :
      StoreIs(w, g) /\ (pc[w] # "idle" => IsPrefix(g, copy[w]))

HistoryInv ==
  /\ TypeOK
  /\ WritersPersist
  /\ NoDuplicates
  /\ CopiesDistinct
  /\ PagesInStore
  /\ TailInv
  /\ CopyBehind
  /\ StoreBehind

-----------------------------------------------------------------------------
(* Induction on the naturals, for a set S in the place of a predicate: the *)
(* smallest number outside S would have a predecessor in S.                *)
LEMMA SetInduction ==
  ASSUME NEW S, 0 \in S, \A n \in Nat : n \in S => n + 1 \in S
  PROVE  Nat \subseteq S
<1> DEFINE R == OpToRel(<, Nat)
           T == Nat \ S
<1>1. SUFFICES ASSUME T # {} PROVE FALSE
  OBVIOUS
<1>2. R = {ss \in Nat \X Nat : ss[1] < ss[2]}
  BY DEF OpToRel
<1>3. IsWellFoundedOn(R, Nat)
  BY NatLessThanWellFounded
<1> HIDE DEF R
<1>4. PICK x \in T : \A y \in T : ~ (<<y, x>> \in R)
  BY <1>1, <1>3, WFMin
<1>5. x # 0 /\ x - 1 \in Nat /\ x - 1 \in T
  BY <1>4
<1>6. <<x - 1, x>> \in R
  BY <1>2, <1>5, <1>4
<1> QED BY <1>4, <1>5, <1>6

(* Applying an event gives a history.                                      *)
LEMMA ApplyEventType ==
  ASSUME NEW h \in Seq(Events), NEW e \in Events
  PROVE  ApplyEvent(h, e) \in Seq(Events)
BY DEF ApplyEvent

(* The equation of the function that FoldLeft defines by recursion: it     *)
(* applies the events at the positions s to h, the last one last.          *)
FoldStep(it, s, h, events) ==
  IF s = {} THEN h ELSE ApplyEvent(it[s \ {Max(s)}], events[Max(s)])

(* it satisfies this equation on all sets of the first k positions.        *)
IsFold(it, k, h, events) ==
  it = [s \in SUBSET (1..k) |-> FoldStep(it, s, h, events)]

(* There is such a function, and its values are histories.                 *)
HasFold(k, h, events) ==
  \E it \in [SUBSET (1..k) -> Seq(Events)] : IsFold(it, k, h, events)

(* The last of a set of positions that has the top one.                    *)
LEMMA MaxOfTop ==
  ASSUME NEW k \in Nat, NEW s \in SUBSET (1..k), k \in s
  PROVE  Max(s) = k
<1>1. \A x \in s : (\A y \in s : x >= y) => x = k
  OBVIOUS
<1>2. \A y \in s : k >= y
  OBVIOUS
<1> QED BY <1>1, <1>2 DEF Max

(* The recursive equation has a solution: one on the first k positions     *)
(* extends to one on the first k + 1.                                      *)
LEMMA FoldDefined ==
  ASSUME NEW h \in Seq(Events), NEW events \in Seq(Events)
  PROVE  HasFold(Len(events), h, events)
<1> DEFINE S == {k \in Nat : k <= Len(events) => HasFold(k, h, events)}
<1>1. 0 \in S
  <2> DEFINE it == [s \in SUBSET (1..0) |-> h]
  <2>1. IsFold(it, 0, h, events)
    BY DEF FoldStep, IsFold
  <2>2. it \in [SUBSET (1..0) -> Seq(Events)]
    OBVIOUS
  <2> HIDE DEF it
  <2> QED BY <2>1, <2>2 DEF HasFold
<1>2. ASSUME NEW k \in Nat, k \in S PROVE k + 1 \in S
  <2>1. SUFFICES ASSUME k + 1 <= Len(events)
                 PROVE  HasFold(k + 1, h, events)
    OBVIOUS
  <2>2. PICK g \in [SUBSET (1..k) -> Seq(Events)] : IsFold(g, k, h, events)
    <3>1. k <= Len(events)
      BY <2>1
    <3> QED BY <1>2, <3>1 DEF HasFold
  <2> DEFINE it == [s \in SUBSET (1..k+1) |->
                IF k + 1 \in s THEN ApplyEvent(g[s \ {k + 1}], events[k + 1]) ELSE g[s]]
  <2>3. it \in [SUBSET (1..k+1) -> Seq(Events)]
    <3>1. ASSUME NEW s \in SUBSET (1..k+1), k + 1 \in s 
          PROVE  ApplyEvent(g[s \ {k + 1}], events[k + 1]) \in Seq(Events)
      <4>1. s \ {k+1} \in SUBSET (1..k) /\ events[k+1] \in Events
        BY <2>1
      <4> QED BY <4>1, ApplyEventType
    <3>2. ASSUME NEW s \in SUBSET (1..k+1), k + 1 \notin s  PROVE g[s] \in Seq(Events)
      <4>1. s \in SUBSET (1..k)
        BY <3>2
      <4> QED BY <4>1
    <3> QED BY <3>1, <3>2
  <2>4. ASSUME NEW s \in SUBSET (1..k+1) PROVE it[s] = FoldStep(it, s, h, events)
    <3>1. CASE k + 1 \in s
      <4>1. Max(s) = k + 1
        BY <3>1, MaxOfTop
      <4>2. s \ {k+1} \in SUBSET (1..k+1) /\ k + 1 \notin s \ {k+1}
        OBVIOUS
      <4>3. it[s \ {k+1}] = g[s \ {k+1}]
        BY <4>2
      <4> HIDE DEF it
      <4>4. it[s] = ApplyEvent(g[s \ {k + 1}], events[k + 1])
        BY <3>1 DEF it
      <4> QED BY <4>1, <4>3, <4>4, <3>1 DEF FoldStep
    <3>2. CASE k + 1 \notin s
      <4>1. s \in SUBSET (1..k)
        BY <3>2
      <4>2. it[s] = g[s]
        BY <3>2
      <4>3. g[s] = FoldStep(g, s, h, events)
        BY <2>2, <4>1 DEF IsFold
      <4>4. it[s \ {Max(s)}] = g[s \ {Max(s)}]
        BY <4>1, <3>2
      <4> QED BY <4>2, <4>3, <4>4 DEF FoldStep
    <3> QED BY <3>1, <3>2
  <2>5. IsFold(it, k + 1, h, events)
    BY <2>4 DEF IsFold
  <2> HIDE DEF it
  <2> QED BY <2>3, <2>5 DEF HasFold
<1>3. Len(events) \in S
  <2> HIDE DEF S
  <2> QED BY <1>1, <1>2, SetInduction
<1> QED BY <1>3

(* Merge is what the loop of sync_from_record computes: m[i] is the copy   *)
(* after the first i events.                                               *)
LEMMA MergeSteps ==
  ASSUME NEW h \in Seq(Events), NEW events \in Seq(Events)
  PROVE  \E m \in [0..Len(events) -> Seq(Events)] :
           /\ m[0] = h
           /\ \A i \in 1..Len(events) : m[i] = ApplyEvent(m[i - 1], events[i])
           /\ Merge(h, events) = m[Len(events)]
<1> DEFINE n == Len(events)
           it == CHOOSE f : IsFold(f, n, h, events)
           m == [i \in 0..n |-> it[1..i]]
<1>1. DOMAIN events = 1..n
  OBVIOUS
<1>2. Merge(h, events) = it[1..n]
  BY <1>1 DEF Merge, FoldLeft, MapThenFoldSet, FoldStep, IsFold
<1>3. IsFold(it, n, h, events)
  BY FoldDefined DEF HasFold
<1> HIDE DEF it
<1>4. m[0] = h
  BY <1>3 DEF IsFold, FoldStep
<1>5. ASSUME NEW i \in 1..n PROVE m[i] = ApplyEvent(m[i - 1], events[i])
  <2>1. 1..i \in SUBSET (1..n) /\ i \in 1..i /\ Max(1..i) = i
    BY MaxOfTop
  <2>2. (1..i) \ {i} = 1..(i - 1)
    OBVIOUS
  <2>3. it[1..i] = FoldStep(it, 1..i, h, events)
    BY <2>1, <1>3 DEF IsFold
  <2>4. it[1..i] = ApplyEvent(it[1..(i-1)], events[i])
    BY <2>1, <2>2, <2>3 DEF FoldStep
  <2> QED BY <2>4
<1>6. m \in [0..n -> Seq(Events)]
  <2>1. \A i \in 0..n : 1..i \in SUBSET (1..n)
    OBVIOUS
  <2>2. n \in Nat
    OBVIOUS
  <2> DEFINE T == {i \in Nat : i <= n => m[i] \in Seq(Events)}
  <2>3. 0 \in T
    BY <1>4
  <2>4. ASSUME NEW i \in Nat, i \in T PROVE i + 1 \in T
    <3>1. CASE i + 1 <= n
      <4>1. m[i] \in Seq(Events) /\ i + 1 \in 1..n /\ (i + 1) - 1 = i /\ events[i+1] \in Events
        BY <2>4, <3>1
      <4>2. m[i + 1] = ApplyEvent(m[i], events[i + 1])
        BY <1>5, <4>1
      <4> HIDE DEF m
      <4> QED BY <4>1, <4>2, ApplyEventType
    <3> QED BY <3>1
  <2>5. Nat \subseteq T
    <3> HIDE DEF T
    <3> QED BY <2>3, <2>4, SetInduction
  <2>6. ASSUME NEW i \in 0..n PROVE it[1..i] \in Seq(Events)
    <3>1. i \in Nat /\ i <= n
      OBVIOUS
    <3>2. i \in T
      BY <2>5, <3>1
    <3> QED BY <3>1, <3>2
  <2> QED BY <2>6
<1>7. m[n] = it[1..n]
  OBVIOUS
<1> HIDE DEF m
<1> QED BY <1>2, <1>4, <1>5, <1>6, <1>7

(* A prefix, position by position.                                         *)
LEMMA PrefixPointwise ==
  ASSUME NEW g \in Seq(Events), NEW h \in Seq(Events)
  PROVE  IsPrefix(g, h) <=> Len(g) <= Len(h) /\ \A i \in 1..Len(g) : g[i] = h[i]
<1>1. ASSUME Len(g) <= Len(h)
      PROVE  /\ SubSeq(g, 1, Len(g)) = g
             /\ SubSeq(h, 1, Len(g)) \in Seq(Events)
             /\ Len(SubSeq(h, 1, Len(g))) = Len(g)
             /\ \A i \in 1..Len(g) : SubSeq(h, 1, Len(g))[i] = h[i]
  BY <1>1
<1> QED BY <1>1 DEF IsPrefix

(* One event appends at most, and never a duplicate.                       *)
LEMMA ApplyEventExtends ==
  ASSUME NEW h \in Seq(Events), NEW e \in Events
  PROVE  /\ ApplyEvent(h, e) \in Seq(Events)
         /\ IsPrefix(h, ApplyEvent(h, e))
         /\ IsInjective(h) => IsInjective(ApplyEvent(h, e))
<1>1. CASE EventSeen(h, e)
  BY <1>1, PrefixPointwise DEF ApplyEvent
<1>2. CASE ~EventSeen(h, e)
  <2>1. ApplyEvent(h, e) = Append(h, e) /\ Append(h, e) \in Seq(Events)
    BY <1>2 DEF ApplyEvent
  <2>2. IsPrefix(h, Append(h, e))
    <3>1. Len(h) <= Len(Append(h, e)) /\ \A i \in 1..Len(h) : h[i] = Append(h, e)[i]
      OBVIOUS
    <3> HIDE DEF ApplyEvent
    <3> QED BY <2>1, <3>1, PrefixPointwise
  <2>3. IsInjective(h) => IsInjective(Append(h, e))
    BY <1>2 DEF EventSeen, IsInjective
  <2> QED BY <2>1, <2>2, <2>3
<1> QED BY <1>1, <1>2

(* A history is a prefix of itself,                                        *)
LEMMA PrefixReflexive ==
  ASSUME NEW h \in Seq(Events)
  PROVE  IsPrefix(h, h)
BY PrefixPointwise

(* and of what extends an extension of it.                                 *)
LEMMA PrefixTransitive ==
  ASSUME NEW f \in Seq(Events), NEW g \in Seq(Events), NEW h \in Seq(Events),
         IsPrefix(g, h), IsPrefix(f, g)
  PROVE  IsPrefix(f, h)
BY PrefixPointwise

(* Merging appends at most, and never a duplicate, whatever pages a store  *)
(* holds.                                                                  *)
LEMMA MergeExtends ==
  ASSUME NEW h \in Seq(Events), NEW events \in Seq(Events)
  PROVE  /\ Merge(h, events) \in Seq(Events)
         /\ IsPrefix(h, Merge(h, events))
         /\ IsInjective(h) => IsInjective(Merge(h, events))
<1> DEFINE n == Len(events)
<1>1. PICK m \in [0..n -> Seq(Events)] :
           /\ m[0] = h
           /\ \A i \in 1..n : m[i] = ApplyEvent(m[i - 1], events[i])
           /\ Merge(h, events) = m[n]
  BY MergeSteps
<1> DEFINE Grown(g) == g \in Seq(Events) /\ IsPrefix(h, g) /\ (IsInjective(h) => IsInjective(g))
           T == {i \in Nat : i <= n => Grown(m[i])}
<1>2. 0 \in T
  BY <1>1, PrefixPointwise
<1>3. ASSUME NEW i \in Nat, i \in T PROVE i + 1 \in T
  <2>1. CASE i + 1 <= n
    <3>1. m[i + 1] = ApplyEvent(m[i], events[i + 1]) /\ events[i + 1] \in Events
      BY <1>1, <2>1
    <3>2. Grown(m[i])
      BY <1>3, <2>1
    <3>3. Grown(ApplyEvent(m[i], events[i + 1]))
      BY <3>1, <3>2, ApplyEventExtends, PrefixTransitive
    <3> HIDE DEF Grown
    <3> QED BY <3>1, <3>3
  <2> QED BY <2>1
<1> HIDE DEF Grown
<1>4. Nat \subseteq T
  <2> HIDE DEF T
  <2> QED BY <1>2, <1>3, SetInduction
<1>5. Grown(m[n])
  <2>1. n \in T
    BY <1>4
  <2> QED BY <2>1
<1> QED BY <1>1, <1>5 DEF Grown

(* An event applied is seen, and one that was seen stays seen.             *)
LEMMA ApplyEventSeen ==
  ASSUME NEW h \in Seq(Events), NEW e \in Events
  PROVE  ToSet(h) \cup {e} \subseteq ToSet(ApplyEvent(h, e))
<1>1. CASE EventSeen(h, e)
  BY <1>1 DEF ApplyEvent, EventSeen, ToSet
<1>2. CASE ~EventSeen(h, e)
  <2>1. \A i \in DOMAIN h : i \in DOMAIN Append(h, e) /\ Append(h, e)[i] = h[i]
    OBVIOUS
  <2>2. Len(h) + 1 \in DOMAIN Append(h, e) /\ Append(h, e)[Len(h) + 1] = e
    OBVIOUS
  <2>3. ToSet(h) \cup {e} \subseteq ToSet(Append(h, e))
    BY <2>1, <2>2 DEF ToSet
  <2> QED BY <1>2, <2>3 DEF ApplyEvent
<1> QED BY <1>1, <1>2

(* Merging leaves out none of the events read, nor of those there already. *)
LEMMA MergeHolds ==
  ASSUME NEW h \in Seq(Events), NEW events \in Seq(Events)
  PROVE  ToSet(h) \cup ToSet(events) \subseteq ToSet(Merge(h, events))
<1> DEFINE n == Len(events)
<1>1. PICK m \in [0..n -> Seq(Events)] :
           /\ m[0] = h
           /\ \A i \in 1..n : m[i] = ApplyEvent(m[i - 1], events[i])
           /\ Merge(h, events) = m[n]
  BY MergeSteps
<1> DEFINE Holds(i) == ToSet(h) \subseteq ToSet(m[i]) /\ \A j \in 1..i : events[j] \in ToSet(m[i])
           T == {i \in Nat : i <= n => Holds(i)}
<1>2. 0 \in T
  BY <1>1
<1>3. ASSUME NEW i \in Nat, i \in T PROVE i + 1 \in T
  <2>1. CASE i + 1 <= n
    <3>1. /\ m[i + 1] = ApplyEvent(m[i], events[i + 1]) /\ events[i + 1] \in Events
          /\ m[i] \in Seq(Events)
      BY <1>1, <2>1
    <3>2. ToSet(m[i]) \cup {events[i + 1]} \subseteq ToSet(m[i + 1])
      BY <3>1, ApplyEventSeen
    <3>3. Holds(i)
      BY <1>3, <2>1
    <3>4. \A j \in 1..(i + 1) : j \in 1..i \/ j = i + 1
      OBVIOUS
    <3>5. Holds(i + 1)
      BY <3>2, <3>3, <3>4
    <3> HIDE DEF Holds
    <3> QED BY <3>5
  <2> QED BY <2>1
<1> HIDE DEF Holds
<1>4. Nat \subseteq T
  <2> HIDE DEF T
  <2> QED BY <1>2, <1>3, SetInduction
<1>5. Holds(n)
  <2>1. n \in T
    BY <1>4
  <2> QED BY <2>1
<1>6. \A j \in DOMAIN events : events[j] \in ToSet(m[n])
  BY <1>5 DEF Holds
<1>7. ToSet(events) \subseteq ToSet(m[n])
  BY <1>6 DEF ToSet
<1> QED BY <1>1, <1>5, <1>7 DEF Holds

(* The equation FlattenSeq defines by recursion, on the first k pages, and *)
(* that it has a solution.                                                 *)
IsFlat(f, k, ps) ==
  f = [i \in 1..k |-> IF i = 1 THEN ps[i] ELSE f[i - 1] \o ps[i]]

HasFlat(k, ps) == \E f \in [1..k -> Seq(Events)] : IsFlat(f, k, ps)

(* A solution on the first k pages extends to the first k + 1.             *)
LEMMA FlatDefined ==
  ASSUME NEW ps \in Seq(Seq(Events))
  PROVE  HasFlat(Len(ps), ps)
<1> DEFINE S == {k \in Nat : k <= Len(ps) => HasFlat(k, ps)}
<1>1. 0 \in S
  <2> DEFINE f == [i \in 1..0 |-> <<>>]
  <2>1. IsFlat(f, 0, ps) /\ f \in [1..0 -> Seq(Events)]
    BY DEF IsFlat
  <2> HIDE DEF f
  <2> QED BY <2>1 DEF HasFlat
<1>2. ASSUME NEW k \in Nat, k \in S PROVE k + 1 \in S
  <2>1. SUFFICES ASSUME k + 1 <= Len(ps) PROVE HasFlat(k + 1, ps)
    OBVIOUS
  <2>2. PICK g \in [1..k -> Seq(Events)] : IsFlat(g, k, ps)
    <3>1. k <= Len(ps)
      BY <2>1
    <3> QED BY <1>2, <3>1 DEF HasFlat
  <2>3. ps[k + 1] \in Seq(Events)
    BY <2>1
  <2> DEFINE last == IF k = 0 THEN ps[1] ELSE g[k] \o ps[k + 1]
             f == [i \in 1..k+1 |-> IF i = k + 1 THEN last ELSE g[i]]
  <2>4. last \in Seq(Events)
    BY <2>1, <2>3
  <2>5. f \in [1..k+1 -> Seq(Events)]
    BY <2>4
  <2>6. ASSUME NEW i \in 1..k+1 PROVE f[i] = IF i = 1 THEN ps[i] ELSE f[i - 1] \o ps[i]
    <3>1. CASE i = k + 1
      BY <3>1
    <3>2. CASE i # k + 1
      <4>1. i \in 1..k /\ f[i] = g[i] /\ (i # 1 => f[i - 1] = g[i - 1])
        BY <3>2
      <4>2. g[i] = IF i = 1 THEN ps[i] ELSE g[i - 1] \o ps[i]
        BY <2>2, <4>1 DEF IsFlat
      <4> QED BY <4>1, <4>2
    <3> QED BY <3>1, <3>2
  <2>7. IsFlat(f, k + 1, ps)
    BY <2>6 DEF IsFlat
  <2> HIDE DEF f
  <2> QED BY <2>5, <2>7 DEF HasFlat
<1>3. Len(ps) \in S
  <2> HIDE DEF S
  <2> QED BY <1>1, <1>2, SetInduction
<1> QED BY <1>3

(* The events of two sequences put together are the events of both.        *)
LEMMA ConcatContents ==
  ASSUME NEW s \in Seq(Events), NEW t \in Seq(Events)
  PROVE  ToSet(s \o t) = ToSet(s) \cup ToSet(t)
<1>1. \A i \in DOMAIN s : i \in DOMAIN (s \o t) /\ (s \o t)[i] = s[i]
  OBVIOUS
<1>2. \A i \in DOMAIN t : Len(s) + i \in DOMAIN (s \o t) /\ (s \o t)[Len(s) + i] = t[i]
  OBVIOUS
<1>3. \A i \in DOMAIN (s \o t) :
         \/ i \in DOMAIN s /\ (s \o t)[i] = s[i]
         \/ i - Len(s) \in DOMAIN t /\ (s \o t)[i] = t[i - Len(s)]
  OBVIOUS
<1> HIDE DEF ToSet
<1>4. ASSUME NEW e PROVE e \in ToSet(s \o t) <=> e \in ToSet(s) \cup ToSet(t)
  <2>1. ASSUME e \in ToSet(s \o t) PROVE e \in ToSet(s) \cup ToSet(t)
    <3>1. PICK i \in DOMAIN (s \o t) : (s \o t)[i] = e
      BY <2>1 DEF ToSet
    <3> QED BY <1>3, <3>1 DEF ToSet
  <2>2. ASSUME e \in ToSet(s) PROVE e \in ToSet(s \o t)
    BY <1>1, <2>2 DEF ToSet
  <2>3. ASSUME e \in ToSet(t) PROVE e \in ToSet(s \o t)
    <3>1. PICK i \in DOMAIN t : t[i] = e
      BY <2>3 DEF ToSet
    <3>2. Len(s) + i \in DOMAIN (s \o t) /\ (s \o t)[Len(s) + i] = e
      BY <1>2, <3>1
    <3> QED BY <3>2 DEF ToSet
  <2> QED BY <2>1, <2>2, <2>3
<1> QED BY <1>4

(* The events of pages put together are those of the pages.                *)
LEMMA FlattenOf ==
  ASSUME NEW ps \in Seq(Seq(Events)), ps # <<>>
  PROVE  /\ FlattenSeq(ps) \in Seq(Events)
         /\ ToSet(FlattenSeq(ps)) = UNION {ToSet(ps[i]) : i \in 1..Len(ps)}
<1> DEFINE n == Len(ps)
           f == CHOOSE g : IsFlat(g, n, ps)
<1>1. n \in Nat /\ n # 0
  OBVIOUS
<1>2. FlattenSeq(ps) = f[n]
  BY <1>1 DEF FlattenSeq, IsFlat
<1>3. IsFlat(f, n, ps)
  BY FlatDefined DEF HasFlat
<1> HIDE DEF f
<1> DEFINE Holds(k) == /\ f[k] \in Seq(Events)
                       /\ ToSet(f[k]) = UNION {ToSet(ps[i]) : i \in 1..k}
           S == {k \in Nat : 1 <= k /\ k <= n => Holds(k)}
<1>4. 0 \in S
  OBVIOUS
<1>5. ASSUME NEW k \in Nat, k \in S PROVE k + 1 \in S
  <2>1. SUFFICES ASSUME k + 1 <= n PROVE Holds(k + 1)
    OBVIOUS
  <2>2. ps[k + 1] \in Seq(Events)
    BY <2>1
  <2>3. CASE k = 0
    <3>1. f[1] = ps[1]
      BY <1>1, <1>3 DEF IsFlat
    <3>2. 1..1 = {1}
      OBVIOUS
    <3> QED BY <2>2, <2>3, <3>1, <3>2
  <2>4. CASE k # 0
    <3>1. f[k + 1] = f[k] \o ps[k + 1]
      <4>1. k + 1 \in 1..n /\ k + 1 # 1 /\ (k + 1) - 1 = k
        BY <2>1, <2>4
      <4> QED BY <1>3, <4>1 DEF IsFlat
    <3>2. Holds(k)
      BY <1>5, <2>1, <2>4
    <3>3. ToSet(f[k + 1]) = ToSet(f[k]) \cup ToSet(ps[k + 1])
      BY <2>2, <3>1, <3>2, ConcatContents
    <3>4. 1..(k+1) = (1..k) \cup {k + 1}
      OBVIOUS
    <3>5. UNION {ToSet(ps[i]) : i \in 1..(k+1)}
            = (UNION {ToSet(ps[i]) : i \in 1..k}) \cup ToSet(ps[k + 1])
      BY <3>4
    <3>6. f[k + 1] \in Seq(Events)
      BY <2>2, <3>1, <3>2
    <3> QED BY <3>2, <3>3, <3>5, <3>6
  <2> QED BY <2>3, <2>4
<1> HIDE DEF Holds
<1>6. n \in S
  <2> HIDE DEF S
  <2> QED BY <1>1, <1>4, <1>5, SetInduction
<1>7. Holds(n)
  BY <1>1, <1>6
<1> QED BY <1>2, <1>7 DEF Holds

(* What a sync finds in the first k pages.                                 *)
LEMMA StoredContents ==
  ASSUME NEW content \in [1..Subkeys -> Seq(Events)], NEW k \in 1..Subkeys
  PROVE  ToSet(FlattenSeq([p \in 1..k |-> content[p]])) = UNION {ToSet(content[p]) : p \in 1..k}
<1> DEFINE ps == [p \in 1..k |-> content[p]]
<1>1. k \in Nat \ {0} /\ 1..k \subseteq 1..Subkeys
  BY HistoryAssumption
<1>2. ps \in Seq(Seq(Events)) /\ Len(ps) = k
  BY <1>1
<1>3. \A p \in 1..k : ps[p] = content[p]
  OBVIOUS
<1> HIDE DEF ps
<1>4. ps # <<>>
  BY <1>1, <1>2
<1>5. ToSet(FlattenSeq(ps)) = UNION {ToSet(ps[p]) : p \in 1..k}
  BY <1>2, <1>4, FlattenOf
<1> QED BY <1>3, <1>5 DEF ps

(* A store holds events.                                                   *)
LEMMA StoredEvents ==
  ASSUME TypeOK, NEW w \in Writers
  PROVE  Stored(w) \subseteq Events
<1>1. pages[w] \in [1..Subkeys -> Seq(Events)] /\ latest[w] \in 1..Subkeys
  BY DEF TypeOK
<1>2. Stored(w) = UNION {ToSet(pages[w][p]) : p \in 1..latest[w]}
  BY <1>1, StoredContents DEF Stored, Published
<1>3. ASSUME NEW p \in 1..latest[w] PROVE ToSet(pages[w][p]) \subseteq Events
  <2>1. pages[w][p] \in Seq(Events)
    BY <1>1, HistoryAssumption
  <2> QED BY <2>1 DEF ToSet
<1> QED BY <1>2, <1>3

(* Integer division, as persist_room numbers its pages.                    *)
LEMMA DivBounds ==
  ASSUME NEW a \in Nat, NEW p \in Nat \ {0}
  PROVE  a \div p \in Nat /\ p * (a \div p) <= a /\ a < p * (a \div p + 1)
OBVIOUS

(* More events never have a lower page.                                    *)
LEMMA DivMonotone ==
  ASSUME NEW a \in Nat, NEW b \in Nat, a <= b, NEW p \in Nat \ {0}
  PROVE  a \div p <= b \div p
BY DivBounds

(* The last page is numbered from 1 and begins within the history.         *)
LEMMA LatestPageBounds ==
  ASSUME NEW h \in Seq(Events)
  PROVE  /\ LatestPage(h) \in Nat \ {0}
         /\ (LatestPage(h) - 1) * PageSize \in Nat
         /\ (LatestPage(h) - 1) * PageSize <= Len(h)
<1>1. CASE h = <<>>
  BY <1>1, HistoryAssumption DEF LatestPage
<1>2. CASE h # <<>>
  <2> DEFINE q == (Len(h) - 1) \div PageSize
  <2>1. Len(h) - 1 \in Nat /\ PageSize \in Nat \ {0}
    BY <1>2, HistoryAssumption
  <2>2. q \in Nat /\ PageSize * q <= Len(h) - 1
    BY <2>1, DivBounds
  <2>3. LatestPage(h) = q + 1
    BY <1>2 DEF LatestPage
  <2> HIDE DEF q
  <2>4. PageSize * q = q * PageSize /\ q * PageSize \in Nat
    BY <2>1, <2>2
  <2> QED BY <2>1, <2>2, <2>3, <2>4
<1> QED BY <1>1, <1>2

(* A longer history ends on no earlier page.                               *)
LEMMA LatestPageGrows ==
  ASSUME NEW g \in Seq(Events), NEW h \in Seq(Events), Len(g) <= Len(h)
  PROVE  LatestPage(g) <= LatestPage(h)
<1>1. CASE g = <<>>
  BY <1>1, LatestPageBounds DEF LatestPage
<1>2. CASE g # <<>>
  <2>1. Len(g) - 1 \in Nat /\ Len(h) - 1 \in Nat /\ Len(g) - 1 <= Len(h) - 1 /\ h # <<>>
    BY <1>2
  <2>2. (Len(g) - 1) \div PageSize <= (Len(h) - 1) \div PageSize
    BY <2>1, DivMonotone, HistoryAssumption
  <2>3. (Len(g) - 1) \div PageSize \in Nat /\ (Len(h) - 1) \div PageSize \in Nat
    BY <2>1, DivBounds, HistoryAssumption
  <2> QED BY <1>2, <2>1, <2>2, <2>3 DEF LatestPage
<1> QED BY <1>1, <1>2

(* While it ends on the same page, the page only gains events.             *)
LEMMA LatestMessagesGrow ==
  ASSUME NEW g \in Seq(Events), NEW h \in Seq(Events), IsPrefix(g, h),
         LatestPage(g) = LatestPage(h)
  PROVE  ToSet(LatestMessages(g)) \subseteq ToSet(LatestMessages(h))
<1> DEFINE a == (LatestPage(g) - 1) * PageSize
<1>1. a \in Nat /\ a <= Len(g) /\ a <= Len(h)
  BY LatestPageBounds
<1>2. LatestMessages(g) = SubSeq(g, a + 1, Len(g)) /\ LatestMessages(h) = SubSeq(h, a + 1, Len(h))
  BY DEF LatestMessages
<1> HIDE DEF a
<1>3. ASSUME NEW i \in DOMAIN SubSeq(g, a + 1, Len(g))
      PROVE  /\ i \in DOMAIN SubSeq(h, a + 1, Len(h))
             /\ SubSeq(h, a + 1, Len(h))[i] = SubSeq(g, a + 1, Len(g))[i]
  <2>1. Len(g) <= Len(h) /\ \A k \in 1..Len(g) : g[k] = h[k]
    BY PrefixPointwise
  <2>2. i \in 1..(Len(g) - a) /\ SubSeq(g, a + 1, Len(g))[i] = g[a + i]
    BY <1>1
  <2>3. i \in 1..(Len(h) - a) /\ a + i \in 1..Len(g)
    BY <1>1, <2>1, <2>2
  <2>4. SubSeq(h, a + 1, Len(h))[i] = h[a + i] /\ i \in DOMAIN SubSeq(h, a + 1, Len(h))
    BY <1>1, <2>3
  <2> QED BY <2>1, <2>2, <2>3, <2>4
<1> QED BY <1>2, <1>3 DEF ToSet

(* A page holds events.                                                    *)
LEMMA LatestMessagesType ==
  ASSUME NEW h \in Seq(Events)
  PROVE  LatestMessages(h) \in Seq(Events)
BY LatestPageBounds DEF LatestMessages

(* Prefixes is the set of prefixes.                                        *)
LEMMA PrefixesOf ==
  ASSUME NEW h \in Seq(Events), NEW g
  PROVE  g \in Prefixes(h) <=> g \in Seq(Events) /\ IsPrefix(g, h)
<1>1. ASSUME g \in Prefixes(h) PROVE g \in Seq(Events) /\ IsPrefix(g, h)
  BY <1>1, PrefixPointwise DEF Prefixes
<1>2. ASSUME g \in Seq(Events), IsPrefix(g, h) PROVE g \in Prefixes(h)
  <2>1. Len(g) \in 0..Len(h) /\ g = SubSeq(h, 1, Len(g))
    BY <1>2, PrefixPointwise
  <2> QED BY <2>1 DEF Prefixes
<1> QED BY <1>1, <1>2

-----------------------------------------------------------------------------
(* The operations that concern the history.                                *)
Operation == {"persist", "sync"}

(* A persist waits in a queue put together from two if in one of them.     *)
LEMMA QueuedConcat ==
  ASSUME NEW s \in Seq(Operation), NEW t \in Seq(Operation)
  PROVE  s \o t \in Seq(Operation) /\ (Queued(s \o t) <=> Queued(s) \/ Queued(t))
<1>1. \A i \in DOMAIN s : i \in DOMAIN (s \o t) /\ (s \o t)[i] = s[i]
  OBVIOUS
<1>2. \A i \in DOMAIN t : Len(s) + i \in DOMAIN (s \o t) /\ (s \o t)[Len(s) + i] = t[i]
  OBVIOUS
<1>3. \A i \in DOMAIN (s \o t) :
         \/ i \in DOMAIN s /\ (s \o t)[i] = s[i]
         \/ i - Len(s) \in DOMAIN t /\ (s \o t)[i] = t[i - Len(s)]
  OBVIOUS
<1>4. s \o t \in Seq(Operation)
  OBVIOUS
<1>5. ASSUME Queued(s \o t) PROVE Queued(s) \/ Queued(t)
  <2>1. PICK i \in DOMAIN (s \o t) : (s \o t)[i] = "persist"
    BY <1>5 DEF Queued
  <2> QED BY <1>3, <2>1 DEF Queued
<1>6. ASSUME Queued(s) PROVE Queued(s \o t)
  BY <1>1, <1>6 DEF Queued
<1>7. ASSUME Queued(t) PROVE Queued(s \o t)
  <2>1. PICK i \in DOMAIN t : t[i] = "persist"
    BY <1>7 DEF Queued
  <2>2. Len(s) + i \in DOMAIN (s \o t) /\ (s \o t)[Len(s) + i] = "persist"
    BY <1>2, <2>1
  <2> QED BY <2>2 DEF Queued
<1> QED BY <1>4, <1>5, <1>6, <1>7

(* A sync put into the queue.                                              *)
LEMMA QueuedAppend ==
  ASSUME NEW s \in Seq(Operation)
  PROVE  Append(s, "sync") \in Seq(Operation) /\ (Queued(Append(s, "sync")) <=> Queued(s))
BY DEF Operation, Queued

(* The first operation taken from the queue.                               *)
LEMMA QueuedTail ==
  ASSUME NEW s \in Seq(Operation), s # <<>>
  PROVE  /\ Tail(s) \in Seq(Operation) /\ Head(s) \in Operation
         /\ Queued(s) <=> Head(s) = "persist" \/ Queued(Tail(s))
<1>1. Tail(s) \in Seq(Operation) /\ Head(s) \in Operation
  OBVIOUS
<1>2. 1 \in DOMAIN s /\ s[1] = Head(s)
  OBVIOUS
<1>3. \A i \in DOMAIN Tail(s) : i + 1 \in DOMAIN s /\ Tail(s)[i] = s[i + 1]
  OBVIOUS
<1>4. \A i \in DOMAIN s : i = 1 \/ (i - 1 \in DOMAIN Tail(s) /\ Tail(s)[i - 1] = s[i])
  OBVIOUS
<1> QED BY <1>1, <1>2, <1>3, <1>4 DEF Queued

(* The sync connect_impl begins with, before what was queued or alone.     *)
LEMMA QueuedSync ==
  ASSUME NEW s \in Seq(Operation)
  PROVE  /\ <<"sync">> \o s \in Seq(Operation) /\ (Queued(<<"sync">> \o s) <=> Queued(s))
         /\ <<"sync">> \o <<>> \in Seq(Operation) /\ ~Queued(<<"sync">> \o <<>>)
<1>1. <<"sync">> \in Seq(Operation) /\ ~Queued(<<"sync">>) /\ <<>> \in Seq(Operation) /\ ~Queued(<<>>)
  BY DEF Operation, Queued
<1> QED BY <1>1, QueuedConcat

(* The persists a writer enqueues for the events new to it.                *)
LEMMA PersistsQueued ==
  ASSUME NEW n \in Nodes, NEW k \in Nat
  PROVE  /\ Persists(n, k) \in Seq(Operation)
         /\ Queued(Persists(n, k)) <=> n \in Writers /\ k # 0
<1>1. CASE n \in Writers
  <2>1. Persists(n, k) = [i \in 1..k |-> "persist"]
    BY <1>1 DEF Persists
  <2>2. [i \in 1..k |-> "persist"] \in Seq(Operation)
    BY DEF Operation
  <2>3. Queued([i \in 1..k |-> "persist"]) <=> k # 0
    BY DEF Queued
  <2> QED BY <1>1, <2>1, <2>2, <2>3
<1>2. CASE n \notin Writers
  BY <1>2 DEF Persists, Queued
<1> QED BY <1>1, <1>2

(* What a sync reads are events.                                           *)
LEMMA PagesRead ==
  ASSUME TypeOK, NEW n \in Nodes, pc[n] = "pages"
  PROVE  Published(source[n], bound[n]) \in Seq(Events)
<1> DEFINE ps == [p \in 1..bound[n] |-> pages[source[n]][p]]
<1>1. bound[n] \in 1..Subkeys /\ source[n] \in Writers
  BY DEF TypeOK
<1>2. \A p \in 1..bound[n] : pages[source[n]][p] \in Seq(Events)
  BY <1>1, HistoryAssumption DEF TypeOK
<1>3. bound[n] \in Nat \ {0}
  BY <1>1, HistoryAssumption
<1>4. ps \in Seq(Seq(Events)) /\ Len(ps) # 0
  BY <1>2, <1>3
<1> HIDE DEF ps
<1>5. ps # <<>>
  BY <1>4
<1>6. FlattenSeq(ps) \in Seq(Events)
  BY <1>4, <1>5, FlattenOf
<1> QED BY <1>6 DEF ps, Published

(* What ReadPages makes of the copy.  If it adds nothing the copy is as it *)
(* was, so a merge that enqueues no persist needs none.                    *)
LEMMA MergeOfPages ==
  ASSUME TypeOK, NEW n \in Nodes, pc[n] = "pages"
  PROVE  LET merged == Merge(copy[n], Published(source[n], bound[n]))
         IN /\ merged \in Seq(Events)
            /\ IsPrefix(copy[n], merged)
            /\ Len(merged) - Len(copy[n]) \in Nat
            /\ Len(merged) - Len(copy[n]) = 0 => merged = copy[n]
            /\ IsInjective(copy[n]) => IsInjective(merged)
<1> DEFINE merged == Merge(copy[n], Published(source[n], bound[n]))
<1>1. copy[n] \in Seq(Events)
  BY DEF TypeOK
<1>2. Published(source[n], bound[n]) \in Seq(Events)
  BY PagesRead
<1>3. /\ merged \in Seq(Events)
      /\ IsPrefix(copy[n], merged)
      /\ IsInjective(copy[n]) => IsInjective(merged)
  BY <1>1, <1>2, MergeExtends
<1> HIDE DEF merged
<1>4. Len(copy[n]) <= Len(merged) /\ \A i \in 1..Len(copy[n]) : copy[n][i] = merged[i]
  BY <1>1, <1>3, PrefixPointwise
<1>5. Len(merged) - Len(copy[n]) = 0 => merged = copy[n]
  BY <1>1, <1>3, <1>4
<1>6. Len(merged) - Len(copy[n]) \in Nat
  BY <1>1, <1>3, <1>4
<1> QED BY <1>3, <1>5, <1>6 DEF merged

-----------------------------------------------------------------------------
(* The invariant holds when the room has been created.                     *)
LEMMA HistoryInit == Init => HistoryInv
<1> SUFFICES ASSUME Init PROVE HistoryInv
  OBVIOUS
<1> USE HistoryAssumption DEF Init
<1>1. TypeOK
  <2>1. 1 \in 1..Subkeys /\ 0 \in 0..MaxReloads
    OBVIOUS
  <2>2. <<>> \in Seq(Events) /\ <<>> \in Seq({"persist", "sync"})
    OBVIOUS
  <2> QED BY <2>1, <2>2 DEF TypeOK
<1>2. WritersPersist
  BY DEF WritersPersist, PersistWaits, Queued
<1>3. NoDuplicates /\ CopiesDistinct
  BY DEF NoDuplicates, CopiesDistinct, IsInjective
<1>4. PagesInStore
  BY DEF PagesInStore
<1>5. ASSUME NEW w \in Writers PROVE StoreIs(w, <<>>)
  BY LatestPageBounds DEF StoreIs, LatestPage, LatestMessages
<1>6. TailInv
  BY <1>5 DEF TailInv
<1>7. <<>> \in Prefixes(<<>>)
  <2>1. ASSUME NEW h \in Seq(Events) PROVE h \in Prefixes(h)
    BY PrefixReflexive, PrefixesOf
  <2>2. <<>> \in Seq(Events)
    OBVIOUS
  <2> QED BY <2>1, <2>2
<1>8. StoreBehind
  BY <1>5, <1>7 DEF StoreBehind
<1>9. CopyBehind
  BY DEF CopyBehind
<1> QED BY <1>1, <1>2, <1>3, <1>4, <1>6, <1>8, <1>9 DEF HistoryInv

(* An event delivered grows the history, and a writer enqueues a persist:  *)
(* TailInv asks for nothing until it has run.                              *)
LEMMA DeliverKeeps ==
  ASSUME HistoryInv, NEW n \in Nodes, NEW e \in Events, Deliver(n, e)
  PROVE  HistoryInv'
<1> USE DEF Deliver, HistoryInv
<1>1. /\ history' = [history EXCEPT ![n] = ApplyEvent(history[n], e)]
      /\ ops' = [ops EXCEPT ![n] = ops[n] \o Persists(n, 1)]
      /\ history[n] \in Seq(Events) /\ ops[n] \in Seq(Operation)
      /\ UNCHANGED <<pages, latest, stale, pc, copy, source, bound, listed, failed, shortened,
                     dropped, reloads>>
  BY DEF TypeOK, store, thread, ghost, Operation
<1>2. /\ ApplyEvent(history[n], e) \in Seq(Events)
      /\ IsPrefix(history[n], ApplyEvent(history[n], e))
      /\ IsInjective(ApplyEvent(history[n], e))
  BY <1>1, ApplyEventExtends DEF NoDuplicates
<1>3. /\ ops[n] \o Persists(n, 1) \in Seq(Operation)
      /\ Queued(ops[n] \o Persists(n, 1)) <=> Queued(ops[n]) \/ n \in Writers
  BY <1>1, QueuedConcat, PersistsQueued
<1> HIDE DEF Deliver
<1>4. TypeOK'
  BY <1>1, <1>2, <1>3 DEF TypeOK, Operation
<1>5. WritersPersist'
  BY <1>1, <1>3 DEF WritersPersist, PersistWaits, TypeOK
<1>6. NoDuplicates' /\ CopiesDistinct'
  BY <1>1, <1>2 DEF NoDuplicates, CopiesDistinct, TypeOK
<1>7. PagesInStore'
  BY <1>1 DEF PagesInStore
<1>8. TailInv'
  BY <1>1, <1>3 DEF TailInv, PersistWaits, StoreIs, TypeOK
<1>9. CopyBehind'
  BY <1>1, <1>2, PrefixTransitive DEF CopyBehind, TypeOK
<1>10. StoreBehind'
  <2> SUFFICES ASSUME ~shortened, NEW w \in Writers
               PROVE  \E g \in Prefixes(history'[w]) :
                        StoreIs(w, g)' /\ (pc'[w] # "idle" => IsPrefix(g, copy'[w]))
    BY <1>1 DEF StoreBehind
  <2>1. PICK g \in Prefixes(history[w]) :
          StoreIs(w, g) /\ (pc[w] # "idle" => IsPrefix(g, copy[w]))
    BY DEF StoreBehind
  <2>2. /\ history[w] \in Seq(Events) /\ history'[w] \in Seq(Events)
        /\ IsPrefix(history[w], history'[w]) \/ history'[w] = history[w]
    BY <1>1, <1>2, HistoryAssumption DEF TypeOK
  <2>3. g \in Prefixes(history'[w])
    BY <2>1, <2>2, PrefixesOf, PrefixTransitive
  <2> QED BY <1>1, <2>1, <2>3 DEF StoreIs
<1> QED BY <1>4, <1>5, <1>6, <1>7, <1>8, <1>9, <1>10

(* A sync put into the queue changes no room.                              *)
LEMMA RequestSyncKeeps ==
  ASSUME HistoryInv, NEW n \in Nodes, RequestSync(n)
  PROVE  HistoryInv'
<1> USE DEF RequestSync, HistoryInv
<1>1. /\ ops' = [ops EXCEPT ![n] = Append(ops[n], "sync")]
      /\ ops[n] \in Seq(Operation)
      /\ UNCHANGED <<history, pages, latest, stale, pc, copy, source, bound, listed, failed,
                     shortened, dropped, reloads>>
  BY DEF TypeOK, store, thread, ghost, Operation
<1>2. /\ Append(ops[n], "sync") \in Seq(Operation)
      /\ Queued(Append(ops[n], "sync")) <=> Queued(ops[n])
  BY <1>1, QueuedAppend
<1> HIDE DEF RequestSync
<1>3. TypeOK'
  BY <1>1, <1>2 DEF TypeOK, Operation
<1>4. \A m \in Nodes : PersistWaits(m)' <=> PersistWaits(m)
  BY <1>1, <1>2 DEF PersistWaits, TypeOK
<1>5. WritersPersist' /\ NoDuplicates' /\ CopiesDistinct' /\ PagesInStore'
  BY <1>1, <1>4 DEF WritersPersist, NoDuplicates, CopiesDistinct, PagesInStore
<1>6. TailInv' /\ CopyBehind' /\ StoreBehind'
  BY <1>1, <1>4, HistoryAssumption DEF TailInv, CopyBehind, StoreBehind, StoreIs
<1> QED BY <1>3, <1>5, <1>6

(* The next operation starts from the history as it is.                    *)
LEMMA StartKeeps ==
  ASSUME HistoryInv, NEW n \in Nodes, Start(n)
  PROVE  HistoryInv'
<1> USE DEF Start, HistoryInv
<1>1. /\ pc[n] = "idle" /\ ops[n] # <<>>
      /\ ops' = [ops EXCEPT ![n] = Tail(ops[n])]
      /\ pc' = [pc EXCEPT ![n] = Head(ops[n])]
      /\ copy' = [copy EXCEPT ![n] = history[n]]
      /\ ops[n] \in Seq(Operation) /\ history[n] \in Seq(Events)
      /\ UNCHANGED <<history, pages, latest, stale, source, bound, listed, failed, shortened,
                     dropped, reloads>>
  BY DEF TypeOK, store, thread, ghost, Operation
<1>2. /\ Tail(ops[n]) \in Seq(Operation) /\ Head(ops[n]) \in Operation
      /\ Queued(ops[n]) <=> Head(ops[n]) = "persist" \/ Queued(Tail(ops[n]))
  BY <1>1, QueuedTail
<1> HIDE DEF Start
<1>3. TypeOK'
  BY <1>1, <1>2 DEF TypeOK, Operation, WritersPersist, PersistWaits
<1>4. WritersPersist'
  BY <1>1, <1>2 DEF WritersPersist, PersistWaits, TypeOK
<1>5. NoDuplicates' /\ CopiesDistinct' /\ PagesInStore'
  BY <1>1 DEF NoDuplicates, CopiesDistinct, PagesInStore, TypeOK
<1>6. TailInv'
  BY <1>1, <1>2 DEF TailInv, PersistWaits, StoreIs, TypeOK, Operation
<1>7. IsPrefix(history[n], history[n])
  BY <1>1, PrefixPointwise
<1>8. CopyBehind'
  BY <1>1, <1>7 DEF CopyBehind, TypeOK
<1>9. StoreBehind'
  <2> SUFFICES ASSUME ~shortened, NEW w \in Writers
               PROVE  \E g \in Prefixes(history[w]) :
                        StoreIs(w, g) /\ (pc'[w] # "idle" => IsPrefix(g, copy'[w]))
    BY <1>1 DEF StoreBehind, StoreIs
  <2>1. PICK g \in Prefixes(history[w]) :
          StoreIs(w, g) /\ (pc[w] # "idle" => IsPrefix(g, copy[w]))
    BY DEF StoreBehind
  <2>2. IsPrefix(g, history[w])
    BY <2>1, PrefixesOf, HistoryAssumption DEF TypeOK
  <2>3. w = n \/ (pc'[w] = pc[w] /\ copy'[w] = copy[w])
    BY <1>1, HistoryAssumption DEF TypeOK
  <2> QED BY <1>1, <2>1, <2>2, <2>3 DEF TypeOK
<1> QED BY <1>3, <1>4, <1>5, <1>6, <1>8, <1>9

(* A persist publishes its copy, which is a prefix of the history; without *)
(* another one waiting it is the whole history.                            *)
LEMMA PersistKeeps ==
  ASSUME HistoryInv, NEW w \in Writers, Persist(w)
  PROVE  HistoryInv'
<1> USE DEF Persist, HistoryInv
<1>1. PICK published \in BOOLEAN : WritePage(w, published)
  OBVIOUS
<1> DEFINE page == LatestPage(copy[w])
           messages == LatestMessages(copy[w])
<1>2. /\ pc[w] = "persist"
      /\ pages' = [pages EXCEPT ![w][page] = messages]
      /\ latest' = [latest EXCEPT ![w] = page]
      /\ stale' = [stale EXCEPT ![w] = ~published]
      /\ failed' = [failed EXCEPT ![w] = ~published]
      /\ pc' = [pc EXCEPT ![w] = "idle"]
      /\ copy' = [copy EXCEPT ![w] = <<>>]
      /\ source' = [source EXCEPT ![w] = w]
      /\ bound' = [bound EXCEPT ![w] = 1]
      /\ listed' = [listed EXCEPT ![w] = {}]
      /\ UNCHANGED <<history, ops, shortened, dropped, reloads>>
  BY <1>1 DEF WritePage, End
<1>3. w \in Nodes /\ copy[w] \in Seq(Events) /\ history[w] \in Seq(Events)
  BY HistoryAssumption DEF TypeOK
<1>4. page \in 1..Subkeys /\ page < Subkeys /\ messages \in Seq(Events)
  <2>1. ~Full(copy[w])
    OBVIOUS
  <2>2. page \in Nat \ {0} /\ messages \in Seq(Events)
    BY <1>3, LatestPageBounds, LatestMessagesType
  <2> QED
    BY <2>1, <2>2, HistoryAssumption DEF Full
<1> HIDE DEF page, messages, Persist
<1>5. TypeOK'
  <2>1. /\ pages' \in [Writers -> [1..Subkeys -> Seq(Events)]]
        /\ latest' \in [Writers -> 1..Subkeys]
    BY <1>2, <1>4 DEF TypeOK
  <2>2. /\ stale' \in [Writers -> BOOLEAN]
        /\ failed' \in [Writers -> BOOLEAN]
    BY <1>2 DEF TypeOK
  <2>3. pc' \in [Nodes -> {"idle", "persist", "sync", "pages", "replace"}]
    BY <1>2 DEF TypeOK
  <2>6. /\ pc'[w] = "idle"
        /\ \A n \in Nodes \ {w} : pc'[n] = pc[n] /\ source'[n] = source[n]
    BY <1>2, <1>3 DEF TypeOK
  <2>7. \A n \in Nodes : /\ pc'[n] = "pages" => source'[n] \in Writers
                         /\ pc'[n] = "persist" => n \in Writers
    BY <2>6 DEF TypeOK
  <2>4. /\ copy' \in [Nodes -> Seq(Events)]
        /\ source' \in [Nodes -> Nodes]
        /\ bound' \in [Nodes -> 1..Subkeys]
        /\ listed' \in [Nodes -> SUBSET Events]
    BY <1>2, <1>3, <1>4, HistoryAssumption DEF TypeOK
  <2>5. UNCHANGED <<history, ops, shortened, dropped, reloads>>
    BY <1>2
  <2> QED
    BY <2>1, <2>2, <2>3, <2>4, <2>5, <2>7 DEF TypeOK
<1>6. WritersPersist' /\ NoDuplicates' /\ CopiesDistinct'
  BY <1>2 DEF WritersPersist, PersistWaits, NoDuplicates, CopiesDistinct, IsInjective, TypeOK
<1>7. PagesInStore'
  BY <1>2, <1>4, HistoryAssumption DEF PagesInStore, TypeOK
<1>8. latest'[w] = page /\ pages'[w][latest'[w]] = messages
  BY <1>2, <1>4 DEF TypeOK
<1>9. ASSUME NEW v \in Writers, v # w
      PROVE  /\ latest'[v] = latest[v] /\ pages'[v] = pages[v] /\ failed'[v] = failed[v]
             /\ pc'[v] = pc[v] /\ copy'[v] = copy[v]
  BY <1>2, <1>9
<1>10. TailInv'
  <2> SUFFICES ASSUME NEW v \in Writers, ~PersistWaits(v)
               PROVE  /\ pc'[v] # "idle" => copy'[v] = history[v]
                      /\ pc'[v] # "persist" /\ ~failed'[v]
                           => /\ latest'[v] = LatestPage(history[v])
                              /\ pages'[v][latest'[v]] = LatestMessages(history[v])
    BY <1>2 DEF TailInv, StoreIs, PersistWaits
  <2>1. CASE v # w
    BY <1>9, <2>1 DEF TailInv, StoreIs
  <2>2. CASE v = w
    <3>1. pc'[w] = "idle"
      BY <1>2, <1>3, <2>2 DEF TypeOK
    <3>2. copy[w] = history[w]
      BY <1>2, <2>2 DEF TailInv
    <3> QED BY <1>8, <2>2, <3>1, <3>2 DEF page, messages
  <2> QED BY <2>1, <2>2
<1>11. CopyBehind'
  BY <1>2, <1>3 DEF CopyBehind, TypeOK
<1>12. StoreBehind'
  <2> SUFFICES ASSUME ~shortened, NEW v \in Writers
               PROVE  \E g \in Prefixes(history[v]) :
                        /\ latest'[v] = LatestPage(g) /\ pages'[v][latest'[v]] = LatestMessages(g)
                        /\ pc'[v] # "idle" => IsPrefix(g, copy'[v])
    BY <1>2 DEF StoreBehind, StoreIs
  <2>1. CASE v # w
    BY <1>9, <2>1 DEF StoreBehind, StoreIs
  <2>2. CASE v = w
    <3>1. copy[w] \in Prefixes(history[w])
      BY <1>2, <1>3, PrefixesOf DEF CopyBehind
    <3>2. pc'[w] = "idle"
      BY <1>2, <1>3 DEF TypeOK
    <3> QED BY <1>8, <2>2, <3>1, <3>2 DEF page, messages
  <2> QED BY <2>1, <2>2
<1> QED BY <1>5, <1>6, <1>7, <1>10, <1>11, <1>12

(* An operation ends without a change of the room or of what is published. *)
LEMMA EndKeeps ==
  ASSUME HistoryInv, NEW n \in Nodes, End(n),
         UNCHANGED <<history, pages, latest, stale, ops, shortened, dropped, reloads>>,
         \/ failed' = failed /\ pc[n] # "persist"
         \/ n \in Writers /\ failed' = [failed EXCEPT ![n] = TRUE]
  PROVE  HistoryInv'
<1> USE DEF HistoryInv
<1>1. /\ pc' = [pc EXCEPT ![n] = "idle"]
      /\ copy' = [copy EXCEPT ![n] = <<>>]
      /\ source' = [source EXCEPT ![n] = n]
      /\ bound' = [bound EXCEPT ![n] = 1]
      /\ listed' = [listed EXCEPT ![n] = {}]
  BY DEF End
<1>2. TypeOK'
  <2>1. failed' \in [Writers -> BOOLEAN]
    BY DEF TypeOK
  <2>2. <<>> \in Seq(Events) /\ 1 \in 1..Subkeys
    BY HistoryAssumption
  <2> QED BY <1>1, <2>1, <2>2, HistoryAssumption DEF TypeOK
<1>3. WritersPersist' /\ NoDuplicates' /\ CopiesDistinct' /\ PagesInStore'
  BY <1>1 DEF WritersPersist, PersistWaits, NoDuplicates, CopiesDistinct, PagesInStore,
     IsInjective, TypeOK
<1>4. TailInv'
  <2> SUFFICES ASSUME NEW v \in Writers, ~PersistWaits(v)
               PROVE  /\ pc'[v] # "idle" => copy'[v] = history[v]
                      /\ pc'[v] # "persist" /\ ~failed'[v] => StoreIs(v, history[v])
    BY DEF TailInv, StoreIs, PersistWaits
  <2>1. v \in Nodes
    BY HistoryAssumption
  <2>2. CASE v # n
    BY <1>1, <2>1, <2>2 DEF TailInv, TypeOK
  <2>3. CASE v = n
    BY <1>1, <2>1, <2>3 DEF TailInv, TypeOK
  <2> QED BY <2>2, <2>3
<1>5. CopyBehind'
  BY <1>1 DEF CopyBehind, TypeOK
<1>6. StoreBehind'
  BY <1>1, HistoryAssumption DEF StoreBehind, StoreIs, TypeOK
<1> QED BY <1>2, <1>3, <1>4, <1>5, <1>6

(* A persist that fails.                                                   *)
LEMMA PersistFailsKeeps ==
  ASSUME HistoryInv, NEW w \in Writers, PersistFails(w)
  PROVE  HistoryInv'
<1>1. w \in Nodes
  BY HistoryAssumption
<1> QED BY <1>1, EndKeeps DEF PersistFails, store

(* A sync that reads nothing.                                              *)
LEMMA SyncFailsKeeps ==
  ASSUME HistoryInv, NEW n \in Nodes, SyncFails(n)
  PROVE  HistoryInv'
BY EndKeeps DEF SyncFails, store, ghost

(* A sync chooses the store to read.                                       *)
LEMMA ReadManifestKeeps ==
  ASSUME HistoryInv, NEW n \in Nodes, NEW w \in Writers, ReadManifest(n, w)
  PROVE  HistoryInv'
<1> USE DEF HistoryInv
<1>1. /\ pc[n] = "sync"
      /\ source' = [source EXCEPT ![n] = w]
      /\ bound' = [bound EXCEPT ![n] = latest[w]]
      /\ listed' = [listed EXCEPT ![n] = Stored(w)]
      /\ pc' = [pc EXCEPT ![n] = "pages"]
      /\ UNCHANGED <<history, pages, latest, stale, ops, copy, failed, shortened, dropped, reloads>>
  BY DEF ReadManifest, store, ghost
<1>2. TypeOK'
  BY <1>1, StoredEvents, HistoryAssumption DEF TypeOK
<1>3. WritersPersist' /\ NoDuplicates' /\ CopiesDistinct' /\ PagesInStore'
  BY <1>1 DEF WritersPersist, PersistWaits, NoDuplicates, CopiesDistinct, PagesInStore
<1>4. \A v \in Writers : v # n => pc'[v] = pc[v]
  BY <1>1, HistoryAssumption DEF TypeOK
<1>5. n \in Writers => pc'[n] = "pages"
  BY <1>1, HistoryAssumption DEF TypeOK
<1>6. TailInv'
  BY <1>1, <1>4, <1>5 DEF TailInv, PersistWaits, StoreIs
<1>7. CopyBehind'
  BY <1>1 DEF CopyBehind, TypeOK
<1>8. StoreBehind'
  BY <1>1, <1>4, <1>5 DEF StoreBehind, StoreIs
<1> QED BY <1>2, <1>3, <1>6, <1>7, <1>8

(* A sync merges the pages into its copy.                                  *)
LEMMA ReadPagesKeeps ==
  ASSUME HistoryInv, NEW n \in Nodes, ReadPages(n)
  PROVE  HistoryInv'
<1> USE DEF HistoryInv
<1> DEFINE merged == Merge(copy[n], Published(source[n], bound[n]))
           count == Len(merged) - Len(copy[n])
<1>1. /\ pc[n] = "pages"
      /\ copy' = [copy EXCEPT ![n] = merged]
      /\ ops' = [ops EXCEPT ![n] = ops[n] \o Persists(n, count)]
      /\ pc' = [pc EXCEPT ![n] = "replace"]
      /\ UNCHANGED <<history, pages, latest, stale, source, bound, listed, failed, shortened,
                     dropped, reloads>>
  BY DEF ReadPages, store, ghost
<1>2. /\ merged \in Seq(Events)
      /\ IsPrefix(copy[n], merged)
      /\ count \in Nat
      /\ count = 0 => merged = copy[n]
      /\ IsInjective(merged)
  BY <1>1, MergeOfPages DEF CopiesDistinct
<1> HIDE DEF merged, count
<1>3. ops[n] \in Seq(Operation) /\ copy[n] \in Seq(Events) /\ history[n] \in Seq(Events)
  BY DEF TypeOK, Operation
<1>4. /\ ops[n] \o Persists(n, count) \in Seq(Operation)
      /\ Queued(ops[n] \o Persists(n, count)) <=> Queued(ops[n]) \/ (n \in Writers /\ count # 0)
  BY <1>2, <1>3, QueuedConcat, PersistsQueued
<1>5. TypeOK'
  BY <1>1, <1>2, <1>4 DEF TypeOK, Operation
<1>6. WritersPersist'
  BY <1>1, <1>4 DEF WritersPersist, PersistWaits, TypeOK
<1>7. NoDuplicates' /\ CopiesDistinct' /\ PagesInStore'
  BY <1>1, <1>2 DEF NoDuplicates, CopiesDistinct, PagesInStore, TypeOK
<1>8. TailInv'
  <2> SUFFICES ASSUME NEW v \in Writers, ~PersistWaits(v)'
               PROVE  /\ pc'[v] # "idle" => copy'[v] = history[v]
                      /\ pc'[v] # "persist" /\ ~failed[v] => StoreIs(v, history[v])
    BY <1>1 DEF TailInv, StoreIs
  <2>1. v \in Nodes
    BY HistoryAssumption
  <2>2. CASE v # n
    BY <1>1, <2>1, <2>2 DEF TailInv, PersistWaits, TypeOK
  <2>3. CASE v = n
    <3>1. ~Queued(ops[n]) /\ merged = copy[n]
      BY <1>1, <1>2, <1>4, <2>3 DEF PersistWaits, TypeOK
    <3> QED BY <1>1, <2>3, <3>1 DEF TailInv, PersistWaits, TypeOK
  <2> QED BY <2>2, <2>3
<1>9. CopyBehind'
  BY <1>1 DEF CopyBehind, TypeOK
<1>10. StoreBehind'
  <2> SUFFICES ASSUME ~shortened, NEW v \in Writers
               PROVE  \E g \in Prefixes(history[v]) :
                        StoreIs(v, g) /\ (pc'[v] # "idle" => IsPrefix(g, copy'[v]))
    BY <1>1 DEF StoreBehind, StoreIs
  <2>1. PICK g \in Prefixes(history[v]) :
          StoreIs(v, g) /\ (pc[v] # "idle" => IsPrefix(g, copy[v]))
    BY DEF StoreBehind
  <2>2. v \in Nodes /\ g \in Seq(Events)
    BY <2>1, PrefixesOf, HistoryAssumption DEF TypeOK
  <2>3. CASE v # n
    BY <1>1, <2>1, <2>2, <2>3 DEF TypeOK
  <2>4. CASE v = n
    <3>1. copy'[v] = merged /\ IsPrefix(g, copy[n])
      BY <1>1, <2>1, <2>2, <2>4 DEF TypeOK
    <3> QED BY <1>2, <1>3, <2>1, <2>2, <3>1, PrefixTransitive
  <2> QED BY <2>3, <2>4
<1> QED BY <1>5, <1>6, <1>7, <1>8, <1>9, <1>10

(* The copy replaces the history.  It may lack what was delivered since, but *)
(* holds what was persisted before: no persist ran meanwhile.              *)
LEMMA ReplaceRoomKeeps ==
  ASSUME HistoryInv, NEW n \in Nodes, ReplaceRoom(n)
  PROVE  HistoryInv'
<1> USE DEF HistoryInv
<1>1. /\ pc[n] = "replace"
      /\ history' = [history EXCEPT ![n] = copy[n]]
      /\ pc' = [pc EXCEPT ![n] = "idle"]
      /\ copy' = [copy EXCEPT ![n] = <<>>]
      /\ source' = [source EXCEPT ![n] = n]
      /\ bound' = [bound EXCEPT ![n] = 1]
      /\ listed' = [listed EXCEPT ![n] = {}]
      /\ dropped' \in BOOLEAN
      /\ UNCHANGED <<pages, latest, stale, ops, failed, shortened, reloads>>
  BY DEF ReplaceRoom, End, store, TypeOK
<1>2. copy[n] \in Seq(Events)
  BY DEF TypeOK
<1>3. TypeOK'
  BY <1>1, <1>2, HistoryAssumption DEF TypeOK
<1>4. WritersPersist' /\ NoDuplicates' /\ CopiesDistinct' /\ PagesInStore'
  BY <1>1 DEF WritersPersist, PersistWaits, NoDuplicates, CopiesDistinct, PagesInStore,
     IsInjective, TypeOK
<1>5. TailInv'
  <2> SUFFICES ASSUME NEW v \in Writers, ~PersistWaits(v)
               PROVE  /\ pc'[v] # "idle" => copy'[v] = history'[v]
                      /\ pc'[v] # "persist" /\ ~failed[v] => StoreIs(v, history'[v])
    BY <1>1 DEF TailInv, StoreIs, PersistWaits
  <2>1. v \in Nodes
    BY HistoryAssumption
  <2> QED BY <1>1, <2>1 DEF TailInv, TypeOK
<1>6. CopyBehind'
  BY <1>1 DEF CopyBehind, TypeOK
<1>7. StoreBehind'
  <2> SUFFICES ASSUME ~shortened, NEW v \in Writers
               PROVE  \E g \in Prefixes(history'[v]) :
                        StoreIs(v, g) /\ (pc'[v] # "idle" => IsPrefix(g, copy'[v]))
    BY <1>1 DEF StoreBehind, StoreIs
  <2>1. PICK g \in Prefixes(history[v]) :
          StoreIs(v, g) /\ (pc[v] # "idle" => IsPrefix(g, copy[v]))
    BY DEF StoreBehind
  <2>2. v \in Nodes /\ g \in Seq(Events)
    BY <2>1, PrefixesOf, HistoryAssumption DEF TypeOK
  <2>3. CASE v # n
    BY <1>1, <2>1, <2>2, <2>3 DEF TypeOK
  <2>4. CASE v = n
    <3>1. history'[v] = copy[n] /\ pc'[v] = "idle" /\ IsPrefix(g, copy[n])
      BY <1>1, <2>1, <2>2, <2>4 DEF TypeOK
    <3> QED BY <1>2, <2>1, <2>2, <3>1, PrefixesOf
  <2> QED BY <2>3, <2>4
<1> QED BY <1>3, <1>4, <1>5, <1>6, <1>7

(* A restart or a reconnect gives back an earlier history.                 *)
LEMMA ReloadKeeps ==
  ASSUME HistoryInv, NEW n \in Nodes, NEW restarted \in BOOLEAN, Reload(n, restarted)
  PROVE  HistoryInv'
<1> USE DEF HistoryInv
<1> DEFINE kept == IF restarted THEN <<>> ELSE ops[n]
<1>1. PICK k \in 0..Len(history[n]) :
       /\ history' = [history EXCEPT ![n] = SubSeq(history[n], 1, k)]
       /\ shortened' = (shortened \/ k < Len(history[n]))
  BY DEF Reload
<1>2. /\ reloads < MaxReloads /\ reloads' = reloads + 1
      /\ restarted \/ pc[n] = "idle"
      /\ failed' = [w \in Writers |-> failed[w] \/ w = n]
      /\ stale' = [w \in Writers |-> stale[w] /\ w # n]
      /\ ops' = [ops EXCEPT ![n] = <<"sync">> \o kept]
      /\ pc' = [pc EXCEPT ![n] = "idle"]
      /\ copy' = [copy EXCEPT ![n] = <<>>]
      /\ source' = [source EXCEPT ![n] = n]
      /\ bound' = [bound EXCEPT ![n] = 1]
      /\ listed' = [listed EXCEPT ![n] = {}]
      /\ UNCHANGED <<pages, latest, dropped>>
  BY DEF Reload, End, store
<1>3. history[n] \in Seq(Events) /\ ops[n] \in Seq(Operation)
  BY DEF TypeOK, Operation
<1>4. /\ SubSeq(history[n], 1, k) \in Seq(Events)
      /\ IsInjective(SubSeq(history[n], 1, k))
      /\ k = Len(history[n]) => SubSeq(history[n], 1, k) = history[n]
  BY <1>1, <1>3 DEF NoDuplicates, IsInjective
<1>5. /\ <<"sync">> \o kept \in Seq(Operation)
      /\ Queued(<<"sync">> \o kept) => Queued(ops[n])
  BY <1>3, QueuedSync
<1> HIDE DEF kept
<1>6. TypeOK'
  BY <1>1, <1>2, <1>4, <1>5, HistoryAssumption DEF TypeOK, Operation
<1>7. WritersPersist'
  BY <1>2, <1>5 DEF WritersPersist, PersistWaits, TypeOK
<1>8. NoDuplicates' /\ CopiesDistinct' /\ PagesInStore'
  BY <1>1, <1>2, <1>4 DEF NoDuplicates, CopiesDistinct, PagesInStore, IsInjective, TypeOK
<1>9. \A v \in Writers : v # n =>
        /\ v \in Nodes /\ pc'[v] = pc[v] /\ copy'[v] = copy[v] /\ history'[v] = history[v]
        /\ ops'[v] = ops[v] /\ failed'[v] = failed[v]
  BY <1>1, <1>2, HistoryAssumption DEF TypeOK
<1>10. n \in Writers => failed'[n] /\ pc'[n] = "idle"
  BY <1>2, HistoryAssumption DEF TypeOK
<1>11. TailInv'
  BY <1>2, <1>9, <1>10 DEF TailInv, PersistWaits, StoreIs
<1>12. ~shortened' => ~shortened /\ history' = history
  <2> SUFFICES ASSUME ~shortened' PROVE ~shortened /\ history' = history
    OBVIOUS
  <2>1. ~shortened /\ k = Len(history[n])
    <3>1. ~shortened /\ ~(k < Len(history[n]))
      BY <1>1, Zenon
    <3>2. k \in 0..Len(history[n]) /\ Len(history[n]) \in Nat
      BY <1>1, <1>3
    <3> QED BY <3>1, <3>2
  <2>2. history' = [history EXCEPT ![n] = history[n]]
    BY <1>1, <1>4, <2>1
  <2> QED BY <2>1, <2>2 DEF TypeOK
<1>13. CopyBehind'
  BY <1>2, <1>12 DEF CopyBehind, TypeOK
<1>14. StoreBehind'
  BY <1>2, <1>9, <1>10, <1>12 DEF StoreBehind, StoreIs
<1> QED BY <1>6, <1>7, <1>8, <1>11, <1>13, <1>14

-----------------------------------------------------------------------------
(* Every step keeps the invariant.                                         *)
LEMMA HistoryStep == HistoryInv /\ [Next]_vars => HistoryInv'
<1> SUFFICES ASSUME HistoryInv, [Next]_vars PROVE HistoryInv'
  OBVIOUS
<1>1. CASE UNCHANGED vars
  BY <1>1 DEF vars, store, thread, ghost, HistoryInv, TypeOK, WritersPersist, PersistWaits,
     NoDuplicates, CopiesDistinct, PagesInStore, TailInv, CopyBehind, StoreBehind, StoreIs
<1>2. CASE Next
  BY <1>2, DeliverKeeps, RequestSyncKeeps, StartKeeps, ReadManifestKeeps, ReadPagesKeeps,
     ReplaceRoomKeeps, SyncFailsKeeps, ReloadKeeps, PersistKeeps, PersistFailsKeeps DEF Next
<1> QED BY <1>1, <1>2

(* HistoryInv is inductive, so it holds throughout.                        *)
THEOREM HistoryInvariant == Spec => []HistoryInv
BY HistoryInit, HistoryStep, PTL DEF Spec

(* Types.                                                                  *)
THEOREM HistoryTypeCorrect == Spec => []TypeOK
BY HistoryInvariant, PTL DEF HistoryInv

(* However deliveries and syncs interleave, handle_wire_message and        *)
(* sync_from_record leave no event in a history twice.                     *)
THEOREM HistoryNeverDuplicates == Spec => []NoDuplicates
BY HistoryInvariant, PTL DEF HistoryInv

(* persist_room never writes past the pages of the store, whatever the page *)
(* size and the number of subkeys.                                         *)
THEOREM StoreNeverOverrun == Spec => []PagesInStore
BY HistoryInvariant, PTL DEF HistoryInv

(* Once persist_room has run and none is queued, the store ends with the   *)
(* history, whatever was delivered and synced since the room was copied.   *)
THEOREM TailAlwaysPublished == Spec => []TailPublished
<1>1. HistoryInv => TailPublished
  BY HistoryAssumption DEF HistoryInv, TailInv, TailPublished, PersistWaits, Queued, StoreIs
<1> QED BY <1>1, HistoryInvariant, PTL

(* The page a persist writes is a later one than the store ends with, or the *)
(* same one with no event less.                                            *)
LEMMA PersistGrowsPages ==
  ASSUME HistoryInv, TypeOK', NEW w \in Writers, Persist(w), ~shortened
  PROVE  /\ latest[w] <= latest'[w]
         /\ \A p \in 1..latest[w] : ToSet(pages[w][p]) \subseteq ToSet(pages'[w][p])
<1> DEFINE page == LatestPage(copy[w])
           messages == LatestMessages(copy[w])
<1>1. /\ pc[w] = "persist" /\ page < Subkeys
      /\ pages' = [pages EXCEPT ![w][page] = messages]
      /\ latest' = [latest EXCEPT ![w] = page]
  BY LatestPageBounds, HistoryAssumption DEF Persist, WritePage, Full, HistoryInv, TypeOK
<1>2. /\ w \in Nodes /\ copy[w] \in Seq(Events) /\ history[w] \in Seq(Events)
      /\ pages[w] \in [1..Subkeys -> Seq(Events)] /\ latest[w] \in 1..Subkeys
      /\ pages'[w] \in [1..Subkeys -> Seq(Events)] /\ latest'[w] \in 1..Subkeys
  BY HistoryAssumption DEF HistoryInv, TypeOK
<1>3. PICK g \in Prefixes(history[w]) : StoreIs(w, g) /\ IsPrefix(g, copy[w])
  BY <1>1 DEF HistoryInv, StoreBehind
<1>4. g \in Seq(Events) /\ Len(g) <= Len(copy[w])
  BY <1>2, <1>3, PrefixesOf, PrefixPointwise
<1>5. latest[w] <= page
  BY <1>2, <1>3, <1>4, LatestPageGrows DEF StoreIs
<1>6. latest'[w] = page /\ pages'[w] = [pages[w] EXCEPT ![page] = messages]
  BY <1>1, <1>2 DEF HistoryInv, TypeOK
<1>7. ASSUME NEW p \in 1..latest[w]
      PROVE  ToSet(pages[w][p]) \subseteq ToSet(pages'[w][p])
  <2>1. p \in 1..page /\ p \in 1..Subkeys /\ page \in 1..Subkeys
    BY <1>2, <1>5, <1>6, HistoryAssumption
  <2>2. CASE p # page
    BY <1>2, <1>6, <2>1, <2>2
  <2>3. CASE p = page
    <3>1. p = latest[w] /\ LatestPage(g) = page /\ pages[w][p] = LatestMessages(g)
      BY <1>2, <1>3, <1>5, <2>1, <2>3 DEF StoreIs
    <3>2. pages'[w][p] = messages
      BY <1>2, <1>6, <2>1, <2>3
    <3> QED BY <1>2, <1>3, <1>4, <2>1, <3>1, <3>2, LatestMessagesGrow
  <2> QED BY <2>2, <2>3
<1> HIDE DEF page, messages
<1> QED BY <1>5, <1>6, <1>7

(* Whoever steps, no page of a store loses an event.                       *)
LEMMA PagesGrow ==
  ASSUME HistoryInv, HistoryInv', [Next]_vars, NEW w \in Writers, ~shortened
  PROVE  /\ latest[w] <= latest'[w]
         /\ \A p \in 1..latest[w] : ToSet(pages[w][p]) \subseteq ToSet(pages'[w][p])
<1>1. latest[w] \in Nat
  BY HistoryAssumption DEF HistoryInv, TypeOK
<1>2. CASE UNCHANGED store
  BY <1>1, <1>2 DEF store
<1>3. CASE Persist(w)
  BY <1>3, PersistGrowsPages DEF HistoryInv
<1>4. ASSUME NEW v \in Writers, v # w, Persist(v)
      PROVE  pages'[w] = pages[w] /\ latest'[w] = latest[w]
  BY <1>4 DEF Persist, WritePage, HistoryInv, TypeOK
<1>5. UNCHANGED store \/ \E v \in Writers : Persist(v)
  BY DEF Next, Deliver, RequestSync, Start, ReadManifest, ReadPages, ReplaceRoom, SyncFails,
     Reload, PersistFails, vars
<1> QED BY <1>1, <1>2, <1>3, <1>4, <1>5

(* So what was published up to a page is still found up to that page.      *)
LEMMA PublishedGrows ==
  ASSUME HistoryInv, HistoryInv', [Next]_vars, NEW w \in Writers, ~shortened,
         NEW k \in 1..latest[w], NEW l \in 1..latest'[w], k <= l
  PROVE  ToSet(Published(w, k)) \subseteq ToSet(Published(w, l)')
<1>1. /\ pages[w] \in [1..Subkeys -> Seq(Events)] /\ latest[w] \in 1..Subkeys
      /\ pages'[w] \in [1..Subkeys -> Seq(Events)] /\ latest'[w] \in 1..Subkeys
  BY DEF HistoryInv, TypeOK
<1>2. k \in 1..Subkeys /\ l \in 1..Subkeys /\ 1..k \subseteq 1..l /\ 1..k \subseteq 1..latest[w]
  BY <1>1, HistoryAssumption
<1>3. /\ ToSet(Published(w, k)) = UNION {ToSet(pages[w][p]) : p \in 1..k}
      /\ ToSet(Published(w, l)') = UNION {ToSet(pages'[w][p]) : p \in 1..l}
  BY <1>1, <1>2, StoredContents DEF Published
<1>4. \A p \in 1..k : p \in 1..l /\ ToSet(pages[w][p]) \subseteq ToSet(pages'[w][p])
  BY <1>2, PagesGrow
<1> QED BY <1>3, <1>4

(* What is published stays, although persist_room writes a page again from a *)
(* copy that syncs replace, unless a reload forgot events.                 *)
THEOREM PublishedAlwaysStays == Spec => PublishedStays
<1>1. HistoryInv /\ HistoryInv' /\ [Next]_vars
        => [\A w \in Writers : shortened \/ Stored(w) \subseteq Stored(w)']_vars
  <2> SUFFICES ASSUME HistoryInv, HistoryInv', [Next]_vars, NEW w \in Writers, ~shortened
               PROVE  Stored(w) \subseteq Stored(w)'
    OBVIOUS
  <2>1. latest[w] \in 1..Subkeys /\ latest'[w] \in 1..Subkeys
    BY DEF HistoryInv, TypeOK
  <2>2. latest[w] \in 1..latest[w] /\ latest'[w] \in 1..latest'[w]
    BY <2>1, HistoryAssumption
  <2>3. latest[w] <= latest'[w]
    BY PagesGrow
  <2> QED BY <2>2, <2>3, PublishedGrows DEF Stored
<1> QED BY <1>1, HistoryInvariant, PTL DEF Spec, PublishedStays

-----------------------------------------------------------------------------
(* A sync reads pages that exist, and what its manifest listed is still    *)
(* there, or already in its copy.                                          *)
ListedPlace(n) ==
  /\ pc[n] = "pages" => /\ bound[n] <= latest[source[n]]
                        /\ listed[n] \subseteq ToSet(Published(source[n], bound[n]))
  /\ pc[n] = "replace" => listed[n] \subseteq ToSet(copy[n])

ListedInv == ~shortened => \A n \in Nodes : ListedPlace(n)

(* A step by others leaves a sync what it has listed.                      *)
LEMMA OthersKeepListed ==
  ASSUME HistoryInv, HistoryInv', [Next]_vars, ~shortened, NEW n \in Nodes, ListedPlace(n),
         pc'[n] = pc[n], copy'[n] = copy[n], source'[n] = source[n], bound'[n] = bound[n],
         listed'[n] = listed[n]
  PROVE  ListedPlace(n)'
<1>1. CASE pc[n] = "pages"
  <2>1. PICK w \in Writers, k \in 1..Subkeys : w = source[n] /\ k = bound[n]
    BY <1>1 DEF HistoryInv, TypeOK
  <2>2. latest[w] \in 1..Subkeys /\ latest'[w] \in 1..Subkeys
    BY DEF HistoryInv, TypeOK
  <2>3. k <= latest[w] /\ listed[n] \subseteq ToSet(Published(w, k))
    BY <1>1, <2>1 DEF ListedPlace
  <2>4. latest[w] <= latest'[w]
    BY PagesGrow
  <2>5. k \in 1..latest[w] /\ k \in 1..latest'[w] /\ k <= k /\ k <= latest'[w]
    BY <2>2, <2>3, <2>4, HistoryAssumption
  <2>6. listed'[n] \subseteq ToSet(Published(w, k)')
    BY <2>3, <2>5, PublishedGrows
  <2>7. source'[n] = w /\ bound'[n] = k /\ pc'[n] = "pages"
    BY <1>1, <2>1
  <2> QED BY <2>5, <2>6, <2>7 DEF ListedPlace
<1>2. CASE pc[n] # "pages"
  BY <1>2 DEF ListedPlace
<1> QED BY <1>1, <1>2

(* Reading the manifest lists what is published, all of it on pages up to  *)
(* the one it names.                                                       *)
LEMMA ReadManifestLists ==
  ASSUME HistoryInv, NEW n \in Nodes, NEW w \in Writers, ReadManifest(n, w)
  PROVE  ListedPlace(n)'
<1>1. /\ pc'[n] = "pages" /\ source'[n] = w /\ bound'[n] = latest[w] /\ listed'[n] = Stored(w)
      /\ pages' = pages /\ latest' = latest
  BY DEF ReadManifest, store, HistoryInv, TypeOK
<1>2. latest[w] <= latest[w]
  BY HistoryAssumption DEF HistoryInv, TypeOK
<1>3. Published(w, latest[w])' = Published(w, latest[w])
  BY <1>1 DEF Published
<1> QED BY <1>1, <1>2, <1>3 DEF ListedPlace, Stored

(* Reading the pages merges all that was listed into the copy.             *)
LEMMA ReadPagesHolds ==
  ASSUME HistoryInv, NEW n \in Nodes, ListedPlace(n), ReadPages(n)
  PROVE  ListedPlace(n)'
<1>1. /\ pc[n] = "pages" /\ pc'[n] = "replace" /\ listed'[n] = listed[n]
      /\ copy'[n] = Merge(copy[n], Published(source[n], bound[n]))
  BY DEF ReadPages, HistoryInv, TypeOK
<1>2. copy[n] \in Seq(Events) /\ Published(source[n], bound[n]) \in Seq(Events)
  BY <1>1, PagesRead DEF HistoryInv, TypeOK
<1>3. ToSet(Published(source[n], bound[n])) \subseteq ToSet(copy'[n])
  BY <1>1, <1>2, MergeHolds
<1>4. listed[n] \subseteq ToSet(Published(source[n], bound[n]))
  BY <1>1 DEF ListedPlace
<1> QED BY <1>1, <1>3, <1>4 DEF ListedPlace

(* An operation that ends, or starts, has listed nothing.                  *)
LEMMA NothingListed ==
  ASSUME NEW n \in Nodes, pc'[n] \in {"idle", "persist", "sync"}
  PROVE  ListedPlace(n)'
BY DEF ListedPlace

(* The one node whose operation a step moves, and the others.              *)
LEMMA ListedStep == HistoryInv /\ HistoryInv' /\ ListedInv /\ [Next]_vars => ListedInv'
<1> SUFFICES ASSUME HistoryInv, HistoryInv', ListedInv, [Next]_vars, ~shortened', NEW n \in Nodes
             PROVE  ListedPlace(n)'
  BY DEF ListedInv
<1>1. TypeOK /\ TypeOK' /\ Writers \subseteq Nodes
  BY HistoryAssumption DEF HistoryInv
<1>2. ~shortened
  <2>1. CASE \E m \in Nodes, restarted \in BOOLEAN : Reload(m, restarted)
    <3>1. shortened => shortened'
      BY <2>1, ZenonT(30) DEF Reload
    <3> QED BY <3>1
  <2>2. CASE UNCHANGED shortened
    BY <2>2
  <2> QED BY <2>1, <2>2 DEF Next, Deliver, RequestSync, Start, Persist, WritePage, PersistFails,
             ReadManifest, ReadPages, ReplaceRoom, SyncFails, vars, ghost
<1>3. ListedPlace(n)
  BY <1>2 DEF ListedInv
<1>4. ASSUME pc'[n] = pc[n], copy'[n] = copy[n], source'[n] = source[n], bound'[n] = bound[n],
             listed'[n] = listed[n]
      PROVE  ListedPlace(n)'
  BY <1>2, <1>3, <1>4, OthersKeepListed
<1>5. ASSUME UNCHANGED <<pc, copy, source, bound, listed>> PROVE ListedPlace(n)'
  BY <1>4, <1>5
<1>6. ASSUME NEW m \in Nodes, End(m) PROVE ListedPlace(n)'
  <2>1. CASE m = n
    <3>1. pc'[n] = "idle"
      BY <1>1, <1>6, <2>1 DEF End, TypeOK
    <3> QED BY <3>1, NothingListed
  <2>2. CASE m # n
    <3>1. /\ pc'[n] = pc[n] /\ copy'[n] = copy[n] /\ source'[n] = source[n]
          /\ bound'[n] = bound[n] /\ listed'[n] = listed[n]
      BY <1>1, <1>6, <2>2 DEF End, TypeOK
    <3> QED BY <1>4, <3>1
  <2> QED BY <2>1, <2>2
<1>7. ASSUME NEW m \in Nodes, Start(m) PROVE ListedPlace(n)'
  <2>1. CASE m = n
    <3>1. pc'[n] \in {"persist", "sync"}
      BY <1>1, <1>7, <2>1, QueuedTail DEF Start, TypeOK, Operation
    <3> QED BY <3>1, NothingListed
  <2>2. CASE m # n
    <3>1. /\ pc'[n] = pc[n] /\ copy'[n] = copy[n] /\ source'[n] = source[n]
          /\ bound'[n] = bound[n] /\ listed'[n] = listed[n]
      BY <1>1, <1>7, <2>2 DEF Start, TypeOK
    <3> QED BY <1>4, <3>1
  <2> QED BY <2>1, <2>2
<1>8. ASSUME NEW m \in Nodes, NEW w \in Writers, ReadManifest(m, w) PROVE ListedPlace(n)'
  <2>1. CASE m = n
    BY <1>8, <2>1, ReadManifestLists
  <2>2. CASE m # n
    <3>1. /\ pc'[n] = pc[n] /\ copy'[n] = copy[n] /\ source'[n] = source[n]
          /\ bound'[n] = bound[n] /\ listed'[n] = listed[n]
      BY <1>1, <1>8, <2>2 DEF ReadManifest, TypeOK
    <3> QED BY <1>4, <3>1
  <2> QED BY <2>1, <2>2
<1>9. ASSUME NEW m \in Nodes, ReadPages(m) PROVE ListedPlace(n)'
  <2>1. CASE m = n
    BY <1>3, <1>9, <2>1, ReadPagesHolds
  <2>2. CASE m # n
    <3>1. /\ pc'[n] = pc[n] /\ copy'[n] = copy[n] /\ source'[n] = source[n]
          /\ bound'[n] = bound[n] /\ listed'[n] = listed[n]
      BY <1>1, <1>9, <2>2 DEF ReadPages, TypeOK
    <3> QED BY <1>4, <3>1
  <2> QED BY <2>1, <2>2
<1>10. CASE \E m \in Nodes : (\E e \in Events : Deliver(m, e)) \/ RequestSync(m)
  BY <1>5, <1>10 DEF Deliver, RequestSync, thread
<1>11. CASE UNCHANGED vars
  BY <1>5, <1>11 DEF vars, thread
<1>12. CASE \/ \E m \in Nodes : \/ ReplaceRoom(m) \/ SyncFails(m)
                               \/ \E restarted \in BOOLEAN : Reload(m, restarted)
            \/ \E w \in Writers : Persist(w) \/ PersistFails(w)
  <2>1. \E m \in Nodes : End(m)
    BY <1>1, <1>12 DEF ReplaceRoom, SyncFails, Reload, Persist, PersistFails
  <2> QED BY <1>6, <2>1
<1> QED BY <1>7, <1>8, <1>9, <1>10, <1>11, <1>12 DEF Next

(* sync_from_record installs all that the source had published when it     *)
(* read the manifest, although persist_room may run there between its two  *)
(* requests, for any number of pages and participants.                     *)
THEOREM SyncAlwaysHoldsListed == Spec => []SyncHoldsListed
<1>1. Init => ListedInv
  BY DEF Init, ListedInv, ListedPlace
<1>2. ListedInv => SyncHoldsListed
  BY DEF ListedInv, ListedPlace, SyncHoldsListed
<1> QED BY <1>1, <1>2, ListedStep, HistoryInvariant, PTL DEF Spec
====
