---------------------------- MODULE Routing_proofs -----------------------------
(***************************************************************************)
(* The routing search, for every timetable and query.                      *)
(*                                                                         *)
(* Its memory: no label is used after its release.  Its completeness: the  *)
(* lower bounds are bounds, every journey is led along the edges of the    *)
(* graph, and what stands in the way of its labels leads to a result that  *)
(* is at least as good.  Its answer: filter_results leaves one as quick.   *)
(* Its soundness: a label stands for a place of a journey, or another one  *)
(* keeps it from becoming a result.                                        *)
(***************************************************************************)
EXTENDS RoutingInvariants, SequenceTheorems, FiniteSetTheorems, WellFoundedInduction, TLAPS

----------------------------------------------------------------------------
(* Sequences without repetitions                                           *)

LEMMA ToSetSeq ==
  ASSUME NEW S, NEW s \in Seq(S)
  PROVE  /\ ToSet(s) \subseteq S
         /\ ToSet(s) = {s[i] : i \in 1..Len(s)}
         /\ s \in Seq(ToSet(s))
BY SMT DEF ToSet

LEMMA ToSetEmpty == ToSet(<<>>) = {}
BY SMT DEF ToSet

LEMMA FunctionSeq ==
  ASSUME NEW n \in Nat, NEW S, NEW f \in [1..n -> S]
  PROVE  f \in Seq(S) /\ Len(f) = n
BY SMT

LEMMA AppendOnce ==
  ASSUME NEW S, NEW s \in Seq(S), NEW x, x \notin ToSet(s), IsInjective(s)
  PROVE  /\ ToSet(Append(s, x)) = ToSet(s) \cup {x}
         /\ IsInjective(Append(s, x))
         /\ Append(s, x) \in Seq(S \cup {x})
<1>1. s \in Seq(S \cup {x})
  BY SMT
<1>2. /\ Append(s, x) \in Seq(S \cup {x})
      /\ Len(Append(s, x)) = Len(s) + 1
      /\ \A i \in 1..Len(s) : Append(s, x)[i] = s[i]
      /\ Append(s, x)[Len(s) + 1] = x
  BY <1>1, AppendProperties
<1>3. DOMAIN Append(s, x) = 1..(Len(s) + 1) /\ DOMAIN s = 1..Len(s) /\ Len(s) \in Nat
  BY <1>1, <1>2, LenProperties
<1>4. ToSet(Append(s, x)) = ToSet(s) \cup {x}
  BY <1>2, <1>3 DEF ToSet
<1>5. IsInjective(Append(s, x))
  BY <1>2, <1>3 DEF IsInjective, ToSet
<1> QED
  BY <1>2, <1>4, <1>5

LEMMA ToSetConcat ==
  ASSUME NEW S, NEW s \in Seq(S), NEW t \in Seq(S)
  PROVE  s \o t \in Seq(S) /\ ToSet(s \o t) = ToSet(s) \cup ToSet(t)
<1>1. /\ s \o t \in Seq(S)
      /\ Len(s \o t) = Len(s) + Len(t)
      /\ \A i \in 1..Len(s) + Len(t) :
           (s \o t)[i] = IF i <= Len(s) THEN s[i] ELSE t[i - Len(s)]
  BY ConcatProperties
<1>2. /\ DOMAIN (s \o t) = 1..(Len(s) + Len(t)) /\ DOMAIN s = 1..Len(s)
      /\ DOMAIN t = 1..Len(t) /\ Len(s) \in Nat /\ Len(t) \in Nat
  BY <1>1, LenProperties
<1>3. ToSet(s \o t) \subseteq ToSet(s) \cup ToSet(t)
  <2> SUFFICES ASSUME NEW i \in 1..(Len(s) + Len(t)) PROVE (s \o t)[i] \in ToSet(s) \cup ToSet(t)
    BY <1>2 DEF ToSet
  <2>1. CASE i <= Len(s)
    BY <1>1, <1>2, <2>1 DEF ToSet
  <2>2. CASE ~(i <= Len(s))
    <3>1. i - Len(s) \in 1..Len(t) /\ (s \o t)[i] = t[i - Len(s)]
      BY <1>1, <1>2, <2>2
    <3> QED BY <1>2, <3>1 DEF ToSet
  <2> QED BY <2>1, <2>2
<1>4. ToSet(s) \subseteq ToSet(s \o t)
  <2> SUFFICES ASSUME NEW i \in 1..Len(s) PROVE s[i] \in ToSet(s \o t)
    BY <1>2 DEF ToSet
  <2>1. i \in 1..(Len(s) + Len(t)) /\ (s \o t)[i] = s[i]
    BY <1>1, <1>2
  <2> QED BY <1>2, <2>1 DEF ToSet
<1>5. ToSet(t) \subseteq ToSet(s \o t)
  <2> SUFFICES ASSUME NEW i \in 1..Len(t) PROVE t[i] \in ToSet(s \o t)
    BY <1>2 DEF ToSet
  <2>1. i + Len(s) \in 1..(Len(s) + Len(t)) /\ (s \o t)[i + Len(s)] = t[i]
    BY <1>1, <1>2
  <2> QED BY <2>1, <1>2 DEF ToSet
<1> QED BY <1>1, <1>3, <1>4, <1>5

LEMMA ConcatOnce ==
  ASSUME NEW S, NEW s \in Seq(S), NEW t \in Seq(S),
         IsInjective(s), IsInjective(t), ToSet(s) \cap ToSet(t) = {}
  PROVE  /\ ToSet(s \o t) = ToSet(s) \cup ToSet(t)
         /\ IsInjective(s \o t)
         /\ s \o t \in Seq(S)
<1>1. /\ s \o t \in Seq(S)
      /\ Len(s \o t) = Len(s) + Len(t)
      /\ \A i \in 1..Len(s) + Len(t) :
           (s \o t)[i] = IF i <= Len(s) THEN s[i] ELSE t[i - Len(s)]
  BY ConcatProperties
<1>2. /\ DOMAIN (s \o t) = 1..(Len(s) + Len(t)) /\ DOMAIN s = 1..Len(s)
      /\ DOMAIN t = 1..Len(t) /\ Len(s) \in Nat /\ Len(t) \in Nat
  BY <1>1, LenProperties
<1>3. ToSet(s \o t) = ToSet(s) \cup ToSet(t)
  BY ToSetConcat
<1>6. IsInjective(s \o t)
  <2> SUFFICES ASSUME NEW i \in 1..(Len(s) + Len(t)), NEW j \in 1..(Len(s) + Len(t)),
                      (s \o t)[i] = (s \o t)[j]
               PROVE  i = j
    BY <1>2 DEF IsInjective
  <2>1. CASE i <= Len(s) /\ j <= Len(s)
    BY <2>1, <1>1, <1>2 DEF IsInjective
  <2>2. CASE ~(i <= Len(s)) /\ ~(j <= Len(s))
    BY <2>2, <1>1, <1>2 DEF IsInjective
  <2>a. \A k \in 1..(Len(s) + Len(t)) :
          IF k <= Len(s) THEN (s \o t)[k] \in ToSet(s) ELSE (s \o t)[k] \in ToSet(t)
    <3> SUFFICES ASSUME NEW k \in 1..(Len(s) + Len(t))
                 PROVE  IF k <= Len(s) THEN (s \o t)[k] \in ToSet(s)
                                       ELSE (s \o t)[k] \in ToSet(t)
      OBVIOUS
    <3>1. CASE k <= Len(s)
      BY <3>1, <1>1, <1>2 DEF ToSet
    <3>2. CASE ~(k <= Len(s))
      <4>1. k - Len(s) \in 1..Len(t) /\ (s \o t)[k] = t[k - Len(s)]
        BY <3>2, <1>1, <1>2
      <4> QED
        BY <3>2, <4>1, <1>2 DEF ToSet
    <3> QED
      BY <3>1, <3>2
  <2>3. CASE i <= Len(s) /\ ~(j <= Len(s))
    BY <2>3, <2>a
  <2>4. CASE ~(i <= Len(s)) /\ j <= Len(s)
    BY <2>4, <2>a
  <2> QED
    BY <2>1, <2>2, <2>3, <2>4
<1> QED BY <1>1, <1>3, <1>6

LEMMA RemoveOnce ==
  ASSUME NEW S, NEW s \in Seq(S), IsInjective(s), NEW k \in DOMAIN s
  PROVE  /\ RemoveAt(s, k) \in Seq(S) /\ IsInjective(RemoveAt(s, k))
         /\ ToSet(RemoveAt(s, k)) = ToSet(s) \ {s[k]}
<1> DEFINE p == SubSeq(s, 1, k - 1)
           q == SubSeq(s, k + 1, Len(s))
<1>1. DOMAIN s = 1..Len(s) /\ Len(s) \in Nat /\ k \in 1..Len(s)
  BY LenProperties
<1>2. /\ p \in Seq(S) /\ Len(p) = k - 1
      /\ \A i \in 1..(k - 1) : p[i] = s[i]
  <2>1. 1 \in Int /\ k - 1 \in Int /\ \A i \in 1..(k - 1) : s[i] \in S
    BY <1>1, ElementOfSeq
  <2> QED
    BY <1>1, <2>1, SubSeqProperties
<1>3. /\ q \in Seq(S) /\ Len(q) = Len(s) - k
      /\ \A i \in 1..(Len(s) - k) : q[i] = s[i + k]
  <2>1. k + 1 \in Int /\ Len(s) \in Int /\ \A i \in (k + 1)..Len(s) : s[i] \in S
    BY <1>1, ElementOfSeq
  <2>2. /\ q \in Seq(S)
        /\ Len(q) = IF k + 1 <= Len(s) THEN Len(s) - (k + 1) + 1 ELSE 0
        /\ \A i \in 1..(Len(s) - (k + 1) + 1) : q[i] = s[(k + 1) + i - 1]
    BY <2>1, SubSeqProperties
  <2>3. \A i \in 1..(Len(s) - k) : (k + 1) + i - 1 = i + k
    BY <1>1
  <2> QED
    BY <1>1, <2>2, <2>3
<1>9. RemoveAt(s, k) = p \o q
  BY DEF RemoveAt
<1> HIDE DEF p, q
<1>4. ToSet(p) = {s[i] : i \in 1..(k - 1)}
  BY <1>1, <1>2, LenProperties DEF ToSet
<1>5. ToSet(q) = {s[i] : i \in (k + 1)..Len(s)}
  <2>1. ToSet(q) = {s[i + k] : i \in 1..(Len(s) - k)}
    BY <1>1, <1>3, LenProperties DEF ToSet
  <2>2. \A i \in (k + 1)..Len(s) : i - k \in 1..(Len(s) - k) /\ s[(i - k) + k] = s[i]
    BY <1>1
  <2>3. \A i \in 1..(Len(s) - k) : i + k \in (k + 1)..Len(s)
    BY <1>1
  <2> QED
    BY <2>1, <2>2, <2>3
<1>8. \A i, j \in 1..Len(s) : i # j => s[i] # s[j]
  BY <1>1 DEF IsInjective
<1>6. IsInjective(p)
  BY <1>1, <1>2, LenProperties DEF IsInjective
<1>7. IsInjective(q)
  <2>1. DOMAIN q = 1..(Len(s) - k)
    BY <1>3, LenProperties
  <2> SUFFICES ASSUME NEW a \in 1..(Len(s) - k), NEW b \in 1..(Len(s) - k), q[a] = q[b]
               PROVE  a = b
    BY <2>1 DEF IsInjective
  <2>2. a + k \in 1..Len(s) /\ b + k \in 1..Len(s)
    BY <1>1
  <2>4. q[a] = s[a + k] /\ q[b] = s[b + k]
    BY <1>3
  <2>3. a + k = b + k
    BY <1>8, <2>2, <2>4, Zenon
  <2> QED
    BY <1>1, <2>3
<1>10. ToSet(p) \cap ToSet(q) = {}
  BY <1>1, <1>4, <1>5, <1>8
<1>11. ToSet(s) = {s[i] : i \in 1..Len(s)}
  BY <1>1 DEF ToSet
<1>12. ToSet(p) \cup ToSet(q) = ToSet(s) \ {s[k]}
  <2>1. \A i \in 1..Len(s) : i # k => i \in 1..(k - 1) \/ i \in (k + 1)..Len(s)
    BY <1>1
  <2>2. (1..(k - 1)) \cup ((k + 1)..Len(s)) \subseteq (1..Len(s)) \ {k}
    BY <1>1
  <2>3. ToSet(p) \cup ToSet(q) \subseteq ToSet(s) \ {s[k]}
    BY <1>1, <1>4, <1>5, <1>8, <1>11, <2>2
  <2>4. ToSet(s) \ {s[k]} \subseteq ToSet(p) \cup ToSet(q)
    BY <1>1, <1>4, <1>5, <1>11, <2>1
  <2> QED
    BY <2>3, <2>4
<1> QED
  BY <1>2, <1>3, <1>6, <1>7, <1>9, <1>10, <1>12, ConcatOnce

LEMMA FrontOnce ==
  ASSUME NEW S, NEW s \in Seq(S), IsInjective(s), s # <<>>
  PROVE  /\ Front(s) \in Seq(S) /\ IsInjective(Front(s))
         /\ ToSet(Front(s)) = ToSet(s) \ {Last(s)}
         /\ Last(s) \in ToSet(s)
<1>1. DOMAIN s = 1..Len(s) /\ Len(s) \in Nat /\ Len(s) # 0
  BY LenProperties, EmptySeq
<1>2. /\ Front(s) \in Seq(S) /\ Len(Front(s)) = Len(s) - 1
      /\ \A i \in 1..(Len(s) - 1) : Front(s)[i] = s[i]
  <2>1. 1 \in Int /\ Len(s) - 1 \in Int /\ \A i \in 1..(Len(s) - 1) : s[i] \in S
    BY <1>1, ElementOfSeq
  <2> QED
    BY <1>1, <2>1, SubSeqProperties DEF Front
<1>3. ToSet(Front(s)) = {s[i] : i \in 1..(Len(s) - 1)}
  BY <1>1, <1>2, LenProperties DEF ToSet
<1> QED
  <2>1. IsInjective(Front(s))
    BY <1>1, <1>2, LenProperties DEF IsInjective
  <2>2. Last(s) = s[Len(s)] /\ Len(s) \in 1..Len(s)
    BY <1>1 DEF Last
  <2>3. ToSet(s) = {s[i] : i \in 1..(Len(s) - 1)} \cup {s[Len(s)]}
    BY <1>1 DEF ToSet
  <2>4. \A i \in 1..(Len(s) - 1) : s[i] # s[Len(s)]
    BY <1>1 DEF IsInjective
  <2> QED
    BY <1>2, <1>3, <2>1, <2>2, <2>3, <2>4

LEMMA TailOnce ==
  ASSUME NEW S, NEW s \in Seq(S), IsInjective(s), s # <<>>
  PROVE  /\ Tail(s) \in Seq(S) /\ IsInjective(Tail(s))
         /\ ToSet(Tail(s)) = ToSet(s) \ {Head(s)}
         /\ Head(s) \in ToSet(s)
<1>1. DOMAIN s = 1..Len(s) /\ Len(s) \in Nat /\ Len(s) # 0
  BY LenProperties, EmptySeq
<1>2. /\ Tail(s) \in Seq(S) /\ Len(Tail(s)) = Len(s) - 1 /\ Head(s) = s[1]
      /\ \A i \in 1..(Len(s) - 1) : Tail(s)[i] = s[i + 1]
  BY <1>1, HeadTailProperties
<1>3. ToSet(Tail(s)) = {s[i] : i \in 2..Len(s)}
  <2>1. ToSet(Tail(s)) = {s[i + 1] : i \in 1..(Len(s) - 1)}
    BY <1>1, <1>2, LenProperties DEF ToSet
  <2>2. \A i \in 2..Len(s) : i - 1 \in 1..(Len(s) - 1) /\ s[(i - 1) + 1] = s[i]
    BY <1>1
  <2> QED
    BY <1>1, <2>1, <2>2
<1>4. IsInjective(Tail(s))
  BY <1>1, <1>2, LenProperties DEF IsInjective
<1>5. ToSet(s) = {s[i] : i \in 2..Len(s)} \cup {s[1]}
  BY <1>1 DEF ToSet
<1>6. \A i \in 2..Len(s) : s[i] # s[1]
  BY <1>1 DEF IsInjective
<1> QED
  BY <1>2, <1>3, <1>4, <1>5, <1>6
----------------------------------------------------------------------------
(* The allocator                                                           *)

LEMMA MemoryFree ==
  ASSUME NEW m, Memory(m)
  PROVE  Len(m.label) \in Nat /\ ToSet(m.free) \subseteq 1..Len(m.label)
<1>1. PICK S : m.label \in Seq(S)
  BY DEF Memory
<1>2. m.free \in Seq(1..Len(m.label))
  BY DEF Memory
<1> QED
  BY <1>1, <1>2, LenProperties, ToSetSeq

(* An address that is created was free, or is a new one; no other label    *)
(* changes.                                                                *)
LEMMA CreateMemory ==
  ASSUME NEW m, Memory(m), NEW l, IsLabel(l)
  PROVE  LET n == NextAddress(m)
             c == Create(m, l)
         IN /\ Memory(c)
            /\ Len(m.label) \in Nat /\ Len(c.label) \in Nat
            /\ 1..Len(c.label) = 1..Len(m.label) \cup {n}
            /\ ToSet(c.free) = ToSet(m.free) \ {n}
            /\ ToSet(m.free) \subseteq 1..Len(m.label)
            /\ n \in ToSet(m.free) \/ n \notin 1..Len(m.label)
            /\ c.label[n] = l
            /\ \A a \in 1..Len(m.label) : a # n => c.label[a] = m.label[a]
<1> DEFINE n == NextAddress(m)
           c == Create(m, l)
<1>1. PICK S : m.label \in Seq(S)
  BY DEF Memory
<1>2. /\ DOMAIN m.label = 1..Len(m.label) /\ Len(m.label) \in Nat
      /\ m.free \in Seq(1..Len(m.label)) /\ IsInjective(m.free)
      /\ \A a \in 1..Len(m.label) : IsLabel(m.label[a])
  BY <1>1, LenProperties DEF Memory
<1>3. ToSet(m.free) \subseteq 1..Len(m.label)
  BY <1>2, ToSetSeq
<1>4. CASE m.free # <<>>
  <2>1. n = Head(m.free) /\ c = [label |-> [m.label EXCEPT ![n] = l], free |-> Tail(m.free)]
    BY <1>4 DEF NextAddress, Create
  <2>2. /\ Tail(m.free) \in Seq(1..Len(m.label)) /\ IsInjective(Tail(m.free))
        /\ ToSet(Tail(m.free)) = ToSet(m.free) \ {n} /\ n \in ToSet(m.free)
    BY <1>2, <1>4, <2>1, TailOnce
  <2>3. n \in 1..Len(m.label)
    BY <1>3, <2>2
  <2>4. m.label \in Seq(S \cup {l})
    BY <1>1, SeqMonotonic
  <2>5. /\ c.label \in Seq(S \cup {l}) /\ Len(c.label) = Len(m.label)
        /\ \A a \in 1..Len(m.label) : c.label[a] = IF a = n THEN l ELSE m.label[a]
    BY <2>1, <2>3, <2>4, ExceptSeq
  <2>6. c = [label |-> c.label, free |-> c.free] /\ c.free = Tail(m.free)
    BY <2>1
  <2>7. Memory(c)
    BY <1>2, <2>2, <2>5, <2>6 DEF Memory
  <2> QED
    BY <1>2, <1>3, <2>2, <2>3, <2>5, <2>6, <2>7
<1>5. CASE m.free = <<>>
  <2>1. n = Len(m.label) + 1 /\ c = [label |-> Append(m.label, l), free |-> <<>>]
    BY <1>5 DEF NextAddress, Create
  <2>2. m.label \in Seq(S \cup {l})
    BY <1>1, SeqMonotonic
  <2>3. /\ c.label \in Seq(S \cup {l}) /\ Len(c.label) = Len(m.label) + 1
        /\ \A a \in 1..Len(m.label) : c.label[a] = m.label[a]
        /\ c.label[n] = l
    BY <2>1, <2>2, AppendProperties
  <2>4. c = [label |-> c.label, free |-> c.free] /\ c.free = <<>>
    BY <2>1
  <2>5. ToSet(c.free) = {} /\ ToSet(m.free) = {}
    BY <2>4, <1>5, ToSetEmpty
  <2>6. 1..Len(c.label) = 1..Len(m.label) \cup {n} /\ n \notin 1..Len(m.label)
    BY <1>2, <2>1, <2>3
  <2>7. c.free \in Seq(1..Len(c.label)) /\ IsInjective(c.free)
    BY <2>4, EmptySeq DEF IsInjective
  <2>8. \A a \in 1..Len(c.label) : IsLabel(c.label[a])
    BY <1>2, <2>3, <2>6
  <2>9. Memory(c)
    BY <2>3, <2>4, <2>7, <2>8 DEF Memory
  <2> QED
    BY <1>2, <1>3, <2>3, <2>5, <2>6, <2>9
<1> QED
  BY <1>4, <1>5

(* What was not free and is released once is free once.                    *)
LEMMA ReleaseMemory ==
  ASSUME NEW m, Memory(m), NEW order \in Seq(1..Len(m.label)), IsInjective(order),
         ToSet(order) \cap ToSet(m.free) = {}
  PROVE  /\ Memory(Release(m, order))
         /\ Release(m, order).label = m.label
         /\ ToSet(Release(m, order).free) = ToSet(order) \cup ToSet(m.free)
<1>1. m = [label |-> m.label, free |-> m.free] /\ m.free \in Seq(1..Len(m.label))
      /\ IsInjective(m.free)
  BY DEF Memory
<1>2. Release(m, order) = [label |-> m.label, free |-> order \o m.free]
  <2> DEFINE f == order \o m.free
  <2>1. Release(m, order) = [m EXCEPT !.free = f]
    BY DEF Release
  <2> HIDE DEF f
  <2>2. [m EXCEPT !.free = f] = [label |-> m.label, free |-> f]
    BY <1>1
  <2> QED
    BY <2>1, <2>2 DEF f
<1>3. /\ ToSet(order \o m.free) = ToSet(order) \cup ToSet(m.free)
      /\ IsInjective(order \o m.free)
      /\ order \o m.free \in Seq(1..Len(m.label))
  BY <1>1, ConcatOnce
<1> QED
  BY <1>2, <1>3 DEF Memory

(* Marking labels changes nothing but their mark.                          *)
LEMMA MarkMemory ==
  ASSUME NEW m, Memory(m), NEW T
  PROVE  LET k == Mark(m, T)
         IN /\ Memory(k) /\ k.free = m.free /\ Len(k.label) = Len(m.label)
            /\ \A a \in 1..Len(m.label) :
                 /\ k.label[a].pred = m.label[a].pred
                 /\ a \notin T => k.label[a] = m.label[a]
<1> DEFINE e(a) == IF a \in T THEN [m.label[a] EXCEPT !.dominated = TRUE] ELSE m.label[a]
           f == [a \in DOMAIN m.label |-> e(a)]
           k == Mark(m, T)
<1>1. PICK S : m.label \in Seq(S)
  BY DEF Memory
<1>2. DOMAIN m.label = 1..Len(m.label) /\ Len(m.label) \in Nat
  BY <1>1, LenProperties
<1>3. k = [label |-> f, free |-> m.free]
  <2>1. m = [label |-> m.label, free |-> m.free]
    BY DEF Memory
  <2>2. k = [m EXCEPT !.label = f]
    BY DEF Mark
  <2> QED
    BY <2>1, <2>2
<1>4. f \in Seq({e(a) : a \in 1..Len(m.label)}) /\ Len(f) = Len(m.label)
  <2>1. f \in [1..Len(m.label) -> {e(a) : a \in 1..Len(m.label)}]
    BY <1>2
  <2> HIDE DEF f, e
  <2> QED
    BY <1>2, <2>1, FunctionSeq
<1>5. \A a \in 1..Len(m.label) : IsLabel(e(a)) /\ e(a).pred = m.label[a].pred
  <2> SUFFICES ASSUME NEW a \in 1..Len(m.label)
               PROVE  IsLabel(e(a)) /\ e(a).pred = m.label[a].pred
    OBVIOUS
  <2>1. IsLabel(m.label[a])
    BY DEF Memory
  <2> QED
    BY <2>1 DEF IsLabel
<1>6. \A a \in 1..Len(m.label) : f[a] = e(a)
  BY <1>2
<1> HIDE DEF e, f, k
<1>7. k.label = f /\ k.free = m.free /\ k = [label |-> k.label, free |-> k.free]
  BY <1>3
<1>8. Memory(k)
  <2>1. m.free \in Seq(1..Len(m.label)) /\ IsInjective(m.free)
    BY DEF Memory
  <2> QED
    BY <1>4, <1>5, <1>6, <1>7, <2>1 DEF Memory
<1>9. \A a \in 1..Len(m.label) : a \notin T => e(a) = m.label[a]
  BY DEF e
<1> QED
  BY <1>4, <1>5, <1>6, <1>7, <1>8, <1>9 DEF k
----------------------------------------------------------------------------
(* Labels in use                                                           *)

LEMMA AliveCreate ==
  ASSUME NEW m, NEW w, NEW r, NEW k, NEW t, Alive(m, w, r, k, t),
         NEW l, IsLabel(l), l.pred \in 1..Len(m.label) \cup {NoAddress},
         l.pred \notin ToSet(m.free) \cup w \cup r
  PROVE  LET n == NextAddress(m)
             c == Create(m, l)
         IN /\ Alive(c, w, r, k, t) /\ Unused(n, c, w, r, k, t) /\ c.label[n] = l
            /\ 1..Len(m.label) \subseteq 1..Len(c.label) /\ n # NoAddress
            /\ \A a \in 1..Len(m.label) \ ToSet(m.free) : c.label[a] = m.label[a]
<1> DEFINE n == NextAddress(m)
           c == Create(m, l)
<1>1. Memory(m)
  BY DEF Alive
<1>2. /\ Memory(c)
      /\ Len(m.label) \in Nat /\ Len(c.label) \in Nat
      /\ 1..Len(c.label) = 1..Len(m.label) \cup {n}
      /\ ToSet(c.free) = ToSet(m.free) \ {n}
      /\ ToSet(m.free) \subseteq 1..Len(m.label)
      /\ n \in ToSet(m.free) \/ n \notin 1..Len(m.label)
      /\ c.label[n] = l
      /\ \A a \in 1..Len(m.label) : a # n => c.label[a] = m.label[a]
  BY <1>1, CreateMemory
<1> HIDE DEF n, c
<1>3. n # NoAddress
  BY <1>2 DEF NoAddress
<1>4. 1..Len(c.label) \ ToSet(c.free) = (1..Len(m.label) \ ToSet(m.free)) \cup {n}
  BY <1>2
<1>5. l.pred # n
  BY <1>2, <1>3
<1>6. \A a \in 1..Len(m.label) \ ToSet(m.free) :
        c.label[a] = m.label[a] /\ a # n /\ m.label[a].pred # n
  BY <1>2, <1>3 DEF Alive
<1>7. Alive(c, w, r, k, t)
  BY <1>2, <1>3, <1>4, <1>5, <1>6 DEF Alive
<1>8. Unused(n, c, w, r, k, t)
  BY <1>2, <1>3, <1>4, <1>5, <1>6 DEF Alive, Unused
<1> QED
  BY <1>2, <1>3, <1>6, <1>7, <1>8 DEF n, c

LEMMA AliveQueued ==
  ASSUME NEW m, NEW w, NEW r, NEW k, NEW t, Alive(m, w, r, k, t),
         NEW n, Unused(n, m, w, r, k, t), ~m.label[n].dominated
  PROVE  Alive(m, w \cup {n}, r, k \cup {n}, t)
BY DEF Alive, Unused

LEMMA AliveResult ==
  ASSUME NEW m, NEW w, NEW r, NEW k, NEW t, Alive(m, w, r, k, t),
         NEW n, Unused(n, m, w, r, k, t)
  PROVE  Alive(m, w, r \cup {n}, k, t)
BY DEF Alive, Unused

LEMMA AliveReleased ==
  ASSUME NEW m, NEW w, NEW r, NEW k, NEW t, Alive(m, w, r, k, t),
         NEW order \in Seq(1..Len(m.label)), IsInjective(order),
         \A n \in ToSet(order) : Unused(n, m, w, r, k, t)
  PROVE  Alive(Release(m, order), w, r, k, t)
<1>1. Memory(m) /\ ToSet(order) \cap ToSet(m.free) = {}
  BY DEF Alive, Unused
<1>2. /\ Memory(Release(m, order))
      /\ Release(m, order).label = m.label
      /\ ToSet(Release(m, order).free) = ToSet(order) \cup ToSet(m.free)
  BY <1>1, ReleaseMemory
<1>3. \A n \in ToSet(order) :
        /\ n \notin w /\ n \notin r /\ n \notin k /\ n # t
        /\ \A a \in 1..Len(m.label) \ ToSet(m.free) : m.label[a].pred # n
  BY DEF Unused
<1> QED
  BY <1>2, <1>3 DEF Alive

LEMMA AliveReleasedOne ==
  ASSUME NEW m, NEW w, NEW r, NEW k, NEW t, Alive(m, w, r, k, t),
         NEW n, Unused(n, m, w, r, k, t)
  PROVE  Alive(Release(m, <<n>>), w, r, k, t)
<1> DEFINE order == <<n>>
<1>1. order \in Seq(1..Len(m.label)) /\ IsInjective(order) /\ ToSet(order) = {n}
  BY DEF IsInjective, ToSet, Unused
<1> HIDE DEF order
<1>2. Alive(Release(m, order), w, r, k, t)
  BY <1>1, AliveReleased
<1> QED
  BY <1>2 DEF order

(* A label that is popped is unused afterwards, unless it is still kept.   *)
LEMMA AlivePopped ==
  ASSUME NEW m, NEW w, NEW r, NEW k, NEW t, Alive(m, w, r, k, t), NEW a \in w
  PROVE  /\ Alive(m, w \ {a}, r, k, t)
         /\ Alive(m, w \ {a}, r, k, a) /\ a # NoAddress
         /\ m.label[a].dominated => Unused(a, m, w \ {a}, r, k, t)
<1>1. a \in 1..Len(m.label) /\ a # NoAddress
  BY DEF Alive, NoAddress
<1> QED
  BY <1>1 DEF Alive, Unused

LEMMA AliveWithoutResults ==
  ASSUME NEW m, NEW w, NEW r, NEW k, NEW t, Alive(m, w, r, k, t), NEW gone \in SUBSET r
  PROVE  /\ Alive(m, w, r \ gone, k, t)
         /\ \A a \in gone : Unused(a, m, w, r \ gone, k, t)
BY DEF Alive, Unused

LEMMA AliveMarked ==
  ASSUME NEW m, NEW w, NEW r, NEW k, NEW t, Alive(m, w, r, k, t), NEW gone \in SUBSET k
  PROVE  /\ Alive(Mark(m, gone), w, r, k \ gone, t)
         /\ \A n \in 1..Len(m.label) :
              Unused(n, m, w, r, k, t) => Unused(n, Mark(m, gone), w, r, k \ gone, t)
<1> DEFINE c == Mark(m, gone)
<1>1. Memory(m)
  BY DEF Alive
<1>2. /\ Memory(c) /\ c.free = m.free /\ Len(c.label) = Len(m.label)
      /\ \A a \in 1..Len(m.label) :
           /\ c.label[a].pred = m.label[a].pred
           /\ a \notin gone => c.label[a] = m.label[a]
  BY <1>1, MarkMemory
<1> HIDE DEF c
<1>3. Alive(c, w, r, k \ gone, t)
  BY <1>2 DEF Alive
<1>4. ASSUME NEW n \in 1..Len(m.label), Unused(n, m, w, r, k, t)
      PROVE  Unused(n, c, w, r, k \ gone, t)
  BY <1>2, <1>4 DEF Unused
<1> QED
  BY <1>2, <1>3, <1>4 DEF c
----------------------------------------------------------------------------
(* The steps                                                               *)

LEMMA NewLabelIsLabel ==
  ASSUME NEW a, NEW e
  PROVE  IsLabel(Along(a, e)) /\ Along(a, e).pred = a /\ ~Along(a, e).dominated
BY DEF Along, Label, IsLabel

LEMMA InitIInv == Init => IInv
<1> SUFFICES ASSUME Init PROVE IInv
  OBVIOUS
<1>1. mem.label = <<>> /\ mem.free = <<>> /\ mem = [label |-> mem.label, free |-> mem.free]
  BY DEF Init
<1>2. Len(mem.label) = 0 /\ 1..Len(mem.label) = {} /\ mem.label \in Seq({}) /\ ToSet(mem.free) = {}
  BY <1>1, ToSetEmpty
<1>3. /\ IsInjective(<<>>) /\ \A S : <<>> \in Seq(S)
  BY DEF IsInjective
<1>4. Memory(mem)
  BY <1>1, <1>2, <1>3 DEF Memory
<1>5. ToSet(queue) = {} /\ ToSet(equals) = {} /\ queue = <<>> /\ equals = <<>> /\ todo = <<>>
      /\ at = NoAddress /\ results = {} /\ kept = {}
  BY ToSetEmpty DEF Init
<1>6. Alive(mem, Queued, results, kept, at)
  BY <1>2, <1>4, <1>5 DEF Alive, Queued
<1> QED
  BY <1>3, <1>5, <1>6 DEF IInv

LEMMA AddStartIInv == IInv /\ AddStart => IInv'
<1> SUFFICES ASSUME IInv, AddStart PROVE IInv'
  OBVIOUS
<1> DEFINE s == Head(starts)
           fromStation == query.kind = "pretrip"
           first == Label(NoAddress, IF fromStation THEN StationNode(query.from) ELSE s.node,
                          None, s.time, s.time, 0)
           m == IF fromStation THEN Create(mem, first) ELSE mem
           l == IF fromStation THEN [first EXCEPT !.pred = NextAddress(mem), !.node = s.node]
                ELSE first
           a == NextAddress(m)
<1>1. /\ mem' = Create(m, l)
      /\ IF Filtered(l) THEN UNCHANGED <<queue, kept>>
         ELSE queue' = Append(queue, a) /\ kept' = kept \cup {a}
      /\ UNCHANGED <<equals, at, todo, results>>
  BY DEF AddStart
<1>2. IsLabel(first) /\ first.pred = NoAddress
  BY DEF IsLabel, Label
<1>3. NoAddress \notin 1..Len(mem.label)
  BY DEF NoAddress
<1>4. Alive(mem, Queued, results, kept, at) /\ ToSet(mem.free) \subseteq 1..Len(mem.label)
  BY MemoryFree DEF IInv, Alive
<1>5. first.pred \notin ToSet(mem.free) \cup Queued \cup results
  BY <1>2, <1>3, <1>4 DEF Alive
<1>6. /\ Alive(m, Queued, results, kept, at) /\ 1..Len(mem.label) \subseteq 1..Len(m.label)
      /\ IsLabel(l) /\ ~l.dominated
      /\ l.pred \in 1..Len(m.label) \cup {NoAddress}
      /\ l.pred \notin ToSet(m.free) \cup Queued \cup results
  <2>1. CASE fromStation
    <3>1. /\ Alive(m, Queued, results, kept, at)
          /\ Unused(NextAddress(mem), m, Queued, results, kept, at)
          /\ 1..Len(mem.label) \subseteq 1..Len(m.label)
      BY <1>2, <1>4, <1>5, <2>1, AliveCreate
    <3>2. l = Label(NextAddress(mem), s.node, None, s.time, s.time, 0)
      BY <2>1 DEF Label
    <3>3. IsLabel(l) /\ l.pred = NextAddress(mem) /\ ~l.dominated
      BY <3>2 DEF IsLabel, Label
    <3> QED
      BY <3>1, <3>3 DEF Unused
  <2>2. CASE ~fromStation
    <3>1. m = mem /\ l = first
      BY <2>2
    <3>2. ~first.dominated
      BY DEF Label
    <3> QED
      BY <1>2, <1>4, <1>5, <3>1, <3>2
  <2> QED
    BY <2>1, <2>2
<1> HIDE DEF m, l, a
<1>7. /\ Alive(mem', Queued, results, kept, at) /\ Unused(a, mem', Queued, results, kept, at)
      /\ mem'.label[a] = l /\ 1..Len(mem.label) \subseteq 1..Len(mem'.label)
  BY <1>1, <1>6, AliveCreate DEF a
<1>8. queue \in Seq(Address') /\ equals \in Seq(Address')
  <2>1. queue \in Seq(Address) /\ equals \in Seq(Address) /\ Address \subseteq Address'
    BY <1>7 DEF IInv, Address
  <2> QED
    BY <2>1, SeqMonotonic
<1>9. CASE Filtered(l)
  BY <1>1, <1>7, <1>8, <1>9 DEF IInv, Queued
<1>10. CASE ~Filtered(l)
  <2>1. Alive(mem', Queued \cup {a}, results, kept \cup {a}, at)
    BY <1>6, <1>7, AliveQueued
  <2>2. a \notin Queued /\ a \in Address'
    BY <1>7 DEF Unused, Address
  <2>3. /\ queue' = Append(queue, a) /\ IsInjective(queue') /\ queue' \in Seq(Address')
        /\ ToSet(queue') = ToSet(queue) \cup {a}
    <3>1. Address' \cup {a} = Address'
      BY <2>2
    <3>2. queue' = Append(queue, a)
      BY <1>1, <1>10
    <3>3. IsInjective(queue) /\ a \notin ToSet(queue)
      BY <2>2 DEF IInv, Queued
    <3> QED
      BY <1>8, <3>1, <3>2, <3>3, AppendOnce
  <2>4. Queued' = Queued \cup {a}
    BY <1>1, <2>3 DEF Queued
  <2> QED
    BY <1>1, <1>8, <1>10, <2>1, <2>2, <2>3, <2>4 DEF IInv, Queued
<1> QED
  BY <1>9, <1>10

LEMMA PopIInv == IInv /\ Pop => IInv'
<1> SUFFICES ASSUME IInv, Pop PROVE IInv'
  OBVIOUS
<1>1. PICK a \in Queued :
        /\ Taken(a)
        /\ IF mem.label[a].dominated
           THEN mem' = Release(mem, <<a>>) /\ UNCHANGED <<at, todo>>
           ELSE /\ mem' = mem
                /\ \/ UNCHANGED <<at, todo>>
                   \/ at' = a
  BY DEF Pop, Queued
<1>2. UNCHANGED <<kept, results>> /\ todo = <<>>
  BY DEF Pop
<1>3. /\ queue' \in Seq(Address) /\ equals' \in Seq(Address)
      /\ IsInjective(queue') /\ IsInjective(equals') /\ ToSet(queue') \cap ToSet(equals') = {}
      /\ Queued' = Queued \ {a}
  <2>1. CASE equals # <<>> /\ a = Last(equals) /\ equals' = Front(equals) /\ queue' = queue
    <3>1. /\ equals' \in Seq(Address) /\ IsInjective(equals')
          /\ ToSet(equals') = ToSet(equals) \ {a} /\ a \in ToSet(equals)
      BY <2>1, FrontOnce DEF IInv
    <3> QED
      BY <2>1, <3>1 DEF IInv, Queued
  <2>2. CASE \E k \in DOMAIN queue : a = queue[k] /\ queue' = RemoveAt(queue, k) /\ equals' = equals
    <3>1. PICK k \in DOMAIN queue : a = queue[k] /\ queue' = RemoveAt(queue, k) /\ equals' = equals
      BY <2>2
    <3>2. /\ queue' \in Seq(Address) /\ IsInjective(queue')
          /\ ToSet(queue') = ToSet(queue) \ {a}
      BY <3>1, RemoveOnce DEF IInv
    <3>3. a \in ToSet(queue)
      BY <3>1 DEF ToSet
    <3> QED
      BY <3>1, <3>2, <3>3 DEF IInv, Queued
  <2> QED
    BY <1>1, <2>1, <2>2 DEF Taken
<1>4. /\ Alive(mem, Queued', results, kept, at)
      /\ Alive(mem, Queued', results, kept, a) /\ a # NoAddress
      /\ mem.label[a].dominated => Unused(a, mem, Queued', results, kept, at)
  BY <1>1, <1>3, AlivePopped DEF IInv
<1>5. CASE mem.label[a].dominated
  <2>1. Alive(mem', Queued', results, kept, at)
    BY <1>1, <1>4, <1>5, AliveReleasedOne
  <2>2. mem'.label = mem.label
    BY <1>1, <1>5 DEF Release, IInv, Alive, Memory
  <2> QED
    BY <1>1, <1>2, <1>3, <1>5, <2>1, <2>2 DEF IInv, Address
<1>6. CASE ~mem.label[a].dominated
  BY <1>1, <1>2, <1>3, <1>4, <1>6 DEF IInv, Address
<1> QED
  BY <1>5, <1>6

(* What create_new_label may assume and finds when it has a label.         *)
LEMMA CreatedIInv ==
  ASSUME IInv, Relaxing
  PROVE  LET c == Create(mem, NewLabel)
             n == NewAddress
         IN /\ Alive(c, Queued, results, kept, at) /\ Unused(n, c, Queued, results, kept, at)
            /\ ~c.label[n].dominated /\ 1..Len(mem.label) \subseteq 1..Len(c.label)
            /\ at # NoAddress
<1>1. at # NoAddress
  BY DEF IInv, Relaxing
<1>2. IsLabel(NewLabel) /\ NewLabel.pred = at /\ ~NewLabel.dominated
  BY NewLabelIsLabel DEF NewLabel
<1>3. NewLabel.pred \in 1..Len(mem.label) \cup {NoAddress}
      /\ NewLabel.pred \notin ToSet(mem.free) \cup Queued \cup results
  BY <1>2 DEF IInv, Alive
<1> QED
  BY <1>1, <1>2, <1>3, AliveCreate DEF IInv, NewAddress

LEMMA LongerMemory ==
  ASSUME IInv, 1..Len(mem.label) \subseteq 1..Len(mem'.label)
  PROVE  queue \in Seq(Address') /\ equals \in Seq(Address')
<1>1. queue \in Seq(Address) /\ equals \in Seq(Address) /\ Address \subseteq Address'
  BY DEF IInv, Address
<1> QED
  BY <1>1, SeqMonotonic

LEMMA AddResultIInv == IInv /\ AddResult => IInv'
<1> SUFFICES ASSUME IInv, AddResult PROVE IInv'
  OBVIOUS
<1> DEFINE c == Create(mem, NewLabel)
           n == NewAddress
<1>1. PICK gone \in SUBSET results :
        /\ \E order \in SetToSeqs(gone) : mem' = Release(c, order)
        /\ \/ results' = results \ gone
           \/ results' = (results \ gone) \cup {n}
  <2>1. Dominated(results) \subseteq results
    BY DEF Dominated
  <2> QED
    BY <2>1 DEF AddResult
<1>2. PICK order \in SetToSeqs(gone) : mem' = Release(c, order)
  BY <1>1
<1>3. UNCHANGED <<kept, queue, equals, at>>
  BY DEF AddResult, Relaxing
<1>4. /\ Alive(c, Queued, results, kept, at) /\ Unused(n, c, Queued, results, kept, at)
      /\ 1..Len(mem.label) \subseteq 1..Len(c.label) /\ at # NoAddress
  BY CreatedIInv DEF AddResult
<1> HIDE DEF c, n
<1>5. order \in Seq(1..Len(c.label)) /\ IsInjective(order) /\ ToSet(order) \subseteq gone
  <2>1. IsFiniteSet(gone) /\ gone \subseteq 1..Len(c.label)
    <3>1. Len(c.label) \in Nat
      BY <1>4, MemoryFree DEF Alive
    <3>2. IsFiniteSet(1..Len(c.label))
      BY <3>1, FS_Interval
    <3>3. gone \subseteq 1..Len(c.label)
      BY <1>4 DEF Alive
    <3> QED
      BY <3>2, <3>3, FS_Subset
  <2>2. Cardinality(gone) \in Nat
    BY <2>1, FS_CardinalityType
  <2>3. /\ order \in [1..Cardinality(gone) -> gone]
        /\ \A i, j \in 1..Cardinality(gone) : i # j => order[i] # order[j]
    BY <1>2 DEF SetToSeqs
  <2>4. order \in Seq(gone)
    BY <2>2, <2>3, FunctionSeq
  <2>5. IsInjective(order)
    BY <2>3 DEF IsInjective
  <2> QED
    BY <2>1, <2>4, <2>5, ToSetSeq, SeqMonotonic
<1>6. /\ Alive(c, Queued, results \ gone, kept, at)
      /\ \A a \in gone : Unused(a, c, Queued, results \ gone, kept, at)
  BY <1>4, AliveWithoutResults
<1>7. /\ Alive(mem', Queued, results \ gone, kept, at)
      /\ mem'.label = c.label /\ ToSet(mem'.free) = ToSet(order) \cup ToSet(c.free)
  <2>1. Memory(c) /\ ToSet(order) \cap ToSet(c.free) = {}
    BY <1>4, <1>5, <1>6 DEF Alive, Unused
  <2> QED
    BY <1>2, <1>5, <1>6, <2>1, AliveReleased, ReleaseMemory
<1>8. Unused(n, mem', Queued, results \ gone, kept, at)
  BY <1>4, <1>5, <1>7 DEF Unused
<1>9. Alive(mem', Queued, results', kept, at)
  BY <1>1, <1>7, <1>8, AliveResult
<1>10. queue \in Seq(Address') /\ equals \in Seq(Address')
  BY <1>4, <1>7, LongerMemory
<1> QED
  BY <1>3, <1>4, <1>9, <1>10 DEF IInv, Queued

LEMMA AddLabelToNodeIInv == IInv /\ AddLabelToNode => IInv'
<1> SUFFICES ASSUME IInv, AddLabelToNode PROVE IInv'
  OBVIOUS
<1> DEFINE c == Create(mem, NewLabel)
           n == NewAddress
<1>1. PICK gone \in SUBSET kept :
        \/ /\ kept' = kept \ gone /\ mem' = Release(Mark(c, gone), <<n>>)
           /\ UNCHANGED <<queue, equals>>
        \/ /\ kept' = (kept \ gone) \cup {n} /\ mem' = Mark(c, gone)
           /\ \/ queue' = Append(queue, n) /\ equals' = equals
              \/ equals' = Append(equals, n) /\ queue' = queue
  <2>1. \A S \in SUBSET kept : Dominated(S) \subseteq kept
    BY DEF Dominated
  <2> QED
    BY <2>1 DEF AddLabelToNode
<1>2. UNCHANGED <<results, at>>
  BY DEF AddLabelToNode, Relaxing
<1>3. /\ Alive(c, Queued, results, kept, at) /\ Unused(n, c, Queued, results, kept, at)
      /\ ~c.label[n].dominated /\ 1..Len(mem.label) \subseteq 1..Len(c.label) /\ at # NoAddress
  BY CreatedIInv DEF AddLabelToNode
<1> DEFINE k == Mark(c, gone)
<1> HIDE DEF c, n
<1>4. /\ Alive(k, Queued, results, kept \ gone, at)
      /\ Unused(n, k, Queued, results, kept \ gone, at)
      /\ ~k.label[n].dominated
  <2>1. n \in 1..Len(c.label) /\ n \notin kept
    BY <1>3 DEF Unused
  <2>2. Alive(k, Queued, results, kept \ gone, at)
    BY <1>3, AliveMarked
  <2>3. Unused(n, k, Queued, results, kept \ gone, at)
    BY <1>3, <2>1, AliveMarked
  <2>4. k.label[n] = c.label[n]
    <3>1. Memory(c) /\ n \notin gone
      BY <1>3, <2>1 DEF Alive
    <3> QED
      BY <2>1, <3>1, MarkMemory
  <2> HIDE DEF k
  <2> QED
    BY <1>3, <2>2, <2>3, <2>4
<1>5. Len(k.label) = Len(c.label)
  BY <1>3, MarkMemory DEF Alive
<1> HIDE DEF k
<1>6. CASE /\ kept' = kept \ gone /\ mem' = Release(k, <<n>>)
           /\ UNCHANGED <<queue, equals>>
  <2>1. Alive(mem', Queued, results, kept', at)
    BY <1>4, <1>6, AliveReleasedOne
  <2>2. mem'.label = k.label
    BY <1>4, <1>6 DEF Release, Alive, Memory
  <2>3. queue \in Seq(Address') /\ equals \in Seq(Address')
    BY <1>3, <1>5, <2>2, LongerMemory
  <2> QED
    BY <1>2, <1>3, <1>6, <2>1, <2>3 DEF IInv, Queued
<1>7. CASE /\ kept' = (kept \ gone) \cup {n} /\ mem' = k
           /\ \/ queue' = Append(queue, n) /\ equals' = equals
              \/ equals' = Append(equals, n) /\ queue' = queue
  <2>1. Alive(mem', Queued \cup {n}, results, kept', at)
    BY <1>4, <1>7, AliveQueued
  <2>2. queue \in Seq(Address') /\ equals \in Seq(Address')
    BY <1>3, <1>5, <1>7, LongerMemory
  <2>3. n \notin Queued /\ n \in Address' /\ Address' \cup {n} = Address'
    BY <1>4, <1>7 DEF Unused, Address
  <2>4. CASE queue' = Append(queue, n) /\ equals' = equals
    <3>1. /\ IsInjective(queue') /\ queue' \in Seq(Address')
          /\ ToSet(queue') = ToSet(queue) \cup {n}
      BY <2>2, <2>3, <2>4, AppendOnce DEF IInv, Queued
    <3>2. Queued' = Queued \cup {n}
      BY <2>4, <3>1 DEF Queued
    <3> QED
      BY <1>2, <1>3, <2>1, <2>2, <2>3, <2>4, <3>1, <3>2 DEF IInv, Queued
  <2>5. CASE equals' = Append(equals, n) /\ queue' = queue
    <3>1. /\ IsInjective(equals') /\ equals' \in Seq(Address')
          /\ ToSet(equals') = ToSet(equals) \cup {n}
      BY <2>2, <2>3, <2>5, AppendOnce DEF IInv, Queued
    <3>2. Queued' = Queued \cup {n}
      BY <2>5, <3>1 DEF Queued
    <3> QED
      BY <1>2, <1>3, <2>1, <2>2, <2>3, <2>5, <3>1, <3>2 DEF IInv, Queued
  <2> QED
    BY <1>7, <2>4, <2>5
<1> QED
  BY <1>1, <1>6, <1>7 DEF k

LEMMA UselessIInv == IInv /\ Useless => IInv'
<1> SUFFICES ASSUME IInv, Useless PROVE IInv'
  OBVIOUS
<1> DEFINE c == Create(mem, NewLabel)
           n == NewAddress
<1>1. mem' = Release(c, <<n>>) /\ UNCHANGED <<kept, queue, equals, results, at>>
  BY DEF Useless, Relaxing
<1>2. /\ Alive(c, Queued, results, kept, at) /\ Unused(n, c, Queued, results, kept, at)
      /\ 1..Len(mem.label) \subseteq 1..Len(c.label) /\ at # NoAddress
  BY CreatedIInv DEF Useless
<1> HIDE DEF c, n
<1>3. Alive(mem', Queued, results, kept, at)
  BY <1>1, <1>2, AliveReleasedOne
<1>4. mem'.label = c.label
  BY <1>1, <1>2 DEF Release, Alive, Memory
<1>5. queue \in Seq(Address') /\ equals \in Seq(Address')
  BY <1>2, <1>4, LongerMemory
<1> QED
  BY <1>1, <1>2, <1>3, <1>5 DEF IInv, Queued

LEMMA NextIInv == IInv /\ [Next]_vars => IInv'
<1> SUFFICES ASSUME IInv, [Next]_vars PROVE IInv'
  OBVIOUS
<1> DEFINE same == UNCHANGED <<mem, kept, queue, equals>>
<1>1. CASE AddStart
  BY <1>1, AddStartIInv
<1>2. CASE StartsAdded \/ FilterEnds \/ Extend \/ Finish \/ UNCHANGED vars
  <2>1. same /\ UNCHANGED <<at, todo, results>>
    BY <1>2 DEF StartsAdded, FilterEnds, Extend, Finish, vars, work
  <2> QED
    BY <2>1 DEF IInv, Address, Queued
<1>3. CASE Pop
  BY <1>3, PopIInv
<1>4. CASE NoLabel
  <2>1. same /\ UNCHANGED <<at, results>> /\ todo # <<>>
    BY <1>4 DEF NoLabel, Relaxing
  <2> QED
    BY <2>1 DEF IInv, Address, Queued
<1>5. CASE AddResult
  BY <1>5, AddResultIInv
<1>6. CASE AddLabelToNode
  BY <1>6, AddLabelToNodeIInv
<1>7. CASE Useless
  BY <1>7, UselessIInv
<1>8. CASE SearchEnds
  <2>1. same /\ UNCHANGED results /\ at' = NoAddress /\ todo' = <<>>
    BY <1>8 DEF SearchEnds, Exhausted
  <2>2. NoAddress \notin 1..Len(mem.label) /\ ToSet(mem.free) \subseteq 1..Len(mem.label)
    BY MemoryFree DEF NoAddress, IInv, Alive
  <2>3. Alive(mem, Queued, results, kept, NoAddress)
    BY <2>2 DEF IInv, Alive
  <2> QED
    BY <2>1, <2>3 DEF IInv, Address, Queued
<1>9. CASE Erase
  <2>1. /\ same /\ UNCHANGED <<at, todo>>
        /\ \E b \in results : results' = results \ {b}
    BY <1>9 DEF Erase, work
  <2>2. PICK b \in results : results' = results \ {b}
    BY <2>1
  <2>3. Alive(mem, Queued, results \ {b}, kept, at)
    BY AliveWithoutResults DEF IInv
  <2> QED
    BY <2>1, <2>2, <2>3 DEF IInv, Address, Queued
<1> QED
  BY <1>1, <1>2, <1>3, <1>4, <1>5, <1>6, <1>7, <1>8, <1>9 DEF Next, Step, Done

LEMMA IInvNoDangling == IInv => NoDanglingLabel
<1> SUFFICES ASSUME IInv PROVE NoDanglingLabel
  OBVIOUS
<1>1. ToSet(Waiting) = Queued /\ IsInjective(Waiting)
  BY ConcatOnce DEF IInv, Waiting, Queued
<1>2. IsInjective(mem.free)
  BY DEF IInv, Alive, Memory
<1> QED
  BY <1>1, <1>2 DEF IInv, Alive, NoDanglingLabel, Free, Address, LabelAt

(* In every reachable state the labels in use are alive: what waits, is    *)
(* expanded, is kept at a node or is a result has not been released, no    *)
(* label that is there has a released predecessor, and none is free or     *)
(* waits twice.  Nothing is assumed of the timetable, the query or the     *)
(* size of the buffers.                                                    *)
THEOREM LabelsAlive == Spec => []NoDanglingLabel
<1>1. Init => IInv
  BY InitIInv
<1>2. IInv /\ [Next]_vars => IInv'
  BY NextIInv
<1>3. IInv => NoDanglingLabel
  BY IInvNoDangling
<1> QED
  BY <1>1, <1>2, <1>3, PTL DEF Spec
----------------------------------------------------------------------------
(* Numbers and finite sets                                                 *)

(* The least element of a set of numbers.                                  *)
LEMMA LeastOfFinite ==
  ASSUME NEW S \in SUBSET Nat, IsFiniteSet(S), S # {}
  PROVE  \E x \in S : \A y \in S : x <= y
<1> DEFINE bad == {A \in SUBSET S : A # {} /\ ~\E x \in A : \A y \in A : x <= y}
<1>1. SUFFICES bad = {}
  <2>1. S \in SUBSET S
    OBVIOUS
  <2> QED BY <1>1, <2>1
<1>2. SUFFICES ASSUME bad # {} PROVE FALSE
  OBVIOUS
<1>3. PICK A \in bad : \A B \in bad : ~(<<B, A>> \in StrictSubsetOrdering(S))
  <2>1. bad \subseteq FiniteSubsetsOf(S)
    BY FS_Subset DEF FiniteSubsetsOf
  <2> QED BY <1>2, <2>1, FS_StrictSubsetOrderingWellFounded, WFMin
<1>4. PICK a \in A : TRUE
  BY <1>3
<1>5. A \ {a} \notin bad
  BY <1>3, <1>4 DEF StrictSubsetOrdering
<1>6. CASE A = {a}
  BY <1>3, <1>6
<1>7. CASE A # {a}
  <2>1. PICK b \in A \ {a} : \A y \in A \ {a} : b <= y
    BY <1>3, <1>4, <1>5, <1>7
  <2>2. \A y \in A : (IF a <= b THEN a ELSE b) <= y
    BY <1>3, <1>4, <2>1
  <2> QED BY <1>3, <1>4, <2>1, <2>2
<1> QED BY <1>6, <1>7

LEMMA Least ==
  ASSUME NEW S \in SUBSET Nat, S # {}
  PROVE  \E x \in S : \A y \in S : x <= y
<1>1. PICK z \in S : TRUE
  OBVIOUS
<1> DEFINE T == {y \in S : y <= z}
<1>2. IsFiniteSet(T)
  <2>1. T \subseteq 0..z
    <3> SUFFICES ASSUME NEW y \in T PROVE y \in 0..z
      OBVIOUS
    <3>1. z \in Nat /\ y \in Nat /\ y <= z
      BY <1>1
    <3> QED BY <3>1
  <2>2. IsFiniteSet(0..z)
    BY FS_Interval
  <2> QED BY <2>1, <2>2, FS_Subset
<1>3. T \in SUBSET Nat /\ z \in T
  <2>1. z \in Nat /\ z <= z
    BY <1>1
  <2> QED BY <1>1, <2>1
<1> HIDE DEF T
<1>4. PICK x \in T : \A y \in T : x <= y
  BY <1>2, <1>3, LeastOfFinite
<1>5. x \in S /\ \A y \in S : x <= y
  <2>1. x \in Nat /\ x \in S /\ x <= z
    BY <1>3 DEF T
  <2> SUFFICES ASSUME NEW y \in S PROVE x <= y
    BY <2>1
  <2>2. CASE y <= z
    BY <1>4, <2>2 DEF T
  <2>3. CASE ~(y <= z)
    BY <2>1, <2>3
  <2> QED BY <2>2, <2>3
<1> QED BY <1>5

LEMMA MinIs ==
  ASSUME NEW S \in SUBSET Nat, S # {}
  PROVE  Min(S) \in S /\ \A y \in S : Min(S) <= y
<1>1. \E x \in S : \A y \in S : x <= y
  BY Least
<1>2. Min(S) = CHOOSE x \in S : \A y \in S : x <= y
  BY DEF Min
<1> QED BY <1>1, <1>2

LEMMA Ranked ==
  ASSUME NEW S, IsFiniteSet(S), NEW R, Ordering(R, S)
  PROVE  /\ Onto(Listed(R, S), Cardinality(S), S)
         /\ \A j, k \in 1..Cardinality(S) : j < k => <<Listed(R, S)[j], Listed(R, S)[k]>> \in R
<1> DEFINE f == Listed(R, S)
           n == Cardinality(S)
           below(x) == {y \in S : <<y, x>> \in R}
           rank == [x \in S |-> Rank(R, S, x) + 1]
<1>1. n \in Nat
  BY FS_CardinalityType
<1>2. ASSUME NEW x \in S
      PROVE  /\ IsFiniteSet(below(x)) /\ Rank(R, S, x) = Cardinality(below(x))
             /\ Rank(R, S, x) \in Nat /\ Rank(R, S, x) < n
  <2>1. below(x) \subseteq S /\ x \notin below(x)
    BY DEF Ordering
  <2>2. IsFiniteSet(below(x))
    BY <2>1, FS_Subset
  <2>3. Cardinality(below(x)) <= n
    BY <2>1, FS_Subset
  <2>4. Cardinality(below(x)) # n
    BY <2>1, FS_Subset
  <2>5. Cardinality(below(x)) \in Nat
    BY <2>2, FS_CardinalityType
  <2> HIDE DEF below, n
  <2>6. Rank(R, S, x) = Cardinality(below(x))
    BY DEF Rank, below
  <2> QED BY <1>1, <2>2, <2>3, <2>4, <2>5, <2>6
<1>3. ASSUME NEW x \in S, NEW y \in S, <<x, y>> \in R
      PROVE  Rank(R, S, x) < Rank(R, S, y)
  <2>1. below(x) \subseteq below(y) /\ x \in below(y) /\ x \notin below(x)
    BY <1>3 DEF Ordering
  <2>2. /\ IsFiniteSet(below(y)) /\ Rank(R, S, x) = Cardinality(below(x))
        /\ Rank(R, S, y) = Cardinality(below(y))
        /\ Rank(R, S, x) \in Nat /\ Rank(R, S, y) \in Nat
    BY <1>2
  <2> HIDE DEF below
  <2>3. Cardinality(below(x)) <= Cardinality(below(y)) /\ Cardinality(below(x)) # Cardinality(below(y))
    BY <2>1, <2>2, FS_Subset
  <2> QED BY <2>2, <2>3
<1>0. \A x \in S : rank[x] = Rank(R, S, x) + 1 /\ Rank(R, S, x) \in Nat /\ Rank(R, S, x) < n
  BY <1>2
<1>a. rank = [x \in S |-> rank[x]]
  OBVIOUS
<1> HIDE DEF rank, below
<1>4. rank \in Injection(S, 1..n)
  <2>1. ASSUME NEW x \in S PROVE rank[x] \in 1..n
    <3>1. rank[x] = Rank(R, S, x) + 1 /\ Rank(R, S, x) \in Nat /\ Rank(R, S, x) < n
      BY <1>0
    <3> HIDE DEF n
    <3> QED BY <1>1, <3>1
  <2>2. ASSUME NEW x \in S, NEW y \in S, rank[x] = rank[y] PROVE x = y
    <3>1. Rank(R, S, x) = Rank(R, S, y) /\ Rank(R, S, x) \in Nat
      BY <1>0, <2>2
    <3>2. ~(<<x, y>> \in R) /\ ~(<<y, x>> \in R)
      BY <1>3, <3>1
    <3> QED BY <3>2 DEF Ordering
  <2> QED BY <1>a, <2>1, <2>2 DEF Injection, IsInjective
<1>5. IsFiniteSet(1..n) /\ Cardinality(1..n) = n
  <2>1. 1 \in Int /\ n \in Int
    BY <1>1
  <2>2. Cardinality(1..n) = IF 1 > n THEN 0 ELSE n - 1 + 1
    BY <2>1, FS_Interval
  <2> QED BY <1>1, <2>1, <2>2, FS_Interval
<1>6. rank \in Surjection(S, 1..n)
  BY <1>4, <1>5, FS_Injection
<1>7. ASSUME NEW k \in 1..n PROVE f[k] \in S /\ Rank(R, S, f[k]) = k - 1
  <2>1. PICK x \in S : rank[x] = k
    BY <1>6 DEF Surjection
  <2>2. Rank(R, S, x) = k - 1
    BY <1>0, <2>1
  <2>3. f[k] = CHOOSE z \in S : Rank(R, S, z) = k - 1
    BY DEF Listed
  <2> QED BY <2>2, <2>3
<1>8. ASSUME NEW x \in S PROVE \E k \in 1..n : f[k] = x
  <2>1. rank[x] \in 1..n
    BY <1>4 DEF Injection
  <2>2. f[rank[x]] \in S /\ Rank(R, S, f[rank[x]]) = rank[x] - 1
    BY <1>7, <2>1
  <2>3. rank[f[rank[x]]] = rank[x]
    BY <1>0, <2>1, <2>2
  <2>4. f[rank[x]] = x
    BY <1>4, <2>2, <2>3 DEF Injection, IsInjective
  <2> QED BY <2>1, <2>4
<1>9. ASSUME NEW j \in 1..n, NEW k \in 1..n, j < k PROVE <<f[j], f[k]>> \in R
  <2>1. f[j] \in S /\ f[k] \in S /\ Rank(R, S, f[j]) = j - 1 /\ Rank(R, S, f[k]) = k - 1
    BY <1>7
  <2>2. f[j] # f[k] /\ ~(<<f[k], f[j]>> \in R)
    <3>1. ~(k - 1 < j - 1) /\ j - 1 # k - 1
      BY <1>1, <1>9
    <3> QED BY <1>3, <2>1, <3>1
  <2> QED BY <2>1, <2>2 DEF Ordering
<1>10. f \in [1..n -> S]
  BY <1>7 DEF Listed
<1> HIDE DEF f, n
<1>11. Onto(f, n, S) /\ \A j, k \in 1..n : j < k => <<f[j], f[k]>> \in R
  BY <1>1, <1>8, <1>9, <1>10 DEF Onto
<1> QED BY <1>11 DEF f, n
----------------------------------------------------------------------------
(* What the loader hands over                                              *)

LEMMA RouteIs ==
  ASSUME NEW n, IsNetwork(n), NEW r \in DOMAIN n.routes
  PROVE  LET R == n.routes[r] IN
         /\ Len(R.stops) \in Nat /\ DOMAIN R.stops = 1..Len(R.stops)
         /\ \A i \in DOMAIN R.stops :
              R.stops[i] \in 1..n.stations /\ R.enter[i] \in BOOLEAN /\ R.leave[i] \in BOOLEAN
         /\ IsFiniteSet(DOMAIN R.trips)
         /\ \A t \in DOMAIN R.trips :
              /\ R.trips[t].valid \in BOOLEAN /\ R.trips[t].days \subseteq Nat
              /\ R.trips[t].times \in Seq(Nat) /\ IsTrip(R.trips[t], Sections(n, r))
         /\ \A i \in Sections(n, r) : i \in DOMAIN R.stops /\ i + 1 \in DOMAIN R.stops /\ i \in Nat
<1> DEFINE Trips == [times : Seq(Nat), days : SUBSET Nat, valid : BOOLEAN]
           Routes == [stops : Seq(1..n.stations), enter : Seq(BOOLEAN), leave : Seq(BOOLEAN),
                      trips : Seq(Trips)]
           R == n.routes[r]
<1>1. n.routes \in Seq(Routes)
  BY DEF IsNetwork
<1>2. R \in Routes
  <2> HIDE DEF Routes
  <2> QED BY <1>1, ElementOfSeq, LenProperties
<1>3. /\ R.stops \in Seq(1..n.stations) /\ R.enter \in Seq(BOOLEAN) /\ R.leave \in Seq(BOOLEAN)
      /\ R.trips \in Seq(Trips)
  BY <1>2
<1>4. /\ Len(R.enter) = Len(R.stops) /\ Len(R.leave) = Len(R.stops)
      /\ \A t \in DOMAIN R.trips : IsTrip(R.trips[t], Sections(n, r))
  BY DEF IsNetwork
<1>5. /\ Len(R.stops) \in Nat /\ DOMAIN R.stops = 1..Len(R.stops)
      /\ DOMAIN R.enter = 1..Len(R.stops) /\ DOMAIN R.leave = 1..Len(R.stops)
      /\ DOMAIN R.trips = 1..Len(R.trips) /\ Len(R.trips) \in Nat
  BY <1>3, <1>4, LenProperties
<1>6. ASSUME NEW i \in DOMAIN R.stops
      PROVE  R.stops[i] \in 1..n.stations /\ R.enter[i] \in BOOLEAN /\ R.leave[i] \in BOOLEAN
  <2> HIDE DEF R
  <2>1. i \in 1..Len(R.stops) /\ i \in 1..Len(R.enter) /\ i \in 1..Len(R.leave)
    BY <1>4, <1>5
  <2>2. R.stops[i] \in 1..n.stations
    BY <1>3, <2>1, ElementOfSeq
  <2>3. R.enter[i] \in BOOLEAN
    BY <1>3, <2>1, ElementOfSeq
  <2>4. R.leave[i] \in BOOLEAN
    BY <1>3, <2>1, ElementOfSeq
  <2> QED BY <2>2, <2>3, <2>4
<1>7. IsFiniteSet(DOMAIN R.trips)
  BY <1>5, FS_Interval
<1>8. ASSUME NEW t \in DOMAIN R.trips
      PROVE  /\ R.trips[t].valid \in BOOLEAN /\ R.trips[t].days \subseteq Nat
             /\ R.trips[t].times \in Seq(Nat) /\ IsTrip(R.trips[t], Sections(n, r))
  <2>1. R.trips[t] \in Trips
    <3> HIDE DEF Trips, R
    <3> QED BY <1>3, <1>5, ElementOfSeq
  <2> QED BY <1>4, <2>1
<1>9. \A i \in Sections(n, r) : i \in DOMAIN R.stops /\ i + 1 \in DOMAIN R.stops /\ i \in Nat
  BY <1>5 DEF Sections
<1> QED BY <1>5, <1>6, <1>7, <1>8, <1>9

LEMMA GraphIs == Day \in Nat /\ Day # 0 /\ LastDay \in Nat /\ MaxTravelTime \in Nat /\ MaxTransfers \in Nat
BY GraphAssumption

(* The times of a trip, one day after the other.                           *)
LEMMA TripTimes ==
  ASSUME NEW n, IsNetwork(n), NEW r \in DOMAIN n.routes, NEW t \in DOMAIN n.routes[r].trips,
         NEW i \in Sections(n, r)
  PROVE  LET trip == n.routes[r].trips[t] IN
         /\ Departure(trip, i) \in Nat /\ Arrival(trip, i + 1) \in Nat
         /\ Departure(trip, i) <= Arrival(trip, i + 1)
         /\ i + 1 \in Sections(n, r) => Arrival(trip, i + 1) <= Departure(trip, i + 1)
         /\ \A d \in trip.days :
              /\ d \in Nat /\ Departure(trip, i) \div Day <= d
              /\ d + Departure(trip, i) \div Day <= LastDay
<1> DEFINE trip == n.routes[r].trips[t]
           L == Len(n.routes[r].stops)
<1>1. /\ L \in Nat /\ trip.days \subseteq Nat /\ trip.times \in Seq(Nat)
      /\ IsTrip(trip, Sections(n, r)) /\ Sections(n, r) = 1..L - 1
  BY RouteIs DEF Sections
<1> HIDE DEF trip, L
<1>2. i \in 1..L - 1 /\ L - 1 \in Nat
  BY <1>1
<1>3. Cardinality(1..L - 1) = L - 1
  <2>1. 1 \in Int /\ L - 1 \in Int
    BY <1>2
  <2>2. Cardinality(1..L - 1) = IF 1 > L - 1 THEN 0 ELSE (L - 1) - 1 + 1
    BY <2>1, FS_Interval
  <2> QED BY <1>2, <2>2
<1>4. Len(trip.times) = 2 * (L - 1)
  BY <1>1, <1>3 DEF IsTrip
<1>5. 2 * i - 1 \in 1..Len(trip.times) /\ 2 * i \in 1..Len(trip.times) /\ 2 * (i + 1) - 2 = 2 * i
  BY <1>2, <1>4
<1>6. trip.times[2 * i - 1] \in Nat /\ trip.times[2 * i] \in Nat
  BY <1>1, <1>5, ElementOfSeq
<1>7. Departure(trip, i) \in Nat /\ Arrival(trip, i + 1) \in Nat
  BY <1>5, <1>6 DEF Departure, Arrival
<1> QED BY <1>1, <1>7 DEF IsTrip, trip

LEMMA DivIs ==
  ASSUME NEW x \in Nat
  PROVE  /\ x \div Day \in Nat /\ x % Day \in Nat /\ x % Day < Day
         /\ x = (x \div Day) * Day + (x % Day)
BY GraphIs

LEMMA DivOf ==
  ASSUME NEW d \in Nat, NEW m \in Nat, m < Day
  PROVE  (d * Day + m) \div Day = d
<1> DEFINE x == d * Day + m
<1>1. x \in Nat /\ Day \in Nat
  BY GraphIs
<1>2. /\ x \div Day \in Nat /\ x % Day \in Nat /\ x % Day < Day
      /\ x = (x \div Day) * Day + (x % Day)
  BY <1>1, DivIs
<1> QED
  <2> DEFINE q == x \div Day
             p == x % Day
  <2>1. q \in Nat /\ p \in Nat /\ p < Day /\ x = q * Day + p
    BY <1>2
  <2> HIDE DEF q, p
  <2>2. d * Day + m = q * Day + p
    BY <2>1
  <2>3. q = d
    <3>1. CASE q < d
      <4>1. d = q + (d - q) /\ d - q \in Nat /\ d - q >= 1
        BY <2>1, <3>1
      <4>2. d * Day = q * Day + (d - q) * Day /\ (d - q) * Day >= Day
        BY <1>1, <2>1, <4>1
      <4> QED BY <1>1, <2>1, <2>2, <4>2
    <3>2. CASE d < q
      <4>1. q = d + (q - d) /\ q - d \in Nat /\ q - d >= 1
        BY <2>1, <3>2
      <4>2. q * Day = d * Day + (q - d) * Day /\ (q - d) * Day >= Day
        BY <1>1, <2>1, <4>1
      <4> QED BY <1>1, <2>1, <2>2, <4>2
    <3> QED BY <2>1, <3>1, <3>2
  <2> QED BY <2>3 DEF q

LEMMA DivOrders ==
  ASSUME NEW x \in Nat, NEW y \in Nat, x <= y
  PROVE  x \div Day <= y \div Day
<1>1. /\ x \div Day \in Nat /\ x % Day \in Nat /\ x % Day < Day /\ x = (x \div Day) * Day + (x % Day)
      /\ y \div Day \in Nat /\ y % Day \in Nat /\ y % Day < Day /\ y = (y \div Day) * Day + (y % Day)
      /\ Day \in Nat
  BY DivIs, GraphIs
<1> DEFINE a == x \div Day
           b == y \div Day
           p == x % Day
           q == y % Day
<1>2. a \in Nat /\ b \in Nat /\ p \in Nat /\ q \in Nat /\ p < Day /\ q < Day
      /\ x = a * Day + p /\ y = b * Day + q
  BY <1>1
<1> HIDE DEF a, b, p, q
<1>3. SUFFICES ASSUME b < a PROVE FALSE
  BY <1>2 DEF a, b
<1>4. a = b + 1 + (a - b - 1) /\ a - b - 1 \in Nat
  BY <1>2, <1>3
<1>5. a * Day = b * Day + Day + (a - b - 1) * Day /\ (a - b - 1) * Day \in Nat
  BY <1>1, <1>2, <1>4
<1> QED BY <1>1, <1>2, <1>5
----------------------------------------------------------------------------
(* Lower bounds                                                            *)

LEMMA IteratesExist ==
  ASSUME NEW S, NEW s0 \in S, NEW g \in [S -> S], NEW K \in Nat
  PROVE  \E f \in [0..K -> S] : Iterates(f, s0, g, K)
<1> DEFINE Is(f, m) == f \in [0..m -> S] /\ Iterates(f, s0, g, m)
           bad == {m \in Nat : ~\E f : Is(f, m)}
<1>1. SUFFICES ASSUME bad # {} PROVE FALSE
  OBVIOUS
<1>2. PICK m \in bad : \A y \in bad : m <= y
  <2>1. bad \in SUBSET Nat
    OBVIOUS
  <2> HIDE DEF bad
  <2> QED BY <1>1, <2>1, Least
<1>3. m \in Nat /\ ~\E f : Is(f, m)
  OBVIOUS
<1>4. m # 0
  <2> SUFFICES ASSUME m = 0 PROVE Is([k \in {0} |-> s0], m)
    BY <1>3
  <2>1. 0..m = {0} /\ 1..m = {}
    OBVIOUS
  <2> QED BY <2>1 DEF Iterates
<1>5. m - 1 \in Nat /\ ~(m <= m - 1)
  BY <1>3, <1>4
<1>6. PICK f : Is(f, m - 1)
  <2>1. m - 1 \notin bad
    BY <1>2, <1>5
  <2> HIDE DEF Is
  <2> QED BY <1>5, <2>1
<1> DEFINE w == [k \in 0..m |-> IF k = m THEN g[f[m - 1]] ELSE f[k]]
<1>7. Is(w, m)
  <2>1. ASSUME NEW k \in 0..m PROVE w[k] \in S
    <3>1. k = m \/ k \in 0..m - 1
      BY <1>3
    <3>2. m - 1 \in 0..m - 1
      BY <1>5
    <3> QED BY <1>6, <3>1, <3>2
  <2>2. w[0] = s0
    <3>1. 0 \in 0..m /\ 0 # m
      BY <1>3, <1>4
    <3> QED BY <1>6, <3>1 DEF Iterates
  <2>3. ASSUME NEW k \in 1..m PROVE w[k] = g[w[k - 1]]
    <3>1. k \in 0..m /\ k - 1 \in 0..m /\ k - 1 # m /\ k \in Nat
      BY <1>3
    <3>2. w[k - 1] = f[k - 1]
      BY <3>1
    <3>3. CASE k = m
      BY <3>1, <3>2, <3>3
    <3>4. CASE k # m
      <4>1. k \in 1..m - 1
        BY <1>3, <3>1, <3>4
      <4>2. w[k] = f[k]
        BY <3>1, <3>4
      <4> QED BY <1>6, <3>2, <4>1, <4>2 DEF Iterates
    <3> QED BY <3>3, <3>4
  <2>4. w \in [0..m -> S]
    BY <2>1
  <2> HIDE DEF w
  <2> QED BY <2>2, <2>3, <2>4 DEF Iterates
<1> HIDE DEF Is
<1> QED BY <1>3, <1>7

(* Sets that only grow, inside a set of K elements: what the last round    *)
(* adds nothing to is there after K rounds.                                *)
LEMMA GrowsToTheEnd ==
  ASSUME NEW U, IsFiniteSet(U), NEW g \in [SUBSET U -> SUBSET U],
         \A X \in SUBSET U : X \subseteq g[X],
         NEW K \in Nat, Cardinality(U) <= K,
         NEW s0 \in SUBSET U, NEW f \in [0..K -> SUBSET U], Iterates(f, s0, g, K)
  PROVE  g[f[K]] = f[K] /\ s0 \subseteq f[K]
<1> DEFINE Full(k) == \/ g[f[k]] = f[k]
                      \/ Cardinality(f[k]) >= k
           bad == {k \in 0..K : ~(Full(k) /\ s0 \subseteq f[k])}
<1>1. ASSUME NEW k \in 0..K PROVE f[k] \in SUBSET U /\ IsFiniteSet(f[k]) /\ Cardinality(f[k]) \in Nat
                                    /\ Cardinality(f[k]) <= Cardinality(U) /\ Cardinality(U) \in Nat
  BY FS_Subset, FS_CardinalityType
<1>2. bad = {}
  <2> SUFFICES ASSUME bad # {} PROVE FALSE
    OBVIOUS
  <2>1. PICK k \in bad : \A y \in bad : k <= y
    <3>1. bad \in SUBSET Nat
      OBVIOUS
    <3> HIDE DEF bad
    <3> QED BY <3>1, Least
  <2>2. k \in 0..K /\ ~(Full(k) /\ s0 \subseteq f[k])
    OBVIOUS
  <2>3. k # 0
    <3> SUFFICES ASSUME k = 0 PROVE FALSE
      OBVIOUS
    <3>1. Cardinality(f[0]) >= 0 /\ f[0] = s0
      BY <1>1, <2>2 DEF Iterates
    <3> QED BY <2>2, <3>1
  <2>4. k - 1 \in 0..K /\ k \in 1..K /\ ~(k <= k - 1)
    BY <2>2, <2>3
  <2>5. Full(k - 1) /\ s0 \subseteq f[k - 1]
    <3>1. k - 1 \notin bad
      BY <2>1, <2>4
    <3> HIDE DEF Full
    <3> QED BY <2>4, <3>1
  <2>6. f[k] = g[f[k - 1]] /\ f[k - 1] \subseteq f[k]
    BY <1>1, <2>4 DEF Iterates
  <2>7. s0 \subseteq f[k]
    BY <2>5, <2>6
  <2>8. CASE f[k] = f[k - 1]
    BY <2>2, <2>6, <2>7, <2>8
  <2>9. CASE f[k] # f[k - 1]
    <3>1. Cardinality(f[k - 1]) < Cardinality(f[k])
      <4>1. /\ IsFiniteSet(f[k]) /\ Cardinality(f[k]) \in Nat
            /\ Cardinality(f[k - 1]) \in Nat
        BY <1>1, <2>2, <2>4
      <4>2. Cardinality(f[k - 1]) <= Cardinality(f[k]) /\ Cardinality(f[k - 1]) # Cardinality(f[k])
        BY <4>1, <2>6, <2>9, FS_Subset
      <4> QED BY <4>1, <4>2
    <3>2. Cardinality(f[k - 1]) >= k - 1
      BY <2>5, <2>6, <2>9
    <3>3. Cardinality(f[k]) >= k
      <4>1. Cardinality(f[k]) \in Nat /\ Cardinality(f[k - 1]) \in Nat /\ k \in Nat
        BY <1>1, <2>2, <2>4
      <4> QED BY <3>1, <3>2, <4>1
    <3> QED BY <2>2, <2>7, <3>3
  <2> QED BY <2>8, <2>9
<1>3. K \in 0..K
  OBVIOUS
<1>4. Full(K) /\ s0 \subseteq f[K]
  <2> HIDE DEF Full
  <2> QED BY <1>2, <1>3
<1>5. CASE g[f[K]] = f[K]
  BY <1>4, <1>5
<1>6. CASE Cardinality(f[K]) >= K
  <2>1. Cardinality(f[K]) = Cardinality(U)
    BY <1>1, <1>3, <1>6
  <2>2. f[K] = U
    BY <1>1, <1>3, <2>1, FS_Subset
  <2>3. U \subseteq g[U] /\ g[U] \in SUBSET U
    OBVIOUS
  <2> QED BY <1>4, <2>2, <2>3
<1> QED BY <1>4, <1>5, <1>6

LEMMA NearExists ==
  ASSUME NEW N, NEW A, NEW goal \in N, NEW max \in Nat, NEW K \in Nat,
         \A a \in A : a.from \in N /\ a.to \in N /\ a.cost \in Nat
  PROVE  LET f == Near(A, goal, max, K)
             g == Nearers(N, A, max)
         IN /\ f \in [0..K -> SUBSET (N \X (0..max))] /\ Iterates(f, {<<goal, 0>>}, g, K)
            /\ g \in [SUBSET (N \X (0..max)) -> SUBSET (N \X (0..max))]
            /\ \A X \in SUBSET (N \X (0..max)) : X \subseteq g[X]
<1> DEFINE V(f) == f = [k \in 0..K |-> IF k = 0 THEN {<<goal, 0>>} ELSE Nearer(A, max, f[k - 1])]
           B == CHOOSE f : V(f)
           S == SUBSET (N \X (0..max))
           g == [X \in S |-> Nearer(A, max, X)]
<1>1. ASSUME NEW X \in S PROVE Nearer(A, max, X) \in S /\ X \subseteq Nearer(A, max, X)
  <2>1. ASSUME NEW q \in {x \in A \X X : x[1].to = x[2][1]}, q[1].cost + q[2][2] <= max
        PROVE  <<q[1].from, q[1].cost + q[2][2]>> \in N \X (0..max)
    <3>1. q[1] \in A /\ q[2] \in X
      OBVIOUS
    <3>2. q[2] \in N \X (0..max)
      BY <3>1
    <3>3. q[2][2] \in 0..max /\ q[1].cost \in Nat /\ q[1].from \in N
      BY <3>1, <3>2
    <3>4. q[1].cost + q[2][2] \in 0..max
      BY <2>1, <3>3
    <3> QED BY <3>3, <3>4
  <2>2. ASSUME NEW p \in {p \in {<<q[1].from, q[1].cost + q[2][2]>> :
                   q \in {x \in A \X X : x[1].to = x[2][1]}} : p[2] <= max}
        PROVE  p \in N \X (0..max)
    <3>1. PICK q \in {x \in A \X X : x[1].to = x[2][1]} : p = <<q[1].from, q[1].cost + q[2][2]>>
      OBVIOUS
    <3>2. p[2] <= max /\ p[2] = q[1].cost + q[2][2]
      BY <3>1
    <3> QED BY <2>1, <3>1, <3>2
  <2>3. Nearer(A, max, X) \subseteq N \X (0..max)
    BY <2>2 DEF Nearer
  <2> QED BY <2>3 DEF Nearer
<1>2. g \in [S -> S] /\ \A X \in S : X \subseteq g[X] /\ g[X] = Nearer(A, max, X)
  <2> HIDE DEF S
  <2> QED BY <1>1
<1>3. {<<goal, 0>>} \in S
  <2>1. 0 \in 0..max
    OBVIOUS
  <2> QED BY <2>1
<1> HIDE DEF g, S
<1>4. PICK f \in [0..K -> S] : Iterates(f, {<<goal, 0>>}, g, K)
  BY <1>2, <1>3, IteratesExist
<1>5. \E h : V(h)
  <2>1. PICK h : h = [k \in 0..K |-> f[k]]
    OBVIOUS
  <2>2. ASSUME NEW k \in 0..K
        PROVE  h[k] = IF k = 0 THEN {<<goal, 0>>} ELSE Nearer(A, max, h[k - 1])
    <3>1. CASE k = 0
      BY <1>4, <2>1, <3>1 DEF Iterates
    <3>2. CASE k # 0
      <4>1. k \in 1..K /\ k - 1 \in 0..K
        BY <3>2
      <4>2. h[k] = f[k] /\ h[k - 1] = f[k - 1] /\ f[k - 1] \in S
        BY <1>4, <2>1, <4>1
      <4>3. f[k] = g[f[k - 1]]
        BY <1>4, <4>1 DEF Iterates
      <4> QED BY <1>2, <3>2, <4>2, <4>3
    <3> QED BY <3>1, <3>2
  <2>3. V(h)
    BY <2>1, <2>2
  <2> QED BY <2>3
<1>6. V(B)
  BY <1>5
<1> HIDE DEF B
<1>7. /\ B[0] = {<<goal, 0>>}
      /\ \A k \in 1..K : B[k] = Nearer(A, max, B[k - 1])
      /\ B = [k \in 0..K |-> B[k]]
  <2>1. 0 \in 0..K
    OBVIOUS
  <2>2. ASSUME NEW k \in 1..K PROVE B[k] = Nearer(A, max, B[k - 1])
    <3>1. k \in 0..K /\ k # 0
      OBVIOUS
    <3> QED BY <1>6, <3>1
  <2>3. B = [k \in 0..K |-> B[k]]
    BY <1>6
  <2>4. B[0] = {<<goal, 0>>}
    BY <1>6, <2>1
  <2> QED BY <2>2, <2>3, <2>4
<1> HIDE DEF V
<1>8. \A k \in 0..K : B[k] \in S
  <2> DEFINE bad == {k \in 0..K : B[k] \notin S}
  <2> SUFFICES ASSUME bad # {} PROVE FALSE
    OBVIOUS
  <2>1. PICK k \in bad : \A y \in bad : k <= y
    <3>1. bad \in SUBSET Nat
      OBVIOUS
    <3> HIDE DEF bad
    <3> QED BY <3>1, Least
  <2>2. k \in 0..K /\ B[k] \notin S
    OBVIOUS
  <2>3. k # 0
    BY <1>3, <1>7, <2>2
  <2>4. k - 1 \in 0..K /\ k \in 1..K /\ ~(k <= k - 1)
    BY <2>2, <2>3
  <2>5. B[k - 1] \in S
    BY <2>1, <2>4
  <2> QED BY <1>1, <1>7, <2>2, <2>4, <2>5
<1>9. B \in [0..K -> S]
  BY <1>7, <1>8
<1>10. Iterates(B, {<<goal, 0>>}, g, K)
  <2>1. ASSUME NEW k \in 1..K PROVE B[k] = g[B[k - 1]]
    <3>1. k - 1 \in 0..K
      OBVIOUS
    <3> QED BY <1>2, <1>7, <1>8, <3>1
  <2> QED BY <1>7, <2>1 DEF Iterates
<1>11. B = Near(A, goal, max, K) /\ g = Nearers(N, A, max)
  BY DEF B, V, g, S, Near, Nearers
<1>12. \A X \in S : X \subseteq g[X]
  BY <1>2
<1> QED BY <1>2, <1>9, <1>10, <1>11, <1>12 DEF S

LEMMA DistanceIs ==
  ASSUME NEW N, IsFiniteSet(N), NEW A, ArcsIn(A, N), NEW goal \in N, NEW max \in Nat
  PROVE  Bounds(Distance(N, A, goal, max), N, A, goal)
<1>0. \A a \in A : a.from \in N /\ a.to \in N /\ a.cost \in Nat
  BY DEF ArcsIn
<1> DEFINE K == Cardinality(N) * (max + 1)
           B == Near(A, goal, max, K)
           U == N \X (0..max)
           g == Nearers(N, A, max)
           reached == B[K]
           costs(v) == {p[2] : p \in {q \in reached : q[1] = v}}
           D == Distance(N, A, goal, max)
<1>1. D = [v \in N |-> Min({max + 1} \cup costs(v))]
  BY DEF Distance, Near, Nearer
<1>2. IsFiniteSet(U) /\ Cardinality(U) = K /\ K \in Nat /\ Cardinality(N) \in Nat
  <2>1. IsFiniteSet(0..max) /\ Cardinality(0..max) = max + 1
    <3>1. 0 \in Int /\ max \in Int
      OBVIOUS
    <3>2. Cardinality(0..max) = IF 0 > max THEN 0 ELSE max - 0 + 1
      BY <3>1, FS_Interval
    <3> QED BY <3>1, <3>2, FS_Interval
  <2>2. Cardinality(N) \in Nat
    BY FS_CardinalityType
  <2>3. IsFiniteSet(U) /\ Cardinality(U) = Cardinality(N) * Cardinality(0..max)
    BY <2>1, FS_Product
  <2> QED BY <2>1, <2>2, <2>3
<1> HIDE DEF K
<1>3. /\ B \in [0..K -> SUBSET U] /\ Iterates(B, {<<goal, 0>>}, g, K)
      /\ g \in [SUBSET U -> SUBSET U] /\ \A X \in SUBSET U : X \subseteq g[X]
  BY <1>0, <1>2, NearExists
<1>4. {<<goal, 0>>} \in SUBSET U
  <2>1. 0 \in 0..max
    OBVIOUS
  <2> QED BY <2>1
<1> DEFINE W == SUBSET U
<1>g. \A X \in W : g[X] = Nearer(A, max, X)
  BY DEF Nearers
<1> HIDE DEF B, g
<1>5. g[B[K]] = B[K] /\ {<<goal, 0>>} \subseteq B[K] /\ B[K] \in SUBSET U
  <2>0. Cardinality(U) <= K
    BY <1>2
  <2>1. K \in 0..K
    BY <1>2
  <2> DEFINE s0 == {<<goal, 0>>}
  <2> HIDE DEF U, s0
  <2>4. B \in [0..K -> SUBSET U] /\ Iterates(B, s0, g, K)
    BY <1>3 DEF s0
  <2>5. g \in [SUBSET U -> SUBSET U] /\ \A X \in SUBSET U : X \subseteq g[X]
    BY <1>3
  <2>6. s0 \in SUBSET U /\ IsFiniteSet(U) /\ K \in Nat
    BY <1>2, <1>4 DEF s0
  <2>7. g[B[K]] = B[K] /\ s0 \subseteq B[K]
    BY <2>0, <2>4, <2>5, <2>6, GrowsToTheEnd
  <2>2. g[B[K]] = B[K] /\ {<<goal, 0>>} \subseteq B[K]
    BY <2>7 DEF s0
  <2>3. B[K] \in SUBSET U
    BY <1>3, <2>1
  <2> QED BY <2>2, <2>3
<1>6. Nearer(A, max, reached) = reached /\ <<goal, 0>> \in reached /\ reached \subseteq U
  BY <1>5, <1>g
<1> HIDE DEF reached, U
<1>7. \A v : costs(v) \subseteq 0..max
  BY <1>6 DEF U
<1>8. ASSUME NEW v \in N
      PROVE  /\ D[v] \in Nat /\ D[v] <= max + 1 /\ D[v] \in {max + 1} \cup costs(v)
             /\ \A c \in costs(v) : D[v] <= c
  <2> DEFINE C == {max + 1} \cup costs(v)
  <2>1. C \in SUBSET Nat /\ C # {}
    <3>1. max + 1 \in Nat /\ costs(v) \subseteq Nat
      BY <1>7
    <3> HIDE DEF costs
    <3> QED BY <3>1
  <2>2. D[v] = Min(C)
    BY <1>1
  <2> HIDE DEF C, D
  <2>3. Min(C) \in C /\ \A y \in C : Min(C) <= y
    BY <2>1, MinIs
  <2> QED BY <2>1, <2>2, <2>3 DEF C
<1>9. D[goal] = 0
  <2>1. 0 \in costs(goal)
    BY <1>6
  <2> HIDE DEF D, costs
  <2> QED BY <1>8, <2>1
<1>10. ASSUME NEW a \in A PROVE D[a.from] <= a.cost + D[a.to]
  <2>1. a.from \in N /\ a.to \in N /\ a.cost \in Nat
    BY <1>0
  <2>2. CASE D[a.to] = max + 1
    <3> HIDE DEF D, costs
    <3>1. D[a.from] \in Nat /\ D[a.from] <= max + 1
      BY <1>8, <2>1
    <3> QED BY <2>1, <2>2, <3>1
  <2>3. CASE D[a.to] \in costs(a.to)
    <3>1. <<a.to, D[a.to]>> \in reached
      <4>1. PICK p \in reached : p[1] = a.to /\ p[2] = D[a.to]
        BY <2>3
      <4>2. p = <<p[1], p[2]>>
        BY <1>6, <4>1 DEF U
      <4> HIDE DEF D
      <4> QED BY <4>1, <4>2
    <3> DEFINE d == D[a.to]
               c == a.cost + d
    <3>2. d \in Nat
      BY <1>8, <2>1
    <3>3. <<a.to, d>> \in reached
      BY <3>1
    <3> HIDE DEF d
    <3>4. CASE c <= max
      <4>1. <<a.from, c>> \in {<<q[1].from, q[1].cost + q[2][2]>> :
                   q \in {x \in A \X reached : x[1].to = x[2][1]}}
        <5>1. <<a, <<a.to, d>>>> \in {x \in A \X reached : x[1].to = x[2][1]}
          BY <3>3
        <5> QED BY <5>1
      <4>2. <<a.from, c>> \in reached
        BY <1>6, <3>4, <4>1 DEF Nearer
      <4>3. c \in costs(a.from)
        BY <4>2
      <4> HIDE DEF costs, D
      <4>4. D[a.from] <= c
        BY <1>8, <2>1, <4>3
      <4> QED BY <4>4 DEF d
    <3>5. CASE ~(c <= max)
      <4> HIDE DEF D
      <4>1. D[a.from] \in Nat /\ D[a.from] <= max + 1
        BY <1>8, <2>1
      <4>2. c \in Nat
        BY <2>1, <3>2
      <4>3. D[a.from] <= c
        BY <3>5, <4>1, <4>2
      <4> QED BY <4>3 DEF d
    <3> QED BY <3>4, <3>5
  <2> HIDE DEF D, costs
  <2> QED BY <1>8, <2>1, <2>2, <2>3
<1>11. D \in [N -> Nat]
  <2>1. \A v \in N : D[v] \in Nat
    BY <1>8
  <2>2. DOMAIN D = N /\ D = [v \in N |-> D[v]]
    BY <1>1
  <2> HIDE DEF D
  <2> QED BY <2>1, <2>2
<1> HIDE DEF D
<1>12. Bounds(D, N, A, goal)
  BY <1>9, <1>10, <1>11 DEF Bounds
<1> QED BY <1>12 DEF D
----------------------------------------------------------------------------
(* Connections                                                             *)

LEMMA SectionIs ==
  ASSUME NEW n, IsNetwork(n), NEW r \in DOMAIN n.routes, NEW t \in DOMAIN n.routes[r].trips,
         NEW i \in Sections(n, r)
  PROVE  LET trip == n.routes[r].trips[t]
             c    == SectionOf(trip, i)
             off  == Departure(trip, i) \div Day
         IN /\ IsSection(c) /\ c.valid = trip.valid /\ off \in Nat
            /\ c \in SectionsOf(n, r, i)
            /\ c.days = {d + off : d \in trip.days}
            /\ \A d \in trip.days :
                 /\ d + off \in c.days /\ d + off <= LastDay
                 /\ (d + off) * Day + c.dep = d * Day + Departure(trip, i)
                 /\ (d + off) * Day + c.arr = d * Day + Arrival(trip, i + 1)
<1> DEFINE trip == n.routes[r].trips[t]
           c    == SectionOf(trip, i)
           dep  == Departure(trip, i)
           arr  == Arrival(trip, i + 1)
           off  == dep \div Day
           min  == dep % Day
<1>1. /\ dep \in Nat /\ arr \in Nat /\ dep <= arr
      /\ \A d \in trip.days : d \in Nat /\ off <= d /\ d + off <= LastDay
  BY TripTimes
<1>2. c = [dep |-> min, arr |-> min + (arr - dep), valid |-> trip.valid,
           days |-> {d + off : d \in {x \in trip.days : off <= x}}]
  <2>1. i \in Nat
    BY RouteIs
  <2>2. trip.times[2 * i - 1] = dep /\ trip.times[2 * i] = arr
    <3>1. 2 * (i + 1) - 2 = 2 * i
      BY <2>1
    <3> QED BY <3>1 DEF Departure, Arrival
  <2> HIDE DEF trip, dep, arr
  <2> QED BY <2>2 DEF SectionOf
<1>3. trip.valid \in BOOLEAN
  BY RouteIs
<1>4. c \in SectionsOf(n, r, i)
  BY DEF SectionsOf
<1>5. off \in Nat /\ min \in Nat /\ min < Day /\ dep = off * Day + min /\ Day \in Nat
  <2>1. dep \in Nat
    BY <1>1
  <2> HIDE DEF dep
  <2> QED BY <2>1, DivIs, GraphIs
<1> HIDE DEF trip, dep, arr, off, min, c
<1>6. c.days = {d + off : d \in trip.days}
  <2>1. {x \in trip.days : off <= x} = trip.days
    BY <1>1
  <2> QED BY <1>2, <2>1
<1>7. c.days \subseteq Nat
  BY <1>1, <1>5, <1>6
<1>8. IsSection(c) /\ c.valid = trip.valid
  <2>1. c.dep = min /\ c.arr = min + (arr - dep) /\ c.valid = trip.valid
    BY <1>2
  <2> QED BY <1>1, <1>3, <1>5, <1>7, <2>1 DEF IsSection
<1>9. ASSUME NEW d \in trip.days
      PROVE  /\ d + off \in c.days /\ d + off <= LastDay
             /\ (d + off) * Day + c.dep = d * Day + dep
             /\ (d + off) * Day + c.arr = d * Day + arr
  <2>1. d \in Nat /\ c.dep = min /\ c.arr = min + (arr - dep)
    BY <1>1, <1>2
  <2>2. (d + off) * Day = d * Day + off * Day
    BY <1>5, <2>1
  <2>3. d * Day \in Nat /\ off * Day \in Nat
    BY <1>5, <2>1
  <2>4. (d + off) * Day + c.dep = d * Day + dep
    BY <1>1, <1>5, <2>1, <2>2, <2>3
  <2>5. (d + off) * Day + c.arr = d * Day + arr
    BY <1>1, <1>5, <2>1, <2>2, <2>3
  <2> QED BY <1>1, <1>6, <2>4, <2>5
<1> QED BY <1>4, <1>5, <1>6, <1>8, <1>9, Zenon DEF trip, dep, arr, off, c

LEMMA RowIs ==
  ASSUME NEW n, IsNetwork(n), DifferentMinutes(n), NEW r \in DOMAIN n.routes,
         NEW i \in Sections(n, r)
  PROVE  IsRow(Row(n, r, i), SectionsOf(n, r, i)) /\ IsFiniteSet(SectionsOf(n, r, i))
<1> DEFINE S == SectionsOf(n, r, i)
           R == {p \in S \X S : p[1].dep < p[2].dep}
           row == Row(n, r, i)
<1>1. IsFiniteSet(S)
  <2>1. IsFiniteSet(DOMAIN n.routes[r].trips)
    BY RouteIs
  <2> DEFINE T == DOMAIN n.routes[r].trips
             f == [t \in T |-> SectionOf(n.routes[r].trips[t], i)]
  <2>2. f \in Surjection(T, S)
    BY DEF Surjection, SectionsOf
  <2> QED BY <2>1, <2>2, FS_Surjection
<1>2. \A c \in S : IsSection(c)
  <2> SUFFICES ASSUME NEW t \in DOMAIN n.routes[r].trips PROVE IsSection(SectionOf(n.routes[r].trips[t], i))
    BY DEF SectionsOf
  <2> QED BY SectionIs
<1>3. \A c, e \in S : c.dep = e.dep => c = e
  BY DEF SectionsOf, DifferentMinutes
<1> HIDE DEF S
<1>4. Ordering(R, S)
  <2>0. \A x, y \in S : <<x, y>> \in R <=> x.dep < y.dep
    OBVIOUS
  <2>1. \A x \in S : x.dep \in Nat
    BY <1>2 DEF IsSection
  <2> HIDE DEF R
  <2> QED BY <1>3, <2>0, <2>1 DEF Ordering
<1>5. row = Listed(R, S)
  <2>1. \A x \in S : {y \in S : <<y, x>> \in R} = {y \in S : y.dep < x.dep}
    OBVIOUS
  <2> DEFINE rank(x) == Cardinality({y \in S : y.dep < x.dep})
  <2>2. \A x \in S : Rank(R, S, x) = rank(x)
    BY <2>1 DEF Rank
  <2>3. row = [k \in 1..Cardinality(S) |-> CHOOSE x \in S : rank(x) = k - 1]
    BY DEF Row, Ascending, S, SectionsOf
  <2> HIDE DEF rank
  <2>4. \A k : (CHOOSE x \in S : rank(x) = k - 1) = CHOOSE x \in S : Rank(R, S, x) = k - 1
    BY <2>2
  <2> QED BY <2>3, <2>4 DEF Listed
<1> HIDE DEF row
<1>0. R \subseteq {p \in S \X S : p[1].dep < p[2].dep}
  OBVIOUS
<1> HIDE DEF R
<1>6. /\ Onto(row, Cardinality(S), S)
      /\ \A j, k \in 1..Cardinality(S) : j < k => <<row[j], row[k]>> \in R
  BY <1>1, <1>4, <1>5, Ranked
<1>7. Len(row) = Cardinality(S)
  BY <1>6, FunctionSeq DEF Onto
<1>8. \A j, k \in 1..Cardinality(S) : j < k => row[j].dep < row[k].dep
  BY <1>0, <1>6
<1> QED BY <1>1, <1>2, <1>6, <1>7, <1>8 DEF IsRow, Onto, S, row

LEMMA OnIs ==
  ASSUME NEW c, IsSection(c), NEW d \in Nat
  PROVE  /\ On(c, d) # None
         /\ On(c, d).dep \in Nat /\ On(c, d).arr \in Nat /\ On(c, d).dep <= On(c, d).arr
         /\ On(c, d).dep \div Day = d
<1>1. c.dep \in Nat /\ c.arr \in Nat /\ c.dep <= c.arr /\ c.dep < Day /\ Day \in Nat /\ d * Day \in Nat
  BY GraphIs DEF IsSection
<1>2. On(c, d).dep = d * Day + c.dep /\ On(c, d).arr = d * Day + c.arr
  BY DEF On
<1>3. On(c, d).dep \in Nat /\ On(c, d).arr \in Nat /\ On(c, d).dep <= On(c, d).arr
  BY <1>1, <1>2
<1>4. On(c, d) # None
  <2>1. None.dep = -1
    BY DEF None
  <2> SUFFICES ASSUME On(c, d) = None PROVE FALSE
    OBVIOUS
  <2> QED BY <1>3, <2>1
<1>5. On(c, d).dep \div Day = d
  BY <1>1, <1>2, DivOf
<1> QED BY <1>3, <1>4, <1>5

LEMMA TimeOn ==
  ASSUME NEW n, IsNetwork(n), TimePasses(n), NEW r \in DOMAIN n.routes, NEW i \in Sections(n, r),
         NEW c \in SectionsOf(n, r, i), NEW d \in Nat
  PROVE  On(c, d).dep < On(c, d).arr
<1>1. PICK t \in DOMAIN n.routes[r].trips : c = SectionOf(n.routes[r].trips[t], i)
  BY DEF SectionsOf
<1> DEFINE trip == n.routes[r].trips[t]
           dep  == Departure(trip, i)
           arr  == Arrival(trip, i + 1)
<1>2. dep \in Nat /\ arr \in Nat /\ dep <= arr /\ dep # arr
  BY TripTimes DEF TimePasses
<1>3. trip.times[2 * i - 1] = dep /\ trip.times[2 * i] = arr
  <2>1. i \in Nat
    BY RouteIs
  <2>2. 2 * (i + 1) - 2 = 2 * i
    BY <2>1
  <2> QED BY <2>2 DEF Departure, Arrival
<1> HIDE DEF trip, dep, arr
<1>4. c.dep = dep % Day /\ c.arr = (dep % Day) + (arr - dep)
  BY <1>1, <1>3 DEF SectionOf, trip
<1>5. dep % Day \in Nat /\ d * Day \in Nat
  BY <1>2, DivIs, GraphIs
<1>6. On(c, d).dep = d * Day + c.dep /\ On(c, d).arr = d * Day + c.arr
  BY DEF On
<1> QED BY <1>2, <1>4, <1>5, <1>6

LEMMA GetConnectionIs ==
  ASSUME NEW S, NEW row, IsRow(row, S), NEW t \in Nat
  PROVE  LET c == GetConnection(row, t) IN
         /\ \/ c = None
            \/ \E e \in S : \E d \in e.days : Runs(e, d, t) /\ c = On(e, d)
         /\ c # None => c.dep <= t + MaxTravelTime
         /\ \A e \in S : \A d \in e.days :
              Runs(e, d, t) /\ On(e, d).dep <= t + MaxTravelTime =>
                c # None /\ c.dep <= On(e, d).dep
<1> DEFINE D == Departures(row, t)
           L == Len(row)
           First(p) == \A q \in D : p[2] < q[2] \/ (p[2] = q[2] /\ p[1] <= q[1])
           b == CHOOSE p \in D : First(p)
           c == GetConnection(row, t)
           A == (t \div Day)..((t + MaxTravelTime) \div Day)
<1>1. /\ L \in Nat /\ DOMAIN row = 1..L
      /\ \A k \in 1..L : row[k] \in S /\ IsSection(row[k])
      /\ \A e \in S : \E k \in 1..L : row[k] = e
      /\ \A j, k \in 1..L : j < k => row[j].dep < row[k].dep
  BY DEF IsRow
<1>2. t \div Day \in Nat /\ (t + MaxTravelTime) \div Day \in Nat
  <2>1. t + MaxTravelTime \in Nat
    BY GraphIs
  <2> QED BY <2>1, DivIs
<1>3. D = {p \in (1..L) \X A :
             p[2] \in row[p[1]].days /\ row[p[1]].valid /\ p[2] <= LastDay
             /\ t <= p[2] * Day + row[p[1]].dep /\ p[2] * Day + row[p[1]].dep <= t + MaxTravelTime}
  BY <1>1 DEF Departures
<1>4. ASSUME NEW k \in 1..L, NEW d \in row[k].days, Runs(row[k], d, t),
             On(row[k], d).dep <= t + MaxTravelTime
      PROVE  <<k, d>> \in D
  <2>1. d \in Nat /\ IsSection(row[k])
    BY <1>1 DEF IsSection
  <2>2. On(row[k], d).dep = d * Day + row[k].dep
    BY DEF On
  <2>3. On(row[k], d).dep \in Nat /\ On(row[k], d).dep \div Day = d
    BY <2>1, OnIs
  <2>4. t + MaxTravelTime \in Nat
    BY GraphIs
  <2>5. t \div Day <= d /\ d <= (t + MaxTravelTime) \div Day
    <3>1. t <= On(row[k], d).dep
      BY <1>4, <2>2 DEF Runs
    <3> QED BY <1>4, <2>3, <2>4, <3>1, DivOrders
  <2>6. d \in A
    BY <1>2, <2>1, <2>5
  <2> HIDE DEF A, L
  <2> QED BY <1>3, <1>4, <2>2, <2>6 DEF Runs
<1>5. ASSUME NEW p \in D
      PROVE  /\ p[1] \in 1..L /\ p[2] \in Nat /\ p[2] \in row[p[1]].days
             /\ Runs(row[p[1]], p[2], t) /\ On(row[p[1]], p[2]).dep <= t + MaxTravelTime
  <2>1. p[1] \in 1..L /\ p[2] \in A
    BY <1>3
  <2>2. p[2] \in Nat
    BY <1>2, <2>1
  <2> HIDE DEF A, D
  <2>3. On(row[p[1]], p[2]).dep = p[2] * Day + row[p[1]].dep
    BY DEF On
  <2> QED BY <1>3, <2>1, <2>2, <2>3 DEF Runs
<1> HIDE DEF D, A
<1>6. ASSUME D # {} PROVE b \in D /\ First(b)
  <2> DEFINE days == {p[2] : p \in D}
  <2>1. days \in SUBSET Nat /\ days # {}
    BY <1>5, <1>6
  <2> HIDE DEF days
  <2>2. PICK d \in days : \A y \in days : d <= y
    BY <2>1, Least
  <2> DEFINE ks == {p[1] : p \in {q \in D : q[2] = d}}
  <2>3. ks \in SUBSET Nat /\ ks # {}
    <3>1. ks # {}
      BY <2>2 DEF days
    <3>2. \A p \in D : p[1] \in Nat
      BY <1>1, <1>5
    <3> QED BY <3>1, <3>2
  <2> HIDE DEF ks
  <2>4. PICK k \in ks : \A y \in ks : k <= y
    BY <2>3, Least
  <2>5. PICK p \in D : p[2] = d /\ p[1] = k
    BY <2>4 DEF ks
  <2>6. First(p)
    <3> SUFFICES ASSUME NEW q \in D PROVE p[2] < q[2] \/ (p[2] = q[2] /\ p[1] <= q[1])
      OBVIOUS
    <3>1. p[2] <= q[2] /\ p[2] \in Nat /\ q[2] \in Nat
      BY <1>5, <2>2, <2>5 DEF days
    <3>2. p[2] = q[2] => p[1] <= q[1]
      BY <2>4, <2>5 DEF ks
    <3> QED BY <3>1, <3>2
  <2> HIDE DEF First
  <2> QED BY <2>6
<1>7. c = IF D = {} THEN None ELSE On(row[b[1]], b[2])
  BY DEF GetConnection, On, D
<1> HIDE DEF b, c
<1>8. c = None \/ \E e \in S : \E d \in e.days : Runs(e, d, t) /\ c = On(e, d)
  <2>1. CASE D = {}
    BY <1>7, <2>1
  <2>2. CASE D # {}
    <3>1. b \in D
      BY <1>6, <2>2
    <3>2. b[1] \in 1..L /\ b[2] \in row[b[1]].days /\ Runs(row[b[1]], b[2], t)
      BY <1>5, <3>1
    <3>3. row[b[1]] \in S
      BY <1>1, <3>2
    <3> QED BY <1>7, <2>2, <3>2, <3>3
  <2> QED BY <2>1, <2>2
<1>9. ASSUME NEW e \in S, NEW d \in e.days, Runs(e, d, t), On(e, d).dep <= t + MaxTravelTime
      PROVE  c # None /\ c.dep <= On(e, d).dep
  <2>1. PICK k \in 1..L : row[k] = e
    BY <1>1
  <2>2. <<k, d>> \in D
    BY <1>4, <1>9, <2>1
  <2>3. /\ b \in D /\ (b[2] < d \/ (b[2] = d /\ b[1] <= k)) /\ c = On(row[b[1]], b[2])
    BY <1>6, <1>7, <2>2
  <2>4. /\ b[1] \in 1..L /\ b[2] \in Nat /\ IsSection(row[b[1]]) /\ IsSection(e) /\ d \in Nat
    BY <1>1, <1>5, <2>1, <2>3 DEF IsSection
  <2>5. c # None
    BY <2>3, <2>4, OnIs
  <2> DEFINE x == row[b[1]].dep
             y == e.dep
             g == b[2]
  <2>6. c.dep = g * Day + x /\ On(e, d).dep = d * Day + y
    BY <2>3 DEF On
  <2>7. x \in Nat /\ x < Day /\ y \in Nat /\ y < Day /\ g \in Nat /\ Day \in Nat
    BY <2>4, GraphIs DEF IsSection
  <2>8. CASE b[2] < d
    <3> HIDE DEF x, y, g
    <3>1. d = g + 1 + (d - g - 1) /\ d - g - 1 \in Nat
      BY <2>4, <2>7, <2>8 DEF g
    <3>2. d * Day = g * Day + Day + (d - g - 1) * Day /\ (d - g - 1) * Day \in Nat /\ g * Day \in Nat
      BY <2>7, <3>1
    <3>3. c.dep <= On(e, d).dep
      BY <2>6, <2>7, <3>2
    <3> QED BY <2>5, <3>3
  <2>9. CASE b[2] = d /\ b[1] <= k
    <3>1. x <= y
      <4>1. b[1] = k \/ b[1] < k
        BY <1>1, <2>1, <2>4, <2>9
      <4>2. CASE b[1] = k
        BY <2>1, <2>7, <4>2
      <4>3. CASE b[1] < k
        <5>1. row[b[1]].dep < row[k].dep
          BY <1>1, <2>1, <2>4, <4>3
        <5> QED BY <2>1, <2>7, <5>1
      <4> QED BY <4>1, <4>2, <4>3
    <3>2. g = d /\ g * Day \in Nat
      BY <2>7, <2>9
    <3> HIDE DEF x, y, g
    <3>3. c.dep <= On(e, d).dep
      BY <2>6, <2>7, <3>1, <3>2
    <3> QED BY <2>5, <3>3
  <2> QED BY <2>3, <2>8, <2>9
<1>10. c # None => c.dep <= t + MaxTravelTime
  BY <1>5, <1>6, <1>7
<1> QED BY <1>8, <1>9, <1>10 DEF c
----------------------------------------------------------------------------
(* Edges                                                                   *)

LEMMA ToSetOne ==
  ASSUME NEW x
  PROVE  <<x>> \in Seq({x}) /\ ToSet(<<x>>) = {x}
BY SMT DEF ToSet

(* A sequence made of a set in its order.                                  *)
LEMMA ToSetOver ==
  ASSUME NEW m, NEW S, NEW f, Onto(f, m, S), NEW h, NEW g, g = [k \in DOMAIN f |-> h[f[k]]]
  PROVE  g \in Seq({h[x] : x \in S}) /\ ToSet(g) = {h[x] : x \in S}
<1> DEFINE T == {h[x] : x \in S}
<1>0. m \in Nat /\ f \in [1..m -> S] /\ \A x \in S : \E k \in 1..m : f[k] = x
  BY DEF Onto
<1>1. g \in [1..m -> T]
  BY <1>0
<1> HIDE DEF T
<1>2. g \in Seq(T) /\ Len(g) = m
  BY <1>0, <1>1, FunctionSeq
<1>3. ToSet(g) = {g[k] : k \in 1..m}
  <2>1. DOMAIN g = 1..m
    BY <1>1
  <2> QED BY <2>1 DEF ToSet
<1>4. \A k \in 1..m : g[k] = h[f[k]] /\ f[k] \in S
  BY <1>0
<1>5. {g[k] : k \in 1..m} = T
  BY <1>0, <1>4 DEF T
<1> QED BY <1>2, <1>3, <1>5 DEF T

LEMMA StopsAre ==
  ASSUME NEW n, IsNetwork(n)
  PROVE  /\ IsFiniteSet(Stops(n))
         /\ \A p \in Stops(n) : /\ p = <<p[1], p[2]>> /\ p[1] \in Nat /\ p[2] \in Nat
                                /\ p[1] \in DOMAIN n.routes /\ p[2] \in DOMAIN n.routes[p[1]].stops
         /\ \A r \in DOMAIN n.routes : \A i \in DOMAIN n.routes[r].stops : <<r, i>> \in Stops(n)
<1> DEFINE R == DOMAIN n.routes
           A(r) == {r} \X (DOMAIN n.routes[r].stops)
           AA == {A(r) : r \in R}
<1>1. IsFiniteSet(R) /\ R \subseteq Nat
  <2>1. PICK X : n.routes \in Seq(X)
    BY DEF IsNetwork
  <2>2. R = 1..Len(n.routes) /\ Len(n.routes) \in Nat
    BY <2>1, LenProperties
  <2> QED BY <2>2, FS_Interval
<1>2. ASSUME NEW r \in R PROVE IsFiniteSet(A(r)) /\ DOMAIN n.routes[r].stops \subseteq Nat
  <2>1. DOMAIN n.routes[r].stops = 1..Len(n.routes[r].stops) /\ Len(n.routes[r].stops) \in Nat
    BY RouteIs
  <2>2. IsFiniteSet(DOMAIN n.routes[r].stops) /\ DOMAIN n.routes[r].stops \subseteq Nat
    BY <2>1, FS_Interval
  <2>3. IsFiniteSet({r})
    BY FS_Singleton
  <2> QED BY <2>2, <2>3, FS_Product
<1>3. Stops(n) = UNION AA
  BY DEF Stops
<1>4. IsFiniteSet(UNION AA)
  <2>1. IsFiniteSet(AA)
    <3> DEFINE f == [r \in R |-> A(r)]
    <3>1. f \in Surjection(R, AA)
      BY DEF Surjection
    <3> HIDE DEF f, AA, R
    <3> QED BY <1>1, <3>1, FS_Surjection
  <2>2. \A X \in AA : IsFiniteSet(X)
    BY <1>2
  <2> HIDE DEF AA
  <2> QED BY <2>1, <2>2, FS_UNION
<1>5. ASSUME NEW p \in UNION AA
      PROVE  p = <<p[1], p[2]>> /\ p[1] \in R /\ p[2] \in DOMAIN n.routes[p[1]].stops
  <2>1. PICK r \in R : p \in {r} \X (DOMAIN n.routes[r].stops)
    OBVIOUS
  <2> QED BY <2>1
<1>6. ASSUME NEW r \in R, NEW i \in DOMAIN n.routes[r].stops PROVE <<r, i>> \in UNION AA
  <2>1. <<r, i>> \in A(r)
    OBVIOUS
  <2> QED BY <2>1
<1> HIDE DEF AA
<1> QED BY <1>1, <1>2, <1>3, <1>4, <1>5, <1>6

LEMMA StationEdgesAre ==
  ASSUME NEW n, IsNetwork(n), NEW s \in 1..n.stations
  PROVE  EdgesOfStation(n, s) \in Seq(StationEdges(n, s)) /\ ToSet(EdgesOfStation(n, s)) = StationEdges(n, s)
<1> DEFINE S == StopsAt(n, s)
           before(p, q) == p[1] < q[1] \/ (p[1] = q[1] /\ p[2] < q[2])
           R == {x \in S \X S : before(x[1], x[2])}
           rank(x) == Cardinality({y \in S : before(y, x)})
           here == [k \in 1..Cardinality(S) |-> CHOOSE x \in S : rank(x) = k - 1]
           B(p) == BoardEdge(n, p[1], p[2])
           C(p) == Edge(IF n.routes[p[1]].enter[p[2]] THEN "FOOT" ELSE "INVALID",
                        StationNode(s), RouteNode(n, p[1], p[2]), 0, FALSE)
           h == [p \in S |-> B(p)]
           board == [k \in DOMAIN here |-> C(here[k])]
           foot == IF FootNode(s) \in FootNodes(n) THEN <<ToFootEdge(s)>> ELSE <<>>
           E == StationEdges(n, s)
<1>1. S = {p \in Stops(n) : n.routes[p[1]].stops[p[2]] = s}
  BY DEF StopsAt
<1>2. IsFiniteSet(S) /\ \A p \in S : p = <<p[1], p[2]>> /\ p[1] \in Nat /\ p[2] \in Nat
  BY <1>1, StopsAre, FS_Subset
<1>3. EdgesOfStation(n, s) = board \o foot
  BY <1>1 DEF EdgesOfStation, Ascending, ToFootEdge
<1> HIDE DEF S
<1>4. Ordering(R, S)
  <2>1. \A x, y \in S : <<x, y>> \in R <=> before(x, y)
    OBVIOUS
  <2>2. \A x, y \in S : x = y \/ before(x, y) \/ before(y, x)
    <3> SUFFICES ASSUME NEW x \in S, NEW y \in S, ~before(x, y), ~before(y, x) PROVE x = y
      OBVIOUS
    <3>1. x[1] \in Nat /\ x[2] \in Nat /\ y[1] \in Nat /\ y[2] \in Nat
      BY <1>2
    <3>2. x[1] = y[1] /\ x[2] = y[2]
      BY <3>1
    <3> QED BY <1>2, <3>2
  <2>3. \A x, y, z \in S : before(x, y) /\ before(y, z) => before(x, z)
    BY <1>2
  <2>4. \A x \in S : ~before(x, x)
    BY <1>2
  <2> HIDE DEF R, before
  <2> QED BY <2>1, <2>2, <2>3, <2>4 DEF Ordering
<1>5. here = [k \in 1..Cardinality(S) |-> CHOOSE x \in S : Rank(R, S, x) = k - 1]
  <2>1. \A x \in S : {y \in S : <<y, x>> \in R} = {y \in S : before(y, x)}
    OBVIOUS
  <2>2. \A x \in S : Rank(R, S, x) = rank(x)
    BY <2>1 DEF Rank
  <2> HIDE DEF rank
  <2>3. \A k : (CHOOSE x \in S : rank(x) = k - 1) = CHOOSE x \in S : Rank(R, S, x) = k - 1
    BY <2>2
  <2> QED BY <2>3
<1> HIDE DEF here, R
<1>6. Onto(here, Cardinality(S), S)
  <2>1. here = Listed(R, S)
    BY <1>5 DEF Listed
  <2>2. IsFiniteSet(S)
    BY <1>2
  <2> QED BY <1>4, <2>1, <2>2, Ranked
<1>7. board = [k \in DOMAIN here |-> h[here[k]]]
  <2>1. \A p \in S : C(p) = h[p]
    <3> SUFFICES ASSUME NEW p \in S PROVE C(p) = B(p)
      OBVIOUS
    <3>1. n.routes[p[1]].stops[p[2]] = s
      BY <1>1
    <3> QED BY <3>1 DEF BoardEdge
  <2>2. \A k \in DOMAIN here : here[k] \in S
    BY <1>6 DEF Onto
  <2> HIDE DEF C, h
  <2> QED BY <2>1, <2>2
<1> DEFINE H == {h[p] : p \in S}
<1>8. board \in Seq(H) /\ ToSet(board) = H
  <2> DEFINE m == Cardinality(S)
  <2> HIDE DEF h, board, m
  <2>1. Onto(here, m, S)
    BY <1>6 DEF m
  <2> QED BY <1>7, <2>1, ToSetOver
<1>9. H = {B(p) : p \in S}
  OBVIOUS
<1>10. E = H \cup ToSet(foot) /\ foot \in Seq(E)
  <2>1. E = H \cup (IF FootNode(s) \in FootNodes(n) THEN {ToFootEdge(s)} ELSE {})
    BY <1>9 DEF StationEdges, S
  <2> HIDE DEF H, E
  <2>2. CASE FootNode(s) \in FootNodes(n)
    <3>1. foot = <<ToFootEdge(s)>>
      BY <2>2
    <3>2. foot \in Seq({ToFootEdge(s)}) /\ ToSet(foot) = {ToFootEdge(s)}
      BY <3>1, ToSetOne
    <3>3. E = H \cup {ToFootEdge(s)}
      BY <2>1, <2>2
    <3> QED BY <3>2, <3>3, SeqMonotonic
  <2>3. CASE ~(FootNode(s) \in FootNodes(n))
    <3>1. foot = <<>> /\ E = H
      BY <2>1, <2>3
    <3> QED BY <3>1, ToSetEmpty, EmptySeq
  <2> QED BY <2>2, <2>3
<1>11. board \in Seq(E)
  <2> HIDE DEF H, E, board, foot
  <2> QED BY <1>8, <1>10, SeqMonotonic
<1> HIDE DEF H, E, board, foot
<1>12. board \o foot \in Seq(E) /\ ToSet(board \o foot) = ToSet(board) \cup ToSet(foot)
  BY <1>10, <1>11, ToSetConcat
<1> QED BY <1>3, <1>8, <1>10, <1>12 DEF E

LEMMA FootEdgesAre ==
  ASSUME NEW n, IsNetwork(n), NEW s \in 1..n.stations
  PROVE  EdgesOfFoot(n, s) \in Seq(FootEdges(n, s)) /\ ToSet(EdgesOfFoot(n, s)) = FootEdges(n, s)
<1> DEFINE S == {w \in n.walks : w.from = s}
           R == {x \in S \X S : x[1].to < x[2].to}
           rank(x) == Cardinality({y \in S : y.to < x.to})
           out == [k \in 1..Cardinality(S) |-> CHOOSE x \in S : rank(x) = k - 1]
           C(w) == Edge("FWD", FootNode(s), StationNode(w.to), w.time, FALSE)
           h == [w \in S |-> WalkEdge(w)]
           g == [k \in DOMAIN out |-> C(out[k])]
<1>1. EdgesOfFoot(n, s) = g
  BY DEF EdgesOfFoot, Ascending
<1>2. IsFiniteSet(S) /\ \A w \in S : w.from = s /\ w.to \in Nat
  BY FS_Subset DEF IsNetwork
<1>3. \A v, w \in S : v.to = w.to => v = w
  BY DEF IsNetwork
<1> HIDE DEF S
<1>4. Ordering(R, S)
  <2>1. \A x, y \in S : <<x, y>> \in R <=> x.to < y.to
    OBVIOUS
  <2> HIDE DEF R
  <2> QED BY <1>2, <1>3, <2>1 DEF Ordering
<1>5. out = [k \in 1..Cardinality(S) |-> CHOOSE x \in S : Rank(R, S, x) = k - 1]
  <2>1. \A x \in S : {y \in S : <<y, x>> \in R} = {y \in S : y.to < x.to}
    OBVIOUS
  <2>2. \A x \in S : Rank(R, S, x) = rank(x)
    BY <2>1 DEF Rank
  <2> HIDE DEF rank
  <2>3. \A k : (CHOOSE x \in S : rank(x) = k - 1) = CHOOSE x \in S : Rank(R, S, x) = k - 1
    BY <2>2
  <2> QED BY <2>3
<1> HIDE DEF out, R
<1>6. Onto(out, Cardinality(S), S)
  <2>1. out = Listed(R, S)
    BY <1>5 DEF Listed
  <2>2. IsFiniteSet(S)
    BY <1>2
  <2> QED BY <1>4, <2>1, <2>2, Ranked
<1>7. g = [k \in DOMAIN out |-> h[out[k]]]
  <2>1. \A w \in S : C(w) = h[w]
    BY <1>2 DEF WalkEdge
  <2>2. \A k \in DOMAIN out : out[k] \in S
    BY <1>6 DEF Onto
  <2> HIDE DEF C, h
  <2> QED BY <2>1, <2>2
<1> DEFINE H == {h[w] : w \in S}
<1>8. g \in Seq(H) /\ ToSet(g) = H
  <2> DEFINE m == Cardinality(S)
  <2> HIDE DEF h, g, m
  <2>1. Onto(out, m, S)
    BY <1>6 DEF m
  <2> QED BY <1>7, <2>1, ToSetOver
<1>9. H = FootEdges(n, s)
  BY DEF FootEdges, S
<1> QED BY <1>1, <1>8, <1>9

LEMMA StopEdgesAre ==
  ASSUME NEW n, IsNetwork(n), NEW r \in DOMAIN n.routes, NEW i \in DOMAIN n.routes[r].stops
  PROVE  EdgesOfStop(n, r, i) \in Seq(StopEdges(n, r, i)) /\ ToSet(EdgesOfStop(n, r, i)) = StopEdges(n, r, i)
<1> DEFINE s == n.routes[r].stops[i]
           walks == n.routes[r].leave[i] /\ FootNode(s) \in FootNodes(n)
           E == StopEdges(n, r, i)
           a == <<ExitEdge(n, r, i)>>
           b == IF i \in Sections(n, r) THEN <<RideEdge(n, r, i)>> ELSE <<>>
           c == IF walks THEN <<WalkOffEdge(n, r, i)>> ELSE <<>>
           A == {ExitEdge(n, r, i)}
           B == IF i \in Sections(n, r) THEN {RideEdge(n, r, i)} ELSE {}
           C == IF walks THEN {WalkOffEdge(n, r, i)} ELSE {}
<1>1. i \in Sections(n, r) <=> i < Len(n.routes[r].stops)
  <2>1. Len(n.routes[r].stops) \in Nat /\ i \in 1..Len(n.routes[r].stops)
    BY RouteIs
  <2> QED BY <2>1 DEF Sections
<1>2. EdgesOfStop(n, r, i) = a \o b \o c
  BY <1>1, Zenon DEF EdgesOfStop, ExitEdge, RideEdge, WalkOffEdge, RouteNode
<1>3. E = A \cup B \cup C
  BY DEF StopEdges
<1>4. a \in Seq(A) /\ ToSet(a) = A
  BY ToSetOne
<1>5. b \in Seq(B) /\ ToSet(b) = B
  BY ToSetOne, ToSetEmpty, EmptySeq
<1>6. c \in Seq(C) /\ ToSet(c) = C
  BY ToSetOne, ToSetEmpty, EmptySeq
<1> HIDE DEF E, a, b, c, A, B, C
<1>7. a \in Seq(E) /\ b \in Seq(E) /\ c \in Seq(E)
  BY <1>3, <1>4, <1>5, <1>6, SeqMonotonic
<1>8. a \o b \in Seq(E) /\ ToSet(a \o b) = A \cup B
  BY <1>4, <1>5, <1>7, ToSetConcat
<1> DEFINE ab == a \o b
<1> HIDE DEF ab
<1>10. ab \in Seq(E) /\ ToSet(ab) = A \cup B
  BY <1>8 DEF ab
<1>9. ab \o c \in Seq(E) /\ ToSet(ab \o c) = (A \cup B) \cup C
  BY <1>6, <1>7, <1>10, ToSetConcat
<1> QED BY <1>2, <1>3, <1>9 DEF E, ab

LEMMA NodesAre ==
  ASSUME NEW n, IsNetwork(n)
  PROVE  /\ \A s \in 1..n.stations : StationNode(s) \in Nodes(n)
         /\ \A v \in FootNodes(n) : \E s \in 1..n.stations : v = FootNode(s)
         /\ \A v \in FootNodes(n) : v \in Nodes(n)
         /\ \A r \in DOMAIN n.routes : \A i \in DOMAIN n.routes[r].stops : RouteNode(n, r, i) \in Nodes(n)
         /\ \A v \in Nodes(n) :
              \/ \E s \in 1..n.stations : v = StationNode(s)
              \/ \E s \in 1..n.stations : v = FootNode(s) /\ FootNode(s) \in FootNodes(n)
              \/ \E r \in DOMAIN n.routes : \E i \in DOMAIN n.routes[r].stops : v = RouteNode(n, r, i)
<1>1. \A v \in FootNodes(n) : \E s \in 1..n.stations : v = FootNode(s)
  BY DEF FootNodes, IsNetwork
<1>2. ASSUME NEW r \in DOMAIN n.routes, NEW i \in DOMAIN n.routes[r].stops
      PROVE  RouteNode(n, r, i) \in RouteNodes(n)
  <2> DEFINE p == <<r, i>>
  <2>1. p \in Stops(n) /\ p[1] = r /\ p[2] = i
    BY StopsAre
  <2> HIDE DEF p
  <2> QED BY <2>1 DEF RouteNodes
<1>3. ASSUME NEW v \in RouteNodes(n)
      PROVE  \E r \in DOMAIN n.routes : \E i \in DOMAIN n.routes[r].stops : v = RouteNode(n, r, i)
  <2>1. PICK p \in Stops(n) : v = RouteNode(n, p[1], p[2])
    BY DEF RouteNodes
  <2>2. p[1] \in DOMAIN n.routes /\ p[2] \in DOMAIN n.routes[p[1]].stops
    BY StopsAre
  <2> QED BY <2>1, <2>2
<1> QED BY <1>1, <1>2, <1>3 DEF Nodes, StationNodes

(* The edges of a node, as sets.                                           *)
LEMMA EdgesAt ==
  ASSUME NEW n, IsNetwork(n)
  PROVE  /\ \A s \in 1..n.stations :
              /\ Edges(n)[StationNode(s)] \in Seq(StationEdges(n, s))
              /\ ToSet(Edges(n)[StationNode(s)]) = StationEdges(n, s)
         /\ \A s \in 1..n.stations : FootNode(s) \in FootNodes(n) =>
              /\ Edges(n)[FootNode(s)] \in Seq(FootEdges(n, s))
              /\ ToSet(Edges(n)[FootNode(s)]) = FootEdges(n, s)
         /\ \A r \in DOMAIN n.routes : \A i \in DOMAIN n.routes[r].stops :
              /\ Edges(n)[RouteNode(n, r, i)] \in Seq(StopEdges(n, r, i))
              /\ ToSet(Edges(n)[RouteNode(n, r, i)]) = StopEdges(n, r, i)
<1>1. ASSUME NEW s \in 1..n.stations PROVE Edges(n)[StationNode(s)] = EdgesOfStation(n, s)
  <2> DEFINE v == StationNode(s)
  <2>1. v \in Nodes(n) /\ v.kind = "station" /\ v.station = s
    BY NodesAre DEF StationNode
  <2> HIDE DEF v
  <2>2. Edges(n)[v] = EdgesOfStation(n, v.station)
    BY <2>1 DEF Edges
  <2> QED BY <2>1, <2>2 DEF v
<1>2. ASSUME NEW s \in 1..n.stations, FootNode(s) \in FootNodes(n)
      PROVE  Edges(n)[FootNode(s)] = EdgesOfFoot(n, s)
  <2> DEFINE v == FootNode(s)
  <2>1. v \in Nodes(n) /\ v.kind = "foot" /\ v.station = s
    BY <1>2, NodesAre DEF FootNode
  <2> HIDE DEF v
  <2>2. Edges(n)[v] = EdgesOfFoot(n, v.station)
    BY <2>1 DEF Edges
  <2> QED BY <2>1, <2>2 DEF v
<1>3. ASSUME NEW r \in DOMAIN n.routes, NEW i \in DOMAIN n.routes[r].stops
      PROVE  Edges(n)[RouteNode(n, r, i)] = EdgesOfStop(n, r, i)
  <2> DEFINE v == RouteNode(n, r, i)
  <2>1. v \in Nodes(n) /\ v.kind = "route" /\ v.route = r /\ v.stop = i
    BY NodesAre DEF RouteNode
  <2> HIDE DEF v
  <2>2. Edges(n)[v] = EdgesOfStop(n, v.route, v.stop)
    BY <2>1 DEF Edges
  <2> QED BY <2>1, <2>2 DEF v
<1> QED BY <1>1, <1>2, <1>3, StationEdgesAre, FootEdgesAre, StopEdgesAre

LEMMA EdgeIs ==
  ASSUME NEW n, IsNetwork(n), NEW v \in Nodes(n), NEW e \in ToSet(Edges(n)[v])
  PROVE  IsEdge(n, v, e) /\ Edges(n)[v] \in Seq(ToSet(Edges(n)[v]))
<1> USE DEF StationNode, FootNode, RouteNode, Edge
<1>1. CASE \E s \in 1..n.stations : v = StationNode(s)
  <2>1. PICK s \in 1..n.stations : v = StationNode(s)
    BY <1>1
  <2>2. e \in StationEdges(n, s) /\ Edges(n)[v] \in Seq(ToSet(Edges(n)[v]))
    BY <2>1, EdgesAt
  <2>3. CASE \E p \in StopsAt(n, s) : e = BoardEdge(n, p[1], p[2])
    <3>1. PICK p \in StopsAt(n, s) : e = BoardEdge(n, p[1], p[2])
      BY <2>3
    <3>2. p[1] \in DOMAIN n.routes /\ p[2] \in DOMAIN n.routes[p[1]].stops
          /\ n.routes[p[1]].stops[p[2]] = s
      BY StopsAre DEF StopsAt
    <3>3. RouteNode(n, p[1], p[2]) \in Nodes(n)
      BY <3>2, NodesAre
    <3> QED BY <2>1, <2>2, <3>1, <3>2, <3>3 DEF IsEdge, BoardEdge
  <2>4. CASE FootNode(s) \in FootNodes(n) /\ e = ToFootEdge(s)
    <3>1. FootNode(s) \in Nodes(n)
      BY <2>4, NodesAre
    <3> QED BY <2>1, <2>2, <2>4, <3>1 DEF IsEdge, ToFootEdge
  <2> QED BY <2>2, <2>3, <2>4 DEF StationEdges
<1>2. CASE \E s \in 1..n.stations : v = FootNode(s) /\ FootNode(s) \in FootNodes(n)
  <2>1. PICK s \in 1..n.stations : v = FootNode(s) /\ FootNode(s) \in FootNodes(n)
    BY <1>2
  <2>2. e \in FootEdges(n, s) /\ Edges(n)[v] \in Seq(ToSet(Edges(n)[v]))
    BY <2>1, EdgesAt
  <2>3. PICK w \in n.walks : w.from = s /\ e = WalkEdge(w)
    BY <2>2 DEF FootEdges
  <2>4. w.to \in 1..n.stations /\ w.time \in Nat /\ (TimePasses(n) => w.time # 0)
    BY DEF IsNetwork, TimePasses
  <2>5. StationNode(w.to) \in Nodes(n)
    BY <2>4, NodesAre
  <2> QED BY <2>1, <2>2, <2>3, <2>4, <2>5 DEF IsEdge, WalkEdge
<1>3. CASE \E r \in DOMAIN n.routes : \E i \in DOMAIN n.routes[r].stops : v = RouteNode(n, r, i)
  <2>0. PICK r \in DOMAIN n.routes : \E i \in DOMAIN n.routes[r].stops : v = RouteNode(n, r, i)
    BY <1>3
  <2>1. PICK i \in DOMAIN n.routes[r].stops : v = RouteNode(n, r, i)
    BY <2>0
  <2>2. e \in StopEdges(n, r, i) /\ Edges(n)[v] \in Seq(ToSet(Edges(n)[v]))
    BY <2>1, EdgesAt
  <2> DEFINE s == n.routes[r].stops[i]
  <2>3. s \in 1..n.stations /\ n.transfer[s] \in Nat
    BY RouteIs DEF IsNetwork
  <2>4. CASE e = ExitEdge(n, r, i)
    <3>1. StationNode(s) \in Nodes(n)
      BY <2>3, NodesAre
    <3> QED BY <2>1, <2>2, <2>3, <2>4, <3>1 DEF IsEdge, ExitEdge
  <2>5. CASE i \in Sections(n, r) /\ e = RideEdge(n, r, i)
    <3>1. i + 1 \in DOMAIN n.routes[r].stops /\ i \in Nat
      BY <2>5, RouteIs
    <3>2. RouteNode(n, r, i + 1) \in Nodes(n)
      BY <3>1, NodesAre
    <3>3. RouteNode(n, r, i + 1) # RouteNode(n, r, i)
      BY <3>1
    <3>4. /\ e.from = v /\ e.to = RouteNode(n, r, i + 1) /\ e.row = Row(n, r, i)
          /\ e.type = "ROUTE" /\ e.time = 0 /\ e.transfer = FALSE
      <4> DEFINE b == RouteNode(n, r, i + 1)
                 R == Row(n, r, i)
      <4>1. e = [[type |-> "ROUTE", from |-> v, to |-> b, time |-> 0, transfer |-> FALSE, row |-> <<>>]
                   EXCEPT !.row = R]
        BY <2>1, <2>5 DEF RideEdge
      <4> HIDE DEF b, R
      <4>2. /\ e.from = v /\ e.to = b /\ e.row = R
            /\ e.type = "ROUTE" /\ e.time = 0 /\ e.transfer = FALSE
        BY <4>1
      <4> QED BY <4>2 DEF b, R
    <3> HIDE DEF RouteNode
    <3>5. AlongRoute(n, v, e)
      BY <2>1, <2>5, <3>4 DEF AlongRoute
    <3>6. e.to # v /\ e.to \in Nodes(n)
      BY <2>1, <3>2, <3>3, <3>4
    <3>7. e.from = v /\ e.type = "ROUTE" /\ e.time \in Nat /\ e.transfer \in BOOLEAN
      <4>1. e.transfer \in BOOLEAN
        BY <3>4, Zenon
      <4>2. e.time \in Nat
        <5>1. e.time = 0
          BY <3>4, Zenon
        <5> QED BY <5>1
      <4> QED BY <3>4, <4>1, <4>2, Zenon
    <3>8. IsEdge(n, v, e)
      BY <3>5, <3>6, <3>7 DEF IsEdge
    <3> QED BY <2>2, <3>8
  <2>6. CASE FootNode(s) \in FootNodes(n) /\ e = WalkOffEdge(n, r, i)
    <3>1. FootNode(s) \in Nodes(n)
      BY <2>6, NodesAre
    <3> QED BY <2>1, <2>2, <2>6, <3>1 DEF IsEdge, WalkOffEdge
  <2> QED BY <2>2, <2>4, <2>5, <2>6 DEF StopEdges
<1> QED BY <1>1, <1>2, <1>3, NodesAre
----------------------------------------------------------------------------
(* What the lower bounds are worth                                         *)

LEMMA RouteDomain ==
  ASSUME NEW n, IsNetwork(n)
  PROVE  DOMAIN n.routes = 1..Len(n.routes) /\ Len(n.routes) \in Nat /\ n.stations \in Nat
<1>1. PICK X : n.routes \in Seq(X)
  BY DEF IsNetwork
<1> QED BY <1>1, LenProperties DEF IsNetwork

LEMMA ArcIs ==
  ASSUME NEW a, NEW b, NEW c
  PROVE  Arc(a, b, c).from = a /\ Arc(a, b, c).to = b /\ Arc(a, b, c).cost = c
BY DEF Arc

LEMMA WalkArcsAre ==
  ASSUME NEW n, IsNetwork(n)
  PROVE  /\ \A a \in WalkArcs(n) : a.from \in 1..n.stations /\ a.to \in 1..n.stations /\ a.cost \in Nat
         /\ \A w \in n.walks : Arc(w.from, w.to, 0) \in WalkArcs(n)
<1>1. \A w \in n.walks : w.from \in 1..n.stations /\ w.to \in 1..n.stations
  BY DEF IsNetwork
<1>2. ASSUME NEW a \in WalkArcs(n)
      PROVE  a.from \in 1..n.stations /\ a.to \in 1..n.stations /\ a.cost \in Nat
  <2>1. CASE \E w \in n.walks : a = Arc(w.from, w.to, 0)
    BY <1>1, <2>1, ArcIs
  <2>2. CASE \E p \in {q \in n.walks \X n.walks : q[1].to = q[2].from /\ q[1].from # q[2].to} :
               a = Arc(p[1].from, p[2].to, 0)
    <3>1. PICK p \in n.walks \X n.walks : a = Arc(p[1].from, p[2].to, 0)
      BY <2>2
    <3> QED BY <1>1, <3>1, ArcIs
  <2> QED BY <2>1, <2>2 DEF WalkArcs
<1>3. \A w \in n.walks : Arc(w.from, w.to, 0) \in WalkArcs(n)
  BY DEF WalkArcs
<1> QED BY <1>2, <1>3

LEMMA QuickestIs ==
  ASSUME NEW n, IsNetwork(n), DifferentMinutes(n), NEW r \in DOMAIN n.routes,
         NEW i \in Sections(n, r)
  PROVE  /\ Quickest(n, r, i) \in Nat
         /\ \A c \in SectionsOf(n, r, i) : Quickest(n, r, i) <= c.arr - c.dep
<1> DEFINE S == SectionsOf(n, r, i)
           row == Row(n, r, i)
           D == {c.arr - c.dep : c \in ToSet(row)}
<1>1. IsRow(row, S)
  BY RowIs
<1>2. ToSet(row) = S
  BY <1>1 DEF IsRow, ToSet
<1>3. S # {}
  <2>1. n.routes[r].trips # <<>>
    BY DEF IsNetwork
  <2>2. PICK X : n.routes[r].trips \in Seq(X)
    <3>1. PICK Y : n.routes \in Seq([stops : Seq(1..n.stations), enter : Seq(BOOLEAN),
                                     leave : Seq(BOOLEAN), trips : Seq(Y)])
      BY DEF IsNetwork
    <3> DEFINE T == [stops : Seq(1..n.stations), enter : Seq(BOOLEAN), leave : Seq(BOOLEAN), trips : Seq(Y)]
    <3>2. n.routes[r] \in T
      <4> HIDE DEF T
      <4>1. n.routes \in Seq(T)
        BY <3>1 DEF T
      <4> QED BY <4>1, ElementOfSeq, LenProperties
    <3> QED BY <3>2
  <2>3. 1 \in DOMAIN n.routes[r].trips
    <3> DEFINE t == n.routes[r].trips
    <3>1. t \in Seq(X) /\ t # <<>>
      BY <2>1, <2>2
    <3> HIDE DEF t
    <3>2. Len(t) \in Nat /\ DOMAIN t = 1..Len(t) /\ Len(t) # 0
      BY <3>1, LenProperties, EmptySeq
    <3> QED BY <3>2 DEF t
  <2> QED BY <2>3 DEF SectionsOf
<1>4. \A c \in S : IsSection(c)
  BY <1>1 DEF IsRow
<1> HIDE DEF S, row
<1>5. D \in SUBSET Nat /\ D # {}
  <2>1. \A c \in S : c.arr - c.dep \in Nat
    BY <1>4 DEF IsSection
  <2> QED BY <1>2, <1>3, <2>1
<1> HIDE DEF D
<1>6. Min(D) \in D /\ \A y \in D : Min(D) <= y
  BY <1>5, MinIs
<1>7. Quickest(n, r, i) = Min(D)
  BY DEF Quickest, D, row
<1>8. \A c \in S : c.arr - c.dep \in D
  BY <1>2 DEF D
<1> QED BY <1>5, <1>6, <1>7, <1>8 DEF S

LEMMA RideArcsAre ==
  ASSUME NEW n, IsNetwork(n), DifferentMinutes(n)
  PROVE  /\ \A a \in RideArcs(n) : a.from \in 1..n.stations /\ a.to \in 1..n.stations /\ a.cost \in Nat
         /\ \A r \in DOMAIN n.routes : \A i \in Sections(n, r) :
              Arc(n.routes[r].stops[i], n.routes[r].stops[i + 1], Quickest(n, r, i)) \in RideArcs(n)
<1> DEFINE A(p) == Arc(n.routes[p[1]].stops[p[2]], n.routes[p[1]].stops[p[2] + 1], Quickest(n, p[1], p[2]))
           P == {q \in Stops(n) : q[2] < Len(n.routes[q[1]].stops)}
<1>1. RideArcs(n) = {A(p) : p \in P}
  BY DEF RideArcs, Quickest
<1>2. ASSUME NEW p \in P
      PROVE  A(p).from \in 1..n.stations /\ A(p).to \in 1..n.stations /\ A(p).cost \in Nat
  <2>1. p[1] \in DOMAIN n.routes /\ p[2] \in DOMAIN n.routes[p[1]].stops
        /\ p[2] < Len(n.routes[p[1]].stops)
    BY StopsAre
  <2>2. p[2] \in Sections(n, p[1]) /\ p[2] + 1 \in DOMAIN n.routes[p[1]].stops
    <3>1. Len(n.routes[p[1]].stops) \in Nat /\ p[2] \in 1..Len(n.routes[p[1]].stops)
          /\ DOMAIN n.routes[p[1]].stops = 1..Len(n.routes[p[1]].stops)
      BY <2>1, RouteIs
    <3> QED BY <2>1, <3>1 DEF Sections
  <2>3. n.routes[p[1]].stops[p[2]] \in 1..n.stations /\ n.routes[p[1]].stops[p[2] + 1] \in 1..n.stations
    BY <2>1, <2>2, RouteIs
  <2>4. Quickest(n, p[1], p[2]) \in Nat
    BY <2>1, <2>2, QuickestIs
  <2> QED BY <2>3, <2>4, ArcIs
<1>3. ASSUME NEW r \in DOMAIN n.routes, NEW i \in Sections(n, r)
      PROVE  Arc(n.routes[r].stops[i], n.routes[r].stops[i + 1], Quickest(n, r, i)) \in {A(p) : p \in P}
  <2>1. i \in DOMAIN n.routes[r].stops /\ i < Len(n.routes[r].stops)
    <3>1. Len(n.routes[r].stops) \in Nat /\ i \in DOMAIN n.routes[r].stops /\ i \in 1..Len(n.routes[r].stops) - 1
      BY RouteIs DEF Sections
    <3> QED BY <3>1
  <2>2. <<r, i>> \in Stops(n)
    BY <2>1, StopsAre
  <2>3. <<r, i>> \in P
    BY <2>1, <2>2
  <2>4. A(<<r, i>>) = Arc(n.routes[r].stops[i], n.routes[r].stops[i + 1], Quickest(n, r, i))
    OBVIOUS
  <2> HIDE DEF A, P
  <2>5. A(<<r, i>>) \in {A(p) : p \in P}
    BY <2>3
  <2> QED BY <2>4, <2>5
<1> HIDE DEF A, P
<1>4. \A a \in RideArcs(n) : a.from \in 1..n.stations /\ a.to \in 1..n.stations /\ a.cost \in Nat
  BY <1>1, <1>2
<1> QED BY <1>1, <1>3, <1>4

LEMMA TravelBounds ==
  ASSUME NEW n, IsNetwork(n), DifferentMinutes(n), NEW goal \in 1..n.stations
  PROVE  LET D == StationGraphBounds(n, goal) IN
         /\ \A s \in 1..n.stations : D[s] \in Nat
         /\ D[goal] = 0
         /\ \A w \in n.walks : D[w.from] <= D[w.to]
         /\ \A r \in DOMAIN n.routes : \A i \in Sections(n, r) : \A c \in SectionsOf(n, r, i) :
              D[n.routes[r].stops[i]] <= (c.arr - c.dep) + D[n.routes[r].stops[i + 1]]
<1> DEFINE N == 1..n.stations
           A == WalkArcs(n) \cup RideArcs(n)
           D == StationGraphBounds(n, goal)
<1>1. IsFiniteSet(N)
  BY RouteDomain, FS_Interval
<1>2. \A a \in A : a.from \in N /\ a.to \in N /\ a.cost \in Nat
  BY WalkArcsAre, RideArcsAre
<1>3. D = Distance(N, A, goal, MaxTravelTime)
  BY DEF StationGraphBounds
<1> HIDE DEF D, A
<1>4. /\ D \in [N -> Nat] /\ D[goal] = 0
      /\ \A a \in A : D[a.from] <= a.cost + D[a.to]
  <2> HIDE DEF N
  <2>1. goal \in N /\ MaxTravelTime \in Nat
    BY GraphIs DEF N
  <2>2. ArcsIn(A, N)
    BY <1>2 DEF ArcsIn
  <2>3. Bounds(D, N, A, goal)
    BY <1>1, <1>3, <2>1, <2>2, DistanceIs
  <2> QED BY <2>3 DEF Bounds
<1>5. ASSUME NEW w \in n.walks PROVE D[w.from] <= D[w.to]
  <2>1. Arc(w.from, w.to, 0) \in A
    BY WalkArcsAre DEF A
  <2>2. D[w.from] <= 0 + D[w.to]
    BY <1>4, <2>1, ArcIs
  <2>3. w.to \in N
    BY DEF IsNetwork
  <2>4. D[w.to] \in Nat
    BY <1>4, <2>3
  <2> QED BY <2>2, <2>4
<1>6. ASSUME NEW r \in DOMAIN n.routes, NEW i \in Sections(n, r), NEW c \in SectionsOf(n, r, i)
      PROVE  D[n.routes[r].stops[i]] <= (c.arr - c.dep) + D[n.routes[r].stops[i + 1]]
  <2> DEFINE a == n.routes[r].stops[i]
             b == n.routes[r].stops[i + 1]
             q == Quickest(n, r, i)
  <2>1. Arc(a, b, q) \in A
    BY RideArcsAre DEF A
  <2>2. a \in N /\ b \in N
    BY RouteIs
  <2>3. q \in Nat /\ q <= c.arr - c.dep
    BY QuickestIs
  <2>4. IsSection(c)
    BY RowIs DEF IsRow
  <2> HIDE DEF a, b, q, N
  <2>5. D[a] <= q + D[b]
    BY <1>4, <2>1, ArcIs
  <2>6. D[a] \in Nat /\ D[b] \in Nat
    BY <1>4, <2>2
  <2>7. D[a] <= (c.arr - c.dep) + D[b]
    BY <2>3, <2>4, <2>5, <2>6 DEF IsSection
  <2> QED BY <2>7 DEF a, b
<1>7. \A s \in N : D[s] \in Nat
  BY <1>4
<1> QED BY <1>4, <1>5, <1>6, <1>7 DEF D

LEMMA TransferBounds ==
  ASSUME NEW n, IsNetwork(n), NEW goal \in 1..n.stations
  PROVE  LET D == InterchangeGraphBounds(n, goal) IN
         /\ \A s \in 1..(n.stations + Len(n.routes)) : D[s] \in Nat
         /\ D[goal] = 0
         /\ \A w \in n.walks : D[w.from] <= D[w.to]
         /\ \A r \in DOMAIN n.routes : \A i \in DOMAIN n.routes[r].stops :
              LET s == n.routes[r].stops[i] IN
              /\ n.routes[r].enter[i] => D[s] <= D[n.stations + r]
              /\ n.routes[r].leave[i] => D[n.stations + r] <= 1 + D[s]
<1> DEFINE N == 1..(n.stations + Len(n.routes))
           PE == {q \in Stops(n) : n.routes[q[1]].enter[q[2]]}
           PL == {q \in Stops(n) : n.routes[q[1]].leave[q[2]]}
           E(p) == Arc(n.routes[p[1]].stops[p[2]], n.stations + p[1], 0)
           L(p) == Arc(n.stations + p[1], n.routes[p[1]].stops[p[2]], 1)
           A == WalkArcs(n) \cup {E(p) : p \in PE} \cup {L(p) : p \in PL}
           D == InterchangeGraphBounds(n, goal)
<1>1. IsFiniteSet(N) /\ goal \in N /\ n.stations \in Nat /\ Len(n.routes) \in Nat
      /\ 1..n.stations \subseteq N
  <2>1. n.stations \in Nat /\ Len(n.routes) \in Nat
    BY RouteDomain
  <2>2. IsFiniteSet(N)
    BY <2>1, FS_Interval
  <2> QED BY <2>1, <2>2
<1>2. \A r \in DOMAIN n.routes : n.stations + r \in N /\ n.stations + r \in Nat
  BY RouteDomain
<1>3. ASSUME NEW p \in Stops(n)
      PROVE  /\ E(p).from \in N /\ E(p).to \in N /\ E(p).cost \in Nat
             /\ L(p).from \in N /\ L(p).to \in N /\ L(p).cost \in Nat
  <2>1. p[1] \in DOMAIN n.routes /\ p[2] \in DOMAIN n.routes[p[1]].stops
    BY StopsAre
  <2>2. n.routes[p[1]].stops[p[2]] \in 1..n.stations
    BY <2>1, RouteIs
  <2>3. n.routes[p[1]].stops[p[2]] \in N /\ n.stations + p[1] \in N
    BY <1>1, <1>2, <2>1, <2>2
  <2> HIDE DEF N
  <2> QED BY <2>3, ArcIs
<1>4. \A a \in A : a.from \in N /\ a.to \in N /\ a.cost \in Nat
  <2> HIDE DEF E, L
  <2>1. \A a \in WalkArcs(n) : a.from \in N /\ a.to \in N /\ a.cost \in Nat
    BY <1>1, WalkArcsAre
  <2> QED BY <1>3, <2>1
<1>5. D = Distance(N, A, goal, MaxTransfers)
  BY DEF InterchangeGraphBounds, InterchangeArcs
<1>6. /\ D \in [N -> Nat] /\ D[goal] = 0
      /\ \A a \in A : D[a.from] <= a.cost + D[a.to]
  <2> HIDE DEF N, A, D
  <2>2. ArcsIn(A, N)
    BY <1>4 DEF ArcsIn
  <2>3. Bounds(D, N, A, goal)
    BY <1>1, <1>5, <2>2, DistanceIs, GraphIs
  <2> QED BY <2>3 DEF Bounds
<1> HIDE DEF D
<1>7. ASSUME NEW w \in n.walks PROVE D[w.from] <= D[w.to]
  <2>1. Arc(w.from, w.to, 0) \in A
    BY WalkArcsAre
  <2> HIDE DEF A, N
  <2>2. D[w.from] <= 0 + D[w.to]
    BY <1>6, <2>1, ArcIs
  <2>3. w.to \in 1..n.stations
    BY DEF IsNetwork
  <2>4. D[w.to] \in Nat
    BY <1>1, <1>6, <2>3
  <2> QED BY <2>2, <2>4
<1>8. ASSUME NEW r \in DOMAIN n.routes, NEW i \in DOMAIN n.routes[r].stops
      PROVE  LET s == n.routes[r].stops[i] IN
             /\ n.routes[r].enter[i] => D[s] <= D[n.stations + r]
             /\ n.routes[r].leave[i] => D[n.stations + r] <= 1 + D[s]
  <2> DEFINE s == n.routes[r].stops[i]
             p == <<r, i>>
  <2>1. s \in 1..n.stations /\ p \in Stops(n) /\ p[1] = r /\ p[2] = i
    BY RouteIs, StopsAre
  <2>2. s \in N /\ n.stations + r \in N
    BY <1>1, <1>2, <2>1
  <2>3. D[s] \in Nat /\ D[n.stations + r] \in Nat
    <3> HIDE DEF N, s
    <3> QED BY <1>6, <2>2
  <2>4. ASSUME n.routes[r].enter[i] PROVE D[s] <= D[n.stations + r]
    <3>1. E(p) \in A
      <4>1. p \in PE
        BY <2>1, <2>4
      <4> QED BY <4>1
    <3> HIDE DEF A, N, p
    <3>2. D[s] <= 0 + D[n.stations + r]
      BY <1>6, <2>1, <3>1, ArcIs
    <3> HIDE DEF s
    <3> QED BY <2>3, <3>2
  <2>5. ASSUME n.routes[r].leave[i] PROVE D[n.stations + r] <= 1 + D[s]
    <3>1. L(p) \in A
      <4>1. p \in PL
        BY <2>1, <2>5
      <4> QED BY <4>1
    <3> HIDE DEF A, N, p
    <3> QED BY <1>6, <2>1, <3>1, ArcIs
  <2> QED BY <2>4, <2>5
<1>9. \A s \in N : D[s] \in Nat
  <2> HIDE DEF N
  <2> QED BY <1>6
<1> QED BY <1>6, <1>7, <1>8, <1>9 DEF D
----------------------------------------------------------------------------
(* Labels that stay what they are                                          *)

LEMMA CreateLive ==
  ASSUME NEW m, Memory(m), NEW l, IsLabel(l)
  PROVE  LET n == NextAddress(m)
             c == Create(m, l)
         IN /\ Memory(c) /\ n \notin LiveIn(m) /\ n # NoAddress
            /\ LiveIn(c) = LiveIn(m) \cup {n}
            /\ c.label[n] = l /\ \A a \in LiveIn(m) : c.label[a] = m.label[a]
            /\ 1..Len(m.label) \subseteq 1..Len(c.label) /\ n \in 1..Len(c.label)
<1> DEFINE n == NextAddress(m)
           c == Create(m, l)
<1>1. /\ Memory(c)
      /\ Len(m.label) \in Nat /\ Len(c.label) \in Nat
      /\ 1..Len(c.label) = 1..Len(m.label) \cup {n}
      /\ ToSet(c.free) = ToSet(m.free) \ {n}
      /\ ToSet(m.free) \subseteq 1..Len(m.label)
      /\ n \in ToSet(m.free) \/ n \notin 1..Len(m.label)
      /\ c.label[n] = l
      /\ \A a \in 1..Len(m.label) : a # n => c.label[a] = m.label[a]
  BY CreateMemory
<1> HIDE DEF n, c
<1>2. n # NoAddress
  BY <1>1 DEF NoAddress
<1> QED BY <1>1, <1>2 DEF LiveIn, n, c

LEMMA ReleaseLive ==
  ASSUME NEW m, Memory(m), NEW order
  PROVE  /\ Release(m, order).label = m.label
         /\ Release(m, order).free = order \o m.free
<1> DEFINE f == order \o m.free
<1>1. Release(m, order) = [m EXCEPT !.free = f]
  BY DEF Release
<1>2. m = [label |-> m.label, free |-> m.free]
  BY DEF Memory
<1> HIDE DEF f
<1>3. [m EXCEPT !.free = f] = [label |-> m.label, free |-> f]
  BY <1>2
<1> QED BY <1>1, <1>3 DEF f

LEMMA MarkLive ==
  ASSUME NEW m, Memory(m), NEW T
  PROVE  /\ Memory(Mark(m, T)) /\ LiveIn(Mark(m, T)) = LiveIn(m) /\ Mark(m, T).free = m.free
         /\ Len(Mark(m, T).label) = Len(m.label)
         /\ \A a \in 1..Len(m.label) :
              /\ Like(m.label[a], Mark(m, T).label[a])
              /\ a \in T => Mark(m, T).label[a].dominated
              /\ a \notin T => Mark(m, T).label[a] = m.label[a]
<1> DEFINE k == Mark(m, T)
           e(a) == IF a \in T THEN [m.label[a] EXCEPT !.dominated = TRUE] ELSE m.label[a]
           f == [a \in DOMAIN m.label |-> e(a)]
<1>1. /\ Memory(k) /\ k.free = m.free /\ Len(k.label) = Len(m.label)
  BY MarkMemory
<1>2. k.label = f
  <2>1. m = [label |-> m.label, free |-> m.free]
    BY DEF Memory
  <2>2. k = [m EXCEPT !.label = f]
    BY DEF Mark
  <2> HIDE DEF f, k
  <2>3. [m EXCEPT !.label = f] = [label |-> f, free |-> m.free]
    BY <2>1
  <2> QED BY <2>2, <2>3
<1>3. PICK S : m.label \in Seq(S)
  BY DEF Memory
<1>4. DOMAIN m.label = 1..Len(m.label)
  BY <1>3, LenProperties
<1>5. ASSUME NEW a \in 1..Len(m.label)
      PROVE  /\ Like(m.label[a], e(a)) /\ (a \in T => e(a).dominated)
             /\ (a \notin T => e(a) = m.label[a])
  <2>1. IsLabel(m.label[a])
    BY DEF Memory
  <2> QED BY <2>1 DEF IsLabel, Like
<1>6. \A a \in 1..Len(m.label) : k.label[a] = e(a)
  BY <1>2, <1>4
<1> HIDE DEF k, e
<1> QED BY <1>1, <1>5, <1>6 DEF LiveIn, k
----------------------------------------------------------------------------
(* Start labels                                                            *)

LEMMA TimesAre ==
  ASSUME NEW S \in SUBSET Nat, IsFiniteSet(S)
  PROVE  Onto(Ascending(S, LAMBDA t, u : t < u), Cardinality(S), S)
<1> DEFINE R == {p \in S \X S : p[1] < p[2]}
           ts == Ascending(S, LAMBDA t, u : t < u)
<1>1. \A x, y \in S : <<x, y>> \in R <=> x < y
  OBVIOUS
<1>2. Ordering(R, S)
  <2> HIDE DEF R
  <2> QED BY <1>1 DEF Ordering
<1>3. ts = Listed(R, S)
  <2>1. \A x \in S : {y \in S : <<y, x>> \in R} = {y \in S : y < x}
    BY <1>1
  <2> DEFINE rank(x) == Cardinality({y \in S : y < x})
  <2>2. \A x \in S : Rank(R, S, x) = rank(x)
    BY <2>1 DEF Rank
  <2>3. ts = [k \in 1..Cardinality(S) |-> CHOOSE x \in S : rank(x) = k - 1]
    BY DEF Ascending
  <2> HIDE DEF rank, R
  <2>4. \A k : (CHOOSE x \in S : rank(x) = k - 1) = CHOOSE x \in S : Rank(R, S, x) = k - 1
    BY <2>2
  <2> QED BY <2>3, <2>4 DEF Listed
<1> QED BY <1>2, <1>3, Ranked

LEMMA StartsAtAre ==
  ASSUME NEW v, NEW b \in Nat, NEW e \in Nat
  PROVE  LET T == {[node |-> v, time |-> t] : t \in DeparturesIn(v, b, e)}
         IN StartsAt(v, b, e) \in Seq(T) /\ ToSet(StartsAt(v, b, e)) = T
<1> DEFINE S == DeparturesIn(v, b, e)
           ts == Ascending(S, LAMBDA t, u : t < u)
           h == [t \in S |-> [node |-> v, time |-> t]]
           g == [k \in DOMAIN ts |-> [node |-> v, time |-> ts[k]]]
<1>1. S \in SUBSET Nat /\ IsFiniteSet(S)
  <2>1. S \subseteq b..e
    BY DEF DeparturesIn
  <2>2. IsFiniteSet(b..e) /\ b..e \subseteq Nat
    BY FS_Interval
  <2> HIDE DEF S
  <2> QED BY <2>1, <2>2, FS_Subset
<1>0. StartsAt(v, b, e) = g
  BY DEF StartsAt
<1> HIDE DEF S
<1>2. Onto(ts, Cardinality(S), S)
  BY <1>1, TimesAre
<1> HIDE DEF ts
<1>3. g = [k \in DOMAIN ts |-> h[ts[k]]]
  <2>1. \A k \in DOMAIN ts : ts[k] \in S
    BY <1>2 DEF Onto
  <2> QED BY <2>1
<1>4. {h[t] : t \in S} = {[node |-> v, time |-> t] : t \in S}
  OBVIOUS
<1> HIDE DEF h, g
<1>5. g \in Seq({h[t] : t \in S}) /\ ToSet(g) = {h[t] : t \in S}
  BY <1>2, <1>3, ToSetOver
<1> QED BY <1>0, <1>4, <1>5 DEF S

(* One sequence of many.                                                   *)
LEMMA FlattenSeqIs ==
  ASSUME NEW S, NEW ss \in Seq(Seq(S))
  PROVE  FlattenSeq(ss) \in Seq(S) /\ ToSet(FlattenSeq(ss)) = UNION {ToSet(ss[k]) : k \in DOMAIN ss}
<1> DEFINE L == Len(ss)
           Until(k) == UNION {ToSet(ss[j]) : j \in 1..k}
           fl[i \in 1..L] == IF i = 1 THEN ss[i] ELSE fl[i-1] \o ss[i]
<1>1. L \in Nat /\ DOMAIN ss = 1..L /\ \A k \in 1..L : ss[k] \in Seq(S)
  BY LenProperties, ElementOfSeq
<1>2. CASE L = 0
  <2>1. ss = <<>>
    BY <1>2, EmptySeq
  <2>2. FlattenSeq(ss) = <<>>
    BY <1>2, <2>1 DEF FlattenSeq
  <2>3. DOMAIN ss = {}
    BY <1>1, <1>2
  <2>4. <<>> \in Seq(S)
    OBVIOUS
  <2> QED BY <2>2, <2>3, <2>4, ToSetEmpty
<1>3. CASE L # 0
  <2>1. FlattenSeq(ss) = fl[L]
    BY <1>3 DEF FlattenSeq
  <2> DEFINE T == [n : 0..L, s : Seq(S)]
             g == [x \in T |-> IF x.n < L THEN [n |-> x.n + 1, s |-> x.s \o ss[x.n + 1]] ELSE x]
             s0 == [n |-> 0, s |-> <<>>]
  <2> HIDE DEF L
  <2>2. s0 \in T /\ g \in [T -> T]
    <3>1. <<>> \in Seq(S) /\ 0 \in 0..L
      BY <1>1
    <3>2. ASSUME NEW x \in T PROVE g[x] \in T
      <4>1. CASE x.n < L
        <5>1. x.n + 1 \in 1..L /\ x.n + 1 \in 0..L /\ x.s \in Seq(S)
          BY <1>1, <4>1
        <5>2. x.s \o ss[x.n + 1] \in Seq(S)
          BY <1>1, <5>1, ToSetConcat
        <5> QED BY <4>1, <5>1, <5>2
      <4> QED BY <4>1
    <3> QED BY <3>1, <3>2
  <2>3. \A x \in T : g[x] = IF x.n < L THEN [n |-> x.n + 1, s |-> x.s \o ss[x.n + 1]] ELSE x
    OBVIOUS
  <2>4. \A x \in T : x.n \in 0..L /\ x.s \in Seq(S)
    OBVIOUS
  <2>5. s0.n = 0 /\ s0.s = <<>>
    OBVIOUS
  <2> HIDE DEF T, g, s0
  <2>6. PICK f \in [0..L -> T] : Iterates(f, s0, g, L)
    BY <1>1, <2>2, IteratesExist
  <2> DEFINE Good(k) == f[k].n = k /\ ToSet(f[k].s) = Until(k)
             bad == {k \in Nat : k <= L /\ ~Good(k)}
  <2>7. bad = {}
    <3> SUFFICES ASSUME bad # {} PROVE FALSE
      OBVIOUS
    <3>1. PICK k \in bad : \A y \in bad : k <= y
      <4> HIDE DEF bad
      <4>1. bad \subseteq Nat
        BY DEF bad
      <4> QED BY <4>1, Least
    <3>2. k \in Nat /\ k <= L /\ ~Good(k)
      OBVIOUS
    <3>3. k # 0
      <4>1. f[0] = s0
        BY <2>6 DEF Iterates
      <4>2. Until(0) = {}
        OBVIOUS
      <4> HIDE DEF Until
      <4> QED BY <2>5, <3>2, <4>1, <4>2, ToSetEmpty
    <3>4. k - 1 \in Nat /\ ~(k <= k - 1) /\ k \in 1..L /\ k - 1 \in 0..L
      BY <1>1, <3>2, <3>3
    <3>5. Good(k - 1)
      <4>1. k - 1 <= L /\ k - 1 \notin bad
        <5> HIDE DEF bad
        <5> QED BY <1>1, <3>1, <3>4
      <4> HIDE DEF Good
      <4> QED BY <3>4, <4>1
    <3>6. f[k] = g[f[k - 1]] /\ f[k - 1] \in T
      BY <2>6, <3>4 DEF Iterates
    <3>7. f[k] = [n |-> k, s |-> f[k - 1].s \o ss[k]]
      <4>1. (k - 1) + 1 = k /\ k - 1 < L
        BY <1>1, <3>4
      <4> QED BY <2>3, <3>5, <3>6, <4>1
    <3>8. ToSet(f[k].s) = ToSet(f[k - 1].s) \cup ToSet(ss[k])
      BY <1>1, <2>4, <3>4, <3>6, <3>7, ToSetConcat
    <3>9. Until(k) = Until(k - 1) \cup ToSet(ss[k])
      <4>1. 1..k = (1..(k - 1)) \cup {k}
        BY <3>4
      <4> QED BY <4>1
    <3> HIDE DEF Until
    <3> QED BY <3>2, <3>5, <3>7, <3>8, <3>9
  <2>8. \A k \in 0..L : f[k].n = k /\ ToSet(f[k].s) = Until(k) /\ f[k].s \in Seq(S)
    <3> SUFFICES ASSUME NEW k \in 0..L PROVE Good(k) /\ f[k].s \in Seq(S)
      BY Zenon
    <3>1. k \in Nat /\ k <= L
      BY <1>1
    <3>2. f[k].s \in Seq(S)
      BY <2>4, <2>6
    <3> HIDE DEF Good
    <3> QED BY <2>7, <3>1, <3>2
  <2> DEFINE w == [k \in 1..L |-> f[k].s]
  <2>9. w = [i \in 1..L |-> IF i = 1 THEN ss[i] ELSE w[i-1] \o ss[i]]
    <3> SUFFICES ASSUME NEW i \in 1..L
                 PROVE  f[i].s = IF i = 1 THEN ss[i] ELSE w[i-1] \o ss[i]
      BY Zenon
    <3>1. i - 1 \in 0..L /\ i - 1 < L /\ (i - 1) + 1 = i
      BY <1>1
    <3>2. f[i] = g[f[i - 1]] /\ f[i - 1] \in T /\ f[i - 1].n = i - 1
      BY <2>6, <2>8, <3>1 DEF Iterates
    <3>3. f[i] = [n |-> i, s |-> f[i - 1].s \o ss[i]]
      BY <2>3, <3>1, <3>2
    <3>4. CASE i = 1
      <4>1. f[i - 1].s = <<>>
        BY <2>5, <2>6, <3>4 DEF Iterates
      <4>2. ss[i] \in Seq(S)
        BY <1>1
      <4>3. <<>> \o ss[i] = ss[i]
        BY <4>2
      <4> QED BY <3>3, <3>4, <4>1, <4>3
    <3>5. CASE i # 1
      <4>1. i - 1 \in 1..L
        BY <3>1, <3>5
      <4>2. w[i - 1] = f[i - 1].s
        BY <4>1
      <4> DEFINE p == w[i - 1]
                 q == f[i - 1].s
                 o == ss[i]
      <4>3. f[i].s = q \o o
        <5> DEFINE r == q \o o
        <5>1. f[i] = [n |-> i, s |-> r]
          BY <3>3
        <5> HIDE DEF r
        <5>2. f[i].s = r
          BY <5>1
        <5> QED BY <5>2 DEF r
      <4>4. p = q
        BY <4>2
      <4> HIDE DEF p, q, o
      <4>5. f[i].s = p \o o
        BY <4>3, <4>4
      <4> QED BY <3>5, <4>5 DEF p, o
    <3> QED BY <3>4, <3>5
  <2>10. fl[L] = w[L]
    <3> DEFINE u == CHOOSE u : u = [i \in 1..L |-> IF i = 1 THEN ss[i] ELSE u[i-1] \o ss[i]]
               badu == {k \in Nat : k \in 1..L /\ u[k] # w[k]}
    <3>1. u = [i \in 1..L |-> IF i = 1 THEN ss[i] ELSE u[i-1] \o ss[i]]
      BY <2>9, Zenon
    <3>2. fl = u
      OBVIOUS
    <3> HIDE DEF u, w, fl
    <3>3. badu = {}
      <4> SUFFICES ASSUME badu # {} PROVE FALSE
        OBVIOUS
      <4>1. PICK k \in badu : \A y \in badu : k <= y
        <5> HIDE DEF badu
        <5>1. badu \subseteq Nat
          BY DEF badu
        <5> QED BY <5>1, Least
      <4>2. k \in 1..L /\ u[k] # w[k]
        OBVIOUS
      <4>3. /\ u[k] = IF k = 1 THEN ss[k] ELSE u[k-1] \o ss[k]
            /\ w[k] = IF k = 1 THEN ss[k] ELSE w[k-1] \o ss[k]
        BY <2>9, <3>1, <4>2
      <4>4. k # 1
        BY <4>2, <4>3
      <4>5. k - 1 \in 1..L /\ k - 1 \in Nat /\ ~(k <= k - 1)
        BY <4>2, <4>4, <1>1
      <4>6. u[k - 1] = w[k - 1]
        BY <4>1, <4>5
      <4> QED BY <4>2, <4>3, <4>4, <4>6
    <3>4. L \in 1..L /\ L \in Nat
      BY <1>1, <1>3 DEF L
    <3> QED BY <3>2, <3>3, <3>4
  <2>11. w[L] = f[L].s /\ L \in 0..L
    BY <1>1, <1>3 DEF L
  <2>12. Until(L) = UNION {ToSet(ss[k]) : k \in DOMAIN ss}
    BY <1>1
  <2> HIDE DEF Until, w, fl
  <2> QED BY <2>1, <2>8, <2>10, <2>11, <2>12
<1> QED BY <1>2, <1>3

LEMMA OntripNodeIs ==
  ASSUME Prepared, query.kind # "pretrip"
  PROVE  OntripNode \in Nodes(net) /\ OntripNode.station = Origin(net, query)
<1>1. IsNetwork(net) /\ IsQuery(net, query)
  BY DEF Prepared
<1>2. CASE query.kind = "train"
  <2>1. query.route \in DOMAIN net.routes /\ query.stop \in DOMAIN net.routes[query.route].stops
    BY <1>1, <1>2 DEF IsQuery
  <2> QED BY <1>1, <1>2, <2>1, NodesAre DEF OntripNode, RouteNode, Origin
<1>3. CASE query.kind # "train"
  <2>1. query.from \in 1..net.stations
    BY <1>1, <1>3 DEF IsQuery, Origin
  <2> QED BY <1>1, <1>3, <2>1, NodesAre DEF OntripNode, StationNode, Origin
<1> QED BY <1>2, <1>3

LEMMA PretripQuery ==
  ASSUME Prepared, query.kind # "train"
  PROVE  /\ query.from \in 1..net.stations /\ Origin(net, query) = query.from
         /\ StationNode(query.from) \in Nodes(net) /\ query.from # query.to
BY NodesAre DEF Prepared, IsQuery, Origin

LEMMA StartStopsAre ==
  ASSUME Prepared, query.kind = "pretrip", NEW e \in ToSet(edges[StationNode(query.from)]),
         e.type = "FOOT", e.to.kind = "route"
  PROVE  e.to \in {v \in Nodes(net) : v.kind = "route" /\ v.station = query.from}
<1> DEFINE s == query.from
<1>1. IsNetwork(net) /\ s \in 1..net.stations /\ edges = Edges(net)
  BY PretripQuery DEF Prepared
<1>2. e \in StationEdges(net, s)
  BY <1>1, EdgesAt
<1>3. CASE \E p \in StopsAt(net, s) : e = BoardEdge(net, p[1], p[2])
  <2>1. PICK p \in StopsAt(net, s) : e = BoardEdge(net, p[1], p[2])
    BY <1>3
  <2>2. p[1] \in DOMAIN net.routes /\ p[2] \in DOMAIN net.routes[p[1]].stops
        /\ net.routes[p[1]].stops[p[2]] = s
    BY <1>1, StopsAre DEF StopsAt
  <2>3. RouteNode(net, p[1], p[2]) \in Nodes(net)
    BY <1>1, <2>2, NodesAre
  <2> QED BY <2>1, <2>2, <2>3 DEF BoardEdge, Edge, RouteNode
<1>4. CASE e = ToFootEdge(s)
  BY <1>4 DEF ToFootEdge, Edge, FootNode
<1> QED BY <1>2, <1>3, <1>4 DEF StationEdges

LEMMA GenerateIs ==
  ASSUME Prepared, NEW b \in Nat, NEW e \in Nat
  PROVE  Generate(b, e) \in Seq(StartPlaces) /\ ToSet(Generate(b, e)) = StartsIn(b, e)
<1>1. CASE query.kind # "pretrip"
  <2> DEFINE s == [node |-> OntripNode, time |-> b]
  <2>1. s \in StartPlaces
    BY <1>1, OntripNodeIs DEF StartPlaces
  <2>2. Generate(b, e) = <<s>> /\ StartsIn(b, e) = {s}
    BY <1>1 DEF Generate, StartsIn
  <2> HIDE DEF s
  <2>3. <<s>> \in Seq({s}) /\ ToSet(<<s>>) = {s}
    BY ToSetOne
  <2>4. <<s>> \in Seq(StartPlaces)
    BY <2>1
  <2> QED BY <2>2, <2>3, <2>4
<1>2. CASE query.kind = "pretrip"
  <2> DEFINE out == edges[StationNode(query.from)]
             For(k) == IF out[k].type = "FOOT" /\ out[k].to.kind = "route"
                       THEN StartsAt(out[k].to, b, e) ELSE <<>>
             ss == [k \in DOMAIN out |-> For(k)]
             V == {v \in Nodes(net) : v.kind = "route" /\ v.station = query.from}
  <2>1. Generate(b, e) = FlattenSeq(ss)
    BY <1>2 DEF Generate, PretripStarts
  <2>2. out \in Seq(ToSet(out))
    <3>1. out \in Seq(StationEdges(net, query.from))
      BY <1>2, PretripQuery, EdgesAt DEF Prepared
    <3> QED BY <3>1, ToSetSeq
  <2>3. DOMAIN out = 1..Len(out) /\ Len(out) \in Nat /\ \A k \in 1..Len(out) : out[k] \in ToSet(out)
    BY <2>2, LenProperties, ElementOfSeq
  <2>4. StartPlaces = [node : V, time : Nat]
    BY <1>2 DEF StartPlaces
  <2>5. ASSUME NEW k \in 1..Len(out) PROVE For(k) \in Seq(StartPlaces)
    <3>1. CASE out[k].type = "FOOT" /\ out[k].to.kind = "route"
      <4> DEFINE v == out[k].to
                 T == {[node |-> v, time |-> t] : t \in DeparturesIn(v, b, e)}
      <4>1. v \in V
        BY <1>2, <2>3, <3>1, StartStopsAre
      <4>2. DeparturesIn(v, b, e) \subseteq Nat
        <5>1. DeparturesIn(v, b, e) \subseteq b..e
          BY DEF DeparturesIn
        <5> QED BY <5>1
      <4> HIDE DEF v, V
      <4>3. T \subseteq StartPlaces
        BY <2>4, <4>1, <4>2
      <4>4. StartsAt(v, b, e) \in Seq(T)
        BY StartsAtAre
      <4> HIDE DEF T
      <4>5. StartsAt(v, b, e) \in Seq(StartPlaces)
        BY <4>3, <4>4, SeqMonotonic
      <4> QED BY <3>1, <4>5 DEF v
    <3>2. CASE ~(out[k].type = "FOOT" /\ out[k].to.kind = "route")
      <4>1. For(k) = <<>>
        BY <3>2
      <4>2. <<>> \in Seq(StartPlaces)
        OBVIOUS
      <4> HIDE DEF For
      <4> QED BY <4>1, <4>2
    <3> QED BY <3>1, <3>2
  <2>6. DOMAIN ss = 1..Len(out) /\ \A k \in 1..Len(out) : ss[k] = For(k)
    BY <2>3
  <2>7. ss \in Seq(Seq(StartPlaces))
    <3>1. ss \in [1..Len(out) -> Seq(StartPlaces)]
      <4> HIDE DEF For
      <4> QED BY <2>3, <2>5
    <3> HIDE DEF ss
    <3> QED BY <2>3, <3>1, FunctionSeq
  <2>8. ASSUME NEW s \in StartsIn(b, e) PROVE \E k \in 1..Len(out) : s \in ToSet(For(k))
    <3>1. PICK v \in StartStops : s \in {[node |-> v, time |-> t] : t \in DeparturesIn(v, b, e)}
      BY <1>2 DEF StartsIn
    <3>2. PICK x \in ToSet(out) : x.type = "FOOT" /\ x.to.kind = "route" /\ v = x.to
      BY DEF StartStops
    <3>3. PICK k \in 1..Len(out) : x = out[k]
      BY <2>3 DEF ToSet
    <3>4. For(k) = StartsAt(v, b, e)
      BY <3>2, <3>3
    <3>5. s \in ToSet(StartsAt(v, b, e))
      BY <3>1, StartsAtAre
    <3> QED BY <3>4, <3>5
  <2>11. ASSUME NEW k \in 1..Len(out), NEW s \in ToSet(For(k)) PROVE s \in StartsIn(b, e)
    <3>1. CASE out[k].type = "FOOT" /\ out[k].to.kind = "route"
      <4> DEFINE v == out[k].to
                 T == {[node |-> v, time |-> t] : t \in DeparturesIn(v, b, e)}
      <4>1. v \in StartStops
        <5>1. out[k] \in ToSet(out)
          BY <2>3
        <5> QED BY <3>1, <5>1 DEF StartStops
      <4>2. For(k) = StartsAt(v, b, e)
        BY <3>1
      <4> HIDE DEF v, For
      <4>3. ToSet(StartsAt(v, b, e)) = T
        BY StartsAtAre
      <4>4. s \in T
        BY <2>11, <4>2, <4>3
      <4> QED BY <1>2, <4>1, <4>4 DEF StartsIn
    <3>2. CASE ~(out[k].type = "FOOT" /\ out[k].to.kind = "route")
      <4>1. For(k) = <<>>
        BY <3>2
      <4> HIDE DEF For
      <4> QED BY <2>11, <4>1, ToSetEmpty
    <3> QED BY <3>1, <3>2
  <2> HIDE DEF ss, For
  <2>9. FlattenSeq(ss) \in Seq(StartPlaces) /\ ToSet(FlattenSeq(ss)) = UNION {ToSet(ss[k]) : k \in DOMAIN ss}
    BY <2>7, FlattenSeqIs
  <2>10. StartsIn(b, e) = UNION {ToSet(ss[k]) : k \in DOMAIN ss}
    BY <2>6, <2>8, <2>11
  <2> QED BY <2>1, <2>9, <2>10
<1> QED BY <1>1, <1>2

(* The interval grows within the schedule, and the starts it gains are     *)
(* generated.                                                              *)
LEMMA MapIs ==
  ASSUME NEW t \in Int
  PROVE  /\ MapToInterval(t) \in ScheduleBegin..ScheduleEnd
         /\ t \in ScheduleBegin..ScheduleEnd => MapToInterval(t) = t
         /\ t <= ScheduleBegin => MapToInterval(t) = ScheduleBegin
         /\ ScheduleEnd <= t => MapToInterval(t) = ScheduleEnd
<1> DEFINE m == Max({ScheduleBegin, t})
<1>1. ScheduleBegin \in Nat /\ ScheduleEnd \in Nat /\ ScheduleBegin <= ScheduleEnd
  BY RoutingAssumption
<1>2. m = IF t < ScheduleBegin THEN ScheduleBegin ELSE t
  <2>1. Max({ScheduleBegin, t}) \in {ScheduleBegin, t} /\ \A y \in {ScheduleBegin, t} : Max({ScheduleBegin, t}) >= y
    <3> DEFINE S == {ScheduleBegin, t}
               w == IF t < ScheduleBegin THEN ScheduleBegin ELSE t
    <3>1. w \in S /\ \A y \in S : w >= y
      BY <1>1
    <3> QED BY <3>1 DEF Max
  <2> QED BY <1>1, <2>1
<1> HIDE DEF m
<1>3. m \in Int
  BY <1>1, <1>2
<1>4. Min({ScheduleEnd, m}) = IF m < ScheduleEnd THEN m ELSE ScheduleEnd
  <2>1. Min({ScheduleEnd, m}) \in {ScheduleEnd, m} /\ \A y \in {ScheduleEnd, m} : Min({ScheduleEnd, m}) <= y
    <3> DEFINE S == {ScheduleEnd, m}
               w == IF m < ScheduleEnd THEN m ELSE ScheduleEnd
    <3>1. w \in S /\ \A y \in S : w <= y
      BY <1>1, <1>3
    <3> QED BY <3>1 DEF Min
  <2> QED BY <1>1, <1>3, <2>1
<1>5. MapToInterval(t) = IF m < ScheduleEnd THEN m ELSE ScheduleEnd
  BY <1>4 DEF MapToInterval, m
<1> QED BY <1>1, <1>2, <1>5

LEMMA WidenedIs ==
  ASSUME Prepared, interval.begin \in ScheduleBegin..ScheduleEnd,
         interval.end \in ScheduleBegin..ScheduleEnd, interval.begin <= interval.end
  PROVE  /\ Widened = Interval(Widened.begin, Widened.end)
         /\ Widened.begin <= interval.begin /\ interval.end <= Widened.end
         /\ Widened.begin \in ScheduleBegin..ScheduleEnd /\ Widened.end \in ScheduleBegin..ScheduleEnd
         /\ NewStarts \in Seq(StartPlaces)
         /\ query.kind = "pretrip" =>
              StartsIn(Widened.begin, Widened.end)
                \subseteq StartsIn(interval.begin, interval.end) \cup ToSet(NewStarts)
<1> DEFINE b == interval.begin
           e == interval.end
           B == Widened.begin
           E == Widened.end
           early == IF b # ScheduleBegin THEN Generate(B, MapToInterval(b - 1)) ELSE <<>>
           late == IF e # ScheduleEnd THEN Generate(MapToInterval(e + 1), E) ELSE <<>>
<1>1. ScheduleBegin \in Nat /\ ScheduleEnd \in Nat /\ ScheduleBegin <= ScheduleEnd /\ Extension \in Nat
      /\ b \in Nat /\ e \in Nat /\ b \in Int /\ e \in Int /\ b <= e
      /\ b - Extension \in Int /\ e + Extension \in Int
  BY RoutingAssumption
<1>2. Widened = Interval(B, E) /\ B \in ScheduleBegin..ScheduleEnd /\ E \in ScheduleBegin..ScheduleEnd
  BY <1>1, MapIs DEF Widened, Interval
<1>8. B <= b
  <2>1. B = IF query.earlier THEN MapToInterval(b - Extension) ELSE b
    BY DEF Widened, Interval
  <2>2. PICK t : t = b - Extension
    OBVIOUS
  <2>3. MapToInterval(t) <= b
    <3>1. PICK m : m = MapToInterval(t)
      OBVIOUS
    <3>2. t \in Int
      BY <1>1, <2>2
    <3>3. t \in ScheduleBegin..ScheduleEnd => m = t
      BY <3>1, <3>2, MapIs
    <3>4. t <= ScheduleBegin => m = ScheduleBegin
      BY <3>1, <3>2, MapIs
    <3>5. t <= b
      BY <1>1, <2>2
    <3> QED BY <1>1, <3>1, <3>2, <3>3, <3>4, <3>5
  <2> HIDE DEF b, B
  <2> QED BY <1>1, <2>1, <2>2, <2>3
<1>9. e <= E
  <2>1. E = IF query.later THEN MapToInterval(e + Extension) ELSE e
    BY DEF Widened, Interval
  <2>2. PICK t : t = e + Extension
    OBVIOUS
  <2>3. e <= MapToInterval(t)
    <3>1. PICK m : m = MapToInterval(t)
      OBVIOUS
    <3>2. t \in Int
      BY <1>1, <2>2
    <3>3. t \in ScheduleBegin..ScheduleEnd => m = t
      BY <3>1, <3>2, MapIs
    <3>4. ScheduleEnd <= t => m = ScheduleEnd
      BY <3>1, <3>2, MapIs
    <3>5. e <= t
      BY <1>1, <2>2
    <3> QED BY <1>1, <3>1, <3>2, <3>3, <3>4, <3>5
  <2> HIDE DEF e, E
  <2> QED BY <1>1, <2>1, <2>2, <2>3
<1>3. NewStarts = early \o late
  BY DEF NewStarts
<1>4. MapToInterval(b - 1) \in Nat /\ MapToInterval(e + 1) \in Nat /\ B \in Nat /\ E \in Nat
  <2>1. \A x \in ScheduleBegin..ScheduleEnd : x \in Nat
    BY <1>1
  <2> HIDE DEF B, E
  <2> QED BY <1>1, <1>2, <2>1, MapIs
<1> HIDE DEF B, E
<1>5. early \in Seq(StartPlaces) /\ late \in Seq(StartPlaces)
  <2>1. <<>> \in Seq(StartPlaces)
    OBVIOUS
  <2>2. Generate(B, MapToInterval(b - 1)) \in Seq(StartPlaces)
    BY <1>4, GenerateIs
  <2>3. Generate(MapToInterval(e + 1), E) \in Seq(StartPlaces)
    BY <1>4, GenerateIs
  <2> QED BY <2>1, <2>2, <2>3, Zenon
<1>6. NewStarts \in Seq(StartPlaces) /\ ToSet(NewStarts) = ToSet(early) \cup ToSet(late)
  <2> HIDE DEF early, late
  <2> QED BY <1>3, <1>5, ToSetConcat
<1>7. ASSUME query.kind = "pretrip", NEW s \in StartsIn(B, E)
      PROVE  s \in StartsIn(b, e) \/ s \in ToSet(early) \/ s \in ToSet(late)
  <2>1. PICK v \in StartStops : s \in {[node |-> v, time |-> t] : t \in DeparturesIn(v, B, E)}
    BY <1>7 DEF StartsIn
  <2>2. PICK t \in DeparturesIn(v, B, E) : s = [node |-> v, time |-> t]
    BY <2>1
  <2>3. t \in B..E
    BY DEF DeparturesIn
  <2>4. \A x \in Nat, y \in Nat : B <= x /\ t \in x..y => s \in StartsIn(x, y)
    <3> SUFFICES ASSUME NEW x \in Nat, NEW y \in Nat, B <= x, t \in x..y PROVE s \in StartsIn(x, y)
      OBVIOUS
    <3>2. \A u \in x..t : u \in B..t
      BY <1>1, <1>4, <2>3
    <3>1. t \in DeparturesIn(v, x, y)
      BY <3>2 DEF DeparturesIn
    <3> QED BY <1>7, <2>2, <3>1 DEF StartsIn
  <2>5. CASE t \in b..e
    BY <1>1, <1>8, <2>4, <2>5
  <2>6. CASE t < b
    <3>1. b # ScheduleBegin /\ b - 1 \in ScheduleBegin..ScheduleEnd /\ b - 1 \in Int /\ t \in B..(b - 1)
          /\ B <= B
      BY <1>1, <1>2, <1>4, <2>3, <2>6
    <3>2. MapToInterval(b - 1) = b - 1
      BY <3>1, MapIs
    <3>3. early = Generate(B, b - 1) /\ b - 1 \in Nat
      BY <1>4, <3>1, <3>2
    <3>4. s \in StartsIn(B, b - 1)
      BY <1>4, <2>4, <3>1, <3>3
    <3> QED BY <1>4, <3>3, <3>4, GenerateIs
  <2>7. CASE e < t
    <3>1. e # ScheduleEnd /\ e + 1 \in ScheduleBegin..ScheduleEnd /\ e + 1 \in Int /\ t \in (e + 1)..E
          /\ B <= e + 1
      BY <1>1, <1>2, <1>4, <1>8, <2>3, <2>7
    <3>2. MapToInterval(e + 1) = e + 1
      BY <3>1, MapIs
    <3>3. late = Generate(e + 1, E) /\ e + 1 \in Nat
      BY <1>4, <3>1, <3>2
    <3>4. s \in StartsIn(e + 1, E)
      BY <1>4, <2>4, <3>1, <3>3
    <3> QED BY <1>4, <3>3, <3>4, GenerateIs
  <2> QED BY <1>1, <1>4, <2>3, <2>5, <2>6, <2>7
<1> QED BY <1>2, <1>6, <1>7, <1>8, <1>9 DEF B, E
----------------------------------------------------------------------------
(* What a step of the search leaves of what it knows                       *)

LEMMA LbIs ==
  ASSUME Prepared
  PROVE  /\ \A v \in Nodes(net) : /\ lb.transfers[LbNode(v)] \in Nat /\ lb.travel[v.station] \in Nat
                                  /\ v.station \in 1..net.stations
         /\ Goal \in Nodes(net) /\ Goal.station = query.to
         /\ lb.transfers[LbNode(Goal)] = 0 /\ lb.travel[Goal.station] = 0
<1> DEFINE D == StationGraphBounds(net, query.to)
           E == InterchangeGraphBounds(net, query.to)
<1>1. IsNetwork(net) /\ DifferentMinutes(net) /\ query.to \in 1..net.stations
      /\ lb.travel = D /\ lb.transfers = E
  BY DEF Prepared, IsQuery
<1> HIDE DEF D, E
<1>2. (\A s \in 1..net.stations : D[s] \in Nat) /\ D[query.to] = 0
  BY <1>1, TravelBounds DEF D
<1>3. (\A s \in 1..(net.stations + Len(net.routes)) : E[s] \in Nat) /\ E[query.to] = 0
  BY <1>1, TransferBounds DEF E
<1>4. Goal \in Nodes(net) /\ Goal.station = query.to /\ LbNode(Goal) = query.to
  BY <1>1, NodesAre DEF Goal, StationNode, LbNode
<1>5. ASSUME NEW v \in Nodes(net)
      PROVE  v.station \in 1..net.stations /\ LbNode(v) \in 1..(net.stations + Len(net.routes))
  <2>0. net.stations \in Nat /\ Len(net.routes) \in Nat /\ DOMAIN net.routes = 1..Len(net.routes)
    BY <1>1, RouteDomain
  <2>1. CASE \E s \in 1..net.stations : v = StationNode(s)
    BY <2>0, <2>1 DEF StationNode, LbNode
  <2>2. CASE \E s \in 1..net.stations : v = FootNode(s)
    BY <2>0, <2>2 DEF FootNode, LbNode
  <2>3. CASE \E r \in DOMAIN net.routes : \E i \in DOMAIN net.routes[r].stops : v = RouteNode(net, r, i)
    <3>1. PICK r \in DOMAIN net.routes : \E i \in DOMAIN net.routes[r].stops : v = RouteNode(net, r, i)
      BY <2>3
    <3>2. PICK i \in DOMAIN net.routes[r].stops : v = RouteNode(net, r, i)
      BY <3>1
    <3>3. net.routes[r].stops[i] \in 1..net.stations
      BY <1>1, RouteIs
    <3>4. v.station = net.routes[r].stops[i] /\ LbNode(v) = net.stations + r
      BY <3>2 DEF RouteNode, LbNode
    <3> QED BY <2>0, <3>3, <3>4
  <2> QED BY <1>1, <2>1, <2>2, <2>3, NodesAre
<1> QED BY <1>1, <1>2, <1>3, <1>4, <1>5

LEMMA DominatesIs ==
  ASSUME Prepared, NEW a, NEW b, GoodLabel(a), GoodLabel(b), Dominates(a, b)
  PROVE  /\ a.node = b.node => AtLeastAsGood(a, b)
         /\ a.node = Goal => /\ b.start <= a.start /\ a.now <= b.now
                             /\ a.transfers <= b.transfers + lb.transfers[LbNode(b.node)]
<1>1. /\ a.node \in Nodes(net) /\ b.node \in Nodes(net)
      /\ a.transfers \in Nat /\ b.transfers \in Nat
  BY DEF GoodLabel
<1>2. /\ b.start <= a.start /\ a.now <= b.now
      /\ a.transfers + lb.transfers[LbNode(a.node)] <= b.transfers + lb.transfers[LbNode(b.node)]
  BY DEF Dominates, Comparable, TransfersLb
<1>3. lb.transfers[LbNode(a.node)] \in Nat /\ lb.transfers[LbNode(b.node)] \in Nat
      /\ lb.transfers[LbNode(Goal)] = 0
  BY <1>1, LbIs
<1> QED BY <1>1, <1>2, <1>3 DEF AtLeastAsGood

(* The label create_label makes.                                           *)
LEMMA AlongIs ==
  ASSUME Prepared, NEW a, GoodLabel(LabelAt(a)), LabelAt(a).node # Goal,
         NEW e \in ToSet(edges[LabelAt(a).node]), CostAlong(LabelAt(a), e).valid
  PROVE  /\ GoodLabel(Along(a, e)) /\ StepFrom(LabelAt(a), Along(a, e))
         /\ Along(a, e).pred = a /\ Along(a, e).node = e.to
<1> DEFINE l == LabelAt(a)
           v == l.node
           cost == CostAlong(l, e)
           m == Along(a, e)
           free == e.from.station = query.to /\ e.to = StationNode(query.to)
<1>1. /\ v \in Nodes(net) /\ l.start \in Nat /\ l.now \in Nat /\ l.transfers \in Nat
      /\ l.start <= l.now /\ (TimePasses(net) => l.start < l.now \/ v.station = Origin(net, query))
  BY DEF GoodLabel
<1>2. IsNetwork(net) /\ IsEdge(net, v, e) /\ Origin(net, query) # query.to /\ edges = Edges(net)
      /\ DifferentMinutes(net)
  BY <1>1, EdgeIs DEF Prepared, IsQuery
<1>3. /\ m.pred = a /\ m.node = e.to /\ m.train = cost.train /\ m.start = l.start
      /\ m.now = l.now + (IF free THEN 0 ELSE cost.time)
      /\ m.transfers = l.transfers + (IF cost.transfer THEN 1 ELSE 0)
  BY DEF Along, Label, LabelAt
<1>4. CASE e.type = "ROUTE"
  <2>1. cost = EdgeCost(e, l.now, l.train)
    BY DEF CostAlong
  <2> DEFINE c == GetConnection(e.row, l.now)
  <2>2. EdgeCost(e, l.now, l.train) =
          IF c = None THEN NoEdge
          ELSE [valid |-> TRUE, time |-> c.arr - l.now, transfer |-> FALSE, train |-> c]
    BY <1>4 DEF EdgeCost
  <2> HIDE DEF c, cost
  <2>3. c # None /\ cost.time = c.arr - l.now /\ cost.train = c /\ cost.transfer = FALSE
    BY <2>1, <2>2 DEF NoEdge, cost
  <2>4. AlongRoute(net, v, e)
    BY <1>2, <1>4 DEF IsEdge
  <2>5. PICK r \in DOMAIN net.routes : \E i \in Sections(net, r) :
          e.to = RouteNode(net, r, i + 1) /\ e.row = Row(net, r, i)
    BY <2>4 DEF AlongRoute
  <2>6. PICK i \in Sections(net, r) : e.to = RouteNode(net, r, i + 1) /\ e.row = Row(net, r, i)
    BY <2>5
  <2>7. IsRow(e.row, SectionsOf(net, r, i))
    BY <1>2, <2>6, RowIs
  <2>8. \E x \in SectionsOf(net, r, i) : \E d \in x.days : Runs(x, d, l.now) /\ c = On(x, d)
    BY <1>1, <2>3, <2>7, GetConnectionIs DEF c
  <2>9. PICK x \in SectionsOf(net, r, i) : \E d \in x.days : Runs(x, d, l.now) /\ c = On(x, d)
    BY <2>8
  <2>10. PICK d \in x.days : Runs(x, d, l.now) /\ c = On(x, d)
    BY <2>9
  <2>11. IsSection(x) /\ d \in Nat
    BY <2>7 DEF IsRow, IsSection
  <2>12. c.dep \in Nat /\ c.arr \in Nat /\ c.dep <= c.arr /\ l.now <= c.dep
    BY <2>10, <2>11, OnIs DEF Runs, On
  <2>19. TimePasses(net) => c.dep < c.arr
    BY <1>2, <2>9, <2>10, <2>11, TimeOn
  <2>13. ~free
    BY <2>6 DEF RouteNode, StationNode
  <2> HIDE DEF free
  <2>14. m.now = l.now + (c.arr - l.now) /\ m.transfers = l.transfers
    BY <1>1, <1>3, <2>3, <2>13
  <2> HIDE DEF l, m, v
  <2>15. m.now = c.arr /\ m.now \in Nat /\ l.now <= m.now /\ (TimePasses(net) => l.now < m.now)
    BY <1>1, <2>12, <2>14, <2>19
  <2>16. e.to \in Nodes(net) /\ m.train # None
    BY <1>2, <1>3, <2>3 DEF IsEdge
  <2>17. GoodLabel(m)
    BY <1>1, <1>3, <2>14, <2>15, <2>16 DEF GoodLabel
  <2>18. StepFrom(l, m)
    BY <1>1, <1>3, <1>4, <2>14, <2>15, <2>16 DEF StepFrom, l, v
  <2> QED BY <1>3, <2>17, <2>18 DEF l, m, v
<1>5. CASE e.type # "ROUTE"
  <2>1. cost.time = e.time /\ cost.transfer = e.transfer /\ cost.train = None
    BY <1>5 DEF CostAlong, EdgeCost, NoEdge
  <2>2. e.time \in Nat /\ e.to \in Nodes(net) /\ e.from = v
        /\ (e.to.station = v.station \/ (TimePasses(net) => e.time # 0))
    BY <1>2, <1>5 DEF IsEdge
  <2>3. free => v.station = query.to
    BY <2>2
  <2> HIDE DEF free, cost, l, m, v
  <2>4. m.now \in Nat /\ l.now <= m.now /\ m.transfers \in Nat /\ l.transfers <= m.transfers
    BY <1>1, <1>3, <2>1, <2>2
  <2>5. ASSUME TimePasses(net) PROVE m.start < m.now \/ m.node.station = Origin(net, query)
    <3>1. CASE l.start < l.now
      BY <1>1, <1>3, <2>4, <3>1
    <3>2. CASE ~(l.start < l.now)
      <4>1. v.station = Origin(net, query) /\ ~free
        BY <1>1, <1>2, <2>3, <2>5, <3>2
      <4>2. CASE e.to.station = v.station
        BY <1>3, <4>1, <4>2
      <4>3. CASE e.time # 0
        <5>1. m.now = l.now + e.time
          BY <1>3, <2>1, <4>1
        <5> QED BY <1>1, <1>3, <2>2, <4>3, <5>1
      <4> QED BY <2>2, <2>5, <4>2, <4>3
    <3> QED BY <3>1, <3>2
  <2>6. GoodLabel(m)
    BY <1>1, <1>3, <2>2, <2>4, <2>5 DEF GoodLabel
  <2>7. StepFrom(l, m)
    BY <1>1, <1>3, <1>5, <2>1, <2>4 DEF StepFrom, l, v
  <2> QED BY <1>3, <2>6, <2>7 DEF l, m, v
<1> QED BY <1>4, <1>5

LEMMA AliveUse ==
  ASSUME NEW m, NEW w, NEW r, NEW k, NEW t, Alive(m, w, r, k, t)
  PROVE  /\ r \cup k \cup w \subseteq LiveIn(m) /\ Memory(m)
         /\ t # NoAddress => t \in LiveIn(m)
         /\ \A a \in LiveIn(m) : m.label[a].pred # NoAddress => m.label[a].pred \in LiveIn(m)
BY DEF Alive, LiveIn

LEMMA InUse ==
  ASSUME IInv
  PROVE  /\ results \cup kept \cup Queued \subseteq LiveIn(mem)
         /\ at # NoAddress => at \in LiveIn(mem)
         /\ \A a \in LiveIn(mem) : LabelAt(a).pred # NoAddress => LabelAt(a).pred \in LiveIn(mem)
         /\ Memory(mem)
BY DEF IInv, Alive, LiveIn, LabelAt

LEMMA TimesOf ==
  ASSUME IInv, Places
  PROVE  /\ \A j \in Answers : Times(j)
         /\ \A a \in LiveIn(mem) : Times(LabelAt(a)) /\ LabelAt(a).node \in Nodes(net)
<1>1. \A a \in LiveIn(mem) : Times(LabelAt(a)) /\ LabelAt(a).node \in Nodes(net)
  BY DEF Places, GoodLabel, Times
<1>2. ASSUME NEW j \in Answers PROVE Times(j)
  <2>1. CASE \E r \in results : j = AsJourney(LabelAt(r))
    <3>1. PICK r \in results : j = AsJourney(LabelAt(r))
      BY <2>1
    <3>2. Times(LabelAt(r))
      BY <1>1, InUse
    <3> QED BY <3>1, <3>2 DEF Times, AsJourney
  <2>2. CASE \E d \in dropped : j = AsJourney(d)
    BY <2>2 DEF Places, Times, AsJourney
  <2> QED BY <2>1, <2>2 DEF Answers, Found
<1> QED BY <1>1, <1>2

LEMMA StaysServed ==
  ASSUME IInv, Places, Prepared, UNCHANGED <<net, lb>>, AnswersImprove, KeptImprove
  PROVE  Steady
<1> SUFFICES ASSUME NEW v \in Nodes(net), NEW s \in Nat, NEW t \in Nat, NEW x \in Nat
             PROVE  /\ AnsweredAt(v, s, t, x) => AnsweredAt(v, s, t, x)'
                    /\ ServedAt(v, s, t, x) => ServedAt(v, s, t, x)'
  BY DEF Steady
<1> DEFINE h == lb.transfers[LbNode(v)]
<1>1. h \in Nat /\ h' = h
  BY LbIs DEF LbNode
<1>2. ASSUME AnsweredAt(v, s, t, x) PROVE AnsweredAt(v, s, t, x)'
  <2>1. PICK j \in Answers : s <= j.start /\ j.now <= t /\ j.transfers <= x + h
    BY <1>2 DEF AnsweredAt
  <2>2. PICK k \in Answers' : Times(k) /\ AtLeastAsGood(k, j)
    BY DEF AnswersImprove
  <2>3. Times(j)
    BY TimesOf
  <2> HIDE DEF h
  <2>4. s <= k.start /\ k.now <= t /\ k.transfers <= x + h
    BY <1>1, <2>1, <2>2, <2>3 DEF Times, AtLeastAsGood
  <2> QED BY <1>1, <2>2, <2>4 DEF AnsweredAt, h
<1>3. ASSUME KeptAt(v, s, t, x) PROVE KeptAt(v, s, t, x)'
  <2>1. PICK b \in kept : /\ LabelAt(b).node = v /\ s <= LabelAt(b).start
                          /\ LabelAt(b).now <= t /\ LabelAt(b).transfers <= x
    BY <1>3 DEF KeptAt
  <2>2. PICK c \in kept' : /\ Times(LabelAt(c)') /\ LabelAt(c)'.node = LabelAt(b).node
                           /\ AtLeastAsGood(LabelAt(c)', LabelAt(b))
    BY DEF KeptImprove
  <2>3. Times(LabelAt(b))
    BY InUse, TimesOf
  <2>4. /\ LabelAt(c)'.node = v /\ s <= LabelAt(c)'.start
        /\ LabelAt(c)'.now <= t /\ LabelAt(c)'.transfers <= x
    BY <2>1, <2>2, <2>3 DEF Times, AtLeastAsGood
  <2> QED BY <2>2, <2>4 DEF KeptAt
<1> QED BY <1>2, <1>3 DEF ServedAt

LEMMA LikeIs ==
  ASSUME NEW l, NEW k, Like(l, k)
  PROVE  AsJourney(k) = AsJourney(l) /\ \A x : AtLeastAsGood(x, k) <=> AtLeastAsGood(x, l)
BY DEF Like, AsJourney, AtLeastAsGood

(* Labels that are not new, their origin and what is relaxed.              *)
LEMMA StayLike ==
  ASSUME IInv, IInv', Places, Prepared, Origins, UNCHANGED problem, NEW N,
         KeepsLabels(mem, mem', N), Steady
  PROVE  \A a \in LiveIn(mem') \ N :
           /\ a \in LiveIn(mem) /\ Like(LabelAt(a), LabelAt(a)')
           /\ GoodLabel(LabelAt(a))' /\ OriginOf(LabelAt(a))'
           /\ \A e : Relaxed(a, e) /\ e \in ToSet(edges[LabelAt(a).node]) /\ LabelAt(a).node # Goal
                       => Relaxed(a, e)'
<1> SUFFICES ASSUME NEW a \in LiveIn(mem') \ N
             PROVE  /\ a \in LiveIn(mem) /\ Like(LabelAt(a), LabelAt(a)')
                    /\ GoodLabel(LabelAt(a))' /\ OriginOf(LabelAt(a))'
                    /\ \A e : Relaxed(a, e) /\ e \in ToSet(edges[LabelAt(a).node])
                                /\ LabelAt(a).node # Goal => Relaxed(a, e)'
  OBVIOUS
<1> DEFINE l == LabelAt(a)
           k == LabelAt(a)'
<1>1. net' = net /\ query' = query /\ edges' = edges /\ lb' = lb
  BY DEF problem
<1>2. a \in LiveIn(mem) /\ Like(l, k) /\ k = mem'.label[a]
  BY DEF KeepsLabels, LabelAt
<1>3. /\ k.pred = l.pred /\ k.node = l.node /\ k.train = l.train /\ k.start = l.start
      /\ k.now = l.now /\ k.transfers = l.transfers
  BY <1>2 DEF Like
<1>4. GoodLabel(l) /\ l.node \in Nodes(net) /\ l.start \in Nat /\ l.now \in Nat /\ l.transfers \in Nat
  BY <1>2 DEF Places, GoodLabel
<1>5. GoodLabel(l)'
  BY <1>1, <1>3, <1>4 DEF GoodLabel
<1>p. PICK p : p = l.pred
  OBVIOUS
<1>6. ASSUME p # NoAddress
      PROVE  /\ p \in LiveIn(mem) /\ p \in LiveIn(mem') \ N /\ Like(LabelAt(p), LabelAt(p)')
  <2>1. p \in LiveIn(mem)
    BY <1>2, <1>6, <1>p, InUse
  <2>2. Alive(mem', Queued', results', kept', at')
    BY DEF IInv
  <2>4. p \in LiveIn(mem')
    BY <1>2, <1>3, <1>6, <1>p, <2>2, AliveUse
  <2> QED BY <2>1, <2>4 DEF KeepsLabels, LabelAt
<1>7. OriginOf(l)'
  <2>0. l'.pred = p
    BY <1>3, <1>p
  <2>1. OriginOf(l)
    BY <1>2 DEF Origins, OriginOf
  <2>2. CASE p = NoAddress
    BY <1>1, <1>3, <1>p, <2>0, <2>1, <2>2 DEF OriginOf, OntripNode
  <2>3. CASE p # NoAddress /\ PretripStart(l) /\ LabelAt(p).node = StationNode(query.from)
    <3>1. LabelAt(p)'.node = LabelAt(p).node
      BY <1>6, <2>3 DEF Like
    <3>2. LabelAt(p)'.node = StationNode(query.from)
      BY <2>3, <3>1
    <3>3. PretripStart(l)'
      BY <1>1, <1>3, <2>3 DEF PretripStart
    <3> QED BY <1>1, <2>0, <2>3, <3>2, <3>3 DEF OriginOf
  <2>4. CASE p # NoAddress /\ StepFrom(LabelAt(p), l) /\ Served(LabelAt(p))
    <3> DEFINE q == LabelAt(p)
               u == LabelAt(p)'
    <3>1. /\ u.node = q.node /\ u.start = q.start /\ u.now = q.now /\ u.transfers = q.transfers
          /\ p \in LiveIn(mem)
      BY <1>6, <2>4 DEF Like
    <3>2. Times(q) /\ q.node \in Nodes(net)
      BY <3>1, TimesOf
    <3>3. ServedAt(q.node, q.start, q.now, q.transfers)
      BY <2>4 DEF Served
    <3>4. \A v \in Nodes(net), s \in Nat, t \in Nat, x \in Nat : ServedAt(v, s, t, x) => ServedAt(v, s, t, x)'
      BY DEF Steady
    <3> HIDE DEF q
    <3>6. PICK v, s, t, x : v = q.node /\ s = q.start /\ t = q.now /\ x = q.transfers
      OBVIOUS
    <3>7. ServedAt(v, s, t, x)'
      BY <3>2, <3>3, <3>4, <3>6 DEF Times
    <3>8. Served(LabelAt(p))'
      BY <3>1, <3>6, <3>7 DEF Served, ServedAt, AnsweredAt, KeptAt
    <3>9. StepFrom(LabelAt(p), l)'
      BY <1>1, <1>3, <2>4, <3>1 DEF StepFrom, Goal, q
    <3> QED BY <2>0, <2>4, <3>8, <3>9 DEF OriginOf
  <2> QED BY <1>p, <2>1, <2>2, <2>3, <2>4 DEF OriginOf
<1>8. ASSUME NEW e \in ToSet(edges[l.node]), Relaxed(a, e), l.node # Goal PROVE Relaxed(a, e)'
  <2>1. Along(a, e)' = Along(a, e)
    BY <1>1, <1>3 DEF Along, CostAlong, LabelAt, Label
  <2>2. SUFFICES ASSUME Creates(a, e)' PROVE Served(Along(a, e))'
    BY DEF Relaxed
  <2>3. CostAlong(l, e) = CostAlong(l, e)'
    BY <1>3 DEF CostAlong
  <2>4. Creates(a, e)
    <3>1. CostAlong(l, e).valid
      BY <2>2, <2>3 DEF Creates, LabelAt
    <3>2. ~Filtered(Along(a, e))
      <4>1. ~Filtered(Along(a, e))'
        BY <2>2 DEF Creates
      <4> HIDE DEF l, k
      <4> QED BY <1>1, <2>1, <4>1 DEF Filtered, TravelTimeLb, TravelTime, TransfersLb, LbNode
    <3>3. p # NoAddress => e.to # LabelAt(p).node
      <4> SUFFICES ASSUME p # NoAddress PROVE e.to # LabelAt(p).node
        OBVIOUS
      <4>1. LabelAt(p).node = LabelAt(p)'.node
        BY <1>6 DEF Like
      <4>2. e.to # mem'.label[p].node
        BY <1>2, <1>3, <1>p, <2>2 DEF Creates
      <4> QED BY <4>1, <4>2 DEF LabelAt
    <3> QED BY <1>p, <3>1, <3>2, <3>3 DEF Creates, LabelAt
  <2>5. Served(Along(a, e))
    BY <1>8, <2>4 DEF Relaxed
  <2>6. GoodLabel(Along(a, e))
    BY <1>4, <1>8, <2>4, AlongIs DEF Creates, LabelAt
  <2>7. PICK m : m = Along(a, e)
    OBVIOUS
  <2>8. \A v \in Nodes(net), s \in Nat, t \in Nat, x \in Nat : ServedAt(v, s, t, x) => ServedAt(v, s, t, x)'
    BY DEF Steady
  <2>9. ServedAt(m.node, m.start, m.now, m.transfers)'
    BY <2>5, <2>6, <2>7, <2>8 DEF Served, GoodLabel
  <2> QED BY <2>1, <2>7, <2>9 DEF Served, ServedAt, AnsweredAt, KeptAt
<1> QED BY <1>2, <1>5, <1>7, <1>8

LEMMA ReleaseKeeps ==
  ASSUME NEW m, Memory(m), NEW order \in Seq(1..Len(m.label))
  PROVE  LiveIn(Release(m, order)) \subseteq LiveIn(m) /\ Release(m, order).label = m.label
<1>1. Release(m, order).label = m.label /\ Release(m, order).free = order \o m.free
  BY ReleaseLive
<1>2. m.free \in Seq(1..Len(m.label))
  BY DEF Memory
<1>3. ToSet(order \o m.free) = ToSet(order) \cup ToSet(m.free)
  BY <1>2, ToSetConcat
<1> QED BY <1>1, <1>3 DEF LiveIn

LEMMA OrderIs ==
  ASSUME NEW L \in Nat, NEW gone \in SUBSET (1..L), NEW order \in SetToSeqs(gone)
  PROVE  order \in Seq(1..L)
<1>1. IsFiniteSet(gone)
  <2>1. IsFiniteSet(1..L)
    BY FS_Interval
  <2> QED BY <2>1, FS_Subset
<1>2. Cardinality(gone) \in Nat
  BY <1>1, FS_CardinalityType
<1>3. order \in [1..Cardinality(gone) -> gone]
  BY DEF SetToSeqs
<1>4. order \in Seq(gone)
  BY <1>2, <1>3, FunctionSeq
<1> QED BY <1>4, SeqMonotonic

LEMMA CreateKeeps ==
  ASSUME NEW m, Memory(m), NEW l, IsLabel(l)
  PROVE  KeepsLabels(m, Create(m, l), {NextAddress(m)})
BY CreateLive DEF KeepsLabels, Like

LEMMA KeepsMore ==
  ASSUME NEW m, NEW c, NEW k, NEW N, KeepsLabels(m, c, N), LiveIn(k) \subseteq LiveIn(c),
         \A a \in LiveIn(k) : Like(c.label[a], k.label[a])
  PROVE  KeepsLabels(m, k, N)
<1>1. ASSUME NEW a \in LiveIn(k) \ N PROVE a \in LiveIn(m) /\ Like(m.label[a], k.label[a])
  <2>1. a \in LiveIn(m) /\ Like(m.label[a], c.label[a]) /\ Like(c.label[a], k.label[a])
    BY DEF KeepsLabels
  <2> QED BY <2>1 DEF Like
<1> QED BY <1>1 DEF KeepsLabels

LEMMA AnswersStay ==
  ASSUME IInv, IInv', Places, NEW N, KeepsLabels(mem, mem', N), dropped \subseteq dropped',
         \A r \in results : \/ r \in results'
                            \/ \E k \in Answers' : Times(k) /\ AtLeastAsGood(k, LabelAt(r))
  PROVE  AnswersImprove
<1> SUFFICES ASSUME NEW j \in Answers PROVE \E k \in Answers' : Times(k) /\ AtLeastAsGood(k, j)
  BY DEF AnswersImprove
<1>1. Times(j)
  BY TimesOf
<1>2. AtLeastAsGood(j, j)
  BY <1>1 DEF Times, AtLeastAsGood
<1>3. CASE \E r \in results : j = AsJourney(LabelAt(r))
  <2>1. PICK r \in results : j = AsJourney(LabelAt(r))
    BY <1>3
  <2>2. CASE r \in results'
    <3>1. Alive(mem', Queued', results', kept', at')
      BY DEF IInv
    <3>2. r \in LiveIn(mem) /\ r \in LiveIn(mem')
      BY <2>2, <3>1, AliveUse, InUse
    <3>3. Like(LabelAt(r), LabelAt(r)')
      BY <3>2 DEF KeepsLabels, LabelAt
    <3>4. AsJourney(LabelAt(r)') = j
      BY <2>1, <3>3, LikeIs
    <3>5. AsJourney(LabelAt(r)') \in Answers'
      BY <2>2 DEF Answers, Found, LabelAt
    <3> QED BY <1>1, <1>2, <3>4, <3>5
  <2>3. CASE \E k \in Answers' : Times(k) /\ AtLeastAsGood(k, LabelAt(r))
    <3>1. PICK k \in Answers' : Times(k) /\ AtLeastAsGood(k, LabelAt(r))
      BY <2>3
    <3>2. AtLeastAsGood(k, j)
      BY <2>1, <3>1 DEF AtLeastAsGood, AsJourney
    <3> QED BY <3>1, <3>2
  <2> QED BY <2>2, <2>3
<1>4. CASE \E d \in dropped : j = AsJourney(d)
  <2>1. j \in Answers'
    BY <1>4 DEF Answers
  <2> QED BY <1>1, <1>2, <2>1
<1> QED BY <1>3, <1>4 DEF Answers, Found

LEMMA ResultsStay ==
  ASSUME IInv, IInv', Places, NEW N, KeepsLabels(mem, mem', N),
         \A r \in results : \/ r \in results'
                            \/ \E k \in Found' : Times(k) /\ AtLeastAsGood(k, LabelAt(r))
  PROVE  ResultsImprove
<1> SUFFICES ASSUME NEW r \in results, NEW j, j = AsJourney(LabelAt(r))
             PROVE  \E k \in Found' : Times(k) /\ AtLeastAsGood(k, j)
  BY DEF ResultsImprove, Found
<1>1. r \in LiveIn(mem)
  BY InUse
<1>2. Times(j) /\ AtLeastAsGood(j, j)
  BY <1>1, TimesOf DEF Times, AsJourney, AtLeastAsGood
<1>3. CASE r \in results'
  <2>1. Alive(mem', Queued', results', kept', at')
    BY DEF IInv
  <2>2. r \in LiveIn(mem')
    BY <1>3, <2>1, AliveUse
  <2>3. Like(LabelAt(r), LabelAt(r)')
    BY <1>1, <2>2 DEF KeepsLabels, LabelAt
  <2>4. AsJourney(LabelAt(r)') = j
    BY <2>3, LikeIs
  <2>5. AsJourney(LabelAt(r)') \in Found'
    BY <1>3 DEF Found, LabelAt
  <2> QED BY <1>2, <2>4, <2>5
<1>4. CASE \E k \in Found' : Times(k) /\ AtLeastAsGood(k, LabelAt(r))
  <2>1. PICK k \in Found' : Times(k) /\ AtLeastAsGood(k, LabelAt(r))
    BY <1>4
  <2>2. AtLeastAsGood(k, j)
    BY <2>1 DEF AtLeastAsGood, AsJourney
  <2> QED BY <2>1, <2>2
<1> QED BY <1>3, <1>4

LEMMA KeptStay ==
  ASSUME IInv, IInv', Places, NEW N, KeepsLabels(mem, mem', N),
         \A b \in kept :
           \/ b \in kept'
           \/ \E c \in kept' : /\ Times(LabelAt(c)') /\ LabelAt(c)'.node = LabelAt(b).node
                               /\ AtLeastAsGood(LabelAt(c)', LabelAt(b))
  PROVE  KeptImprove
<1> SUFFICES ASSUME NEW b \in kept, b \in kept'
             PROVE  \E c \in kept' : /\ Times(LabelAt(c)') /\ LabelAt(c)'.node = LabelAt(b).node
                                     /\ AtLeastAsGood(LabelAt(c)', LabelAt(b))
  BY DEF KeptImprove
<1>1. Alive(mem', Queued', results', kept', at')
  BY DEF IInv
<1>2. b \in LiveIn(mem) /\ b \in LiveIn(mem')
  BY <1>1, AliveUse, InUse
<1>3. Like(LabelAt(b), LabelAt(b)')
  BY <1>2 DEF KeepsLabels, LabelAt
<1>4. Times(LabelAt(b))
  BY <1>2, TimesOf
<1> QED BY <1>3, <1>4 DEF Times, Like, AtLeastAsGood

LEMMA Carried ==
  ASSUME IInv, IInv', CInv, UNCHANGED problem, NEW N, KeepsLabels(mem, mem', N),
         AnswersImprove, KeptImprove,
         \A a \in N : a \in LiveIn(mem') => GoodLabel(LabelAt(a))' /\ (Steady => OriginOf(LabelAt(a))')
  PROVE  Carry
<1>1. Prepared /\ Places /\ Origins
  BY DEF CInv
<1>2. net' = net /\ query' = query /\ edges' = edges /\ lb' = lb
  BY DEF problem
<1>3. Prepared'
  BY <1>1, <1>2 DEF Prepared
<1>4. Steady
  BY <1>1, <1>2, StaysServed
<1>5. \A a \in LiveIn(mem') \ N :
        /\ a \in LiveIn(mem) /\ Like(LabelAt(a), LabelAt(a)')
        /\ GoodLabel(LabelAt(a))' /\ OriginOf(LabelAt(a))'
        /\ \A e : Relaxed(a, e) /\ e \in ToSet(edges[LabelAt(a).node]) /\ LabelAt(a).node # Goal
                    => Relaxed(a, e)'
  BY <1>1, <1>4, StayLike
<1>6. \A a \in LiveIn(mem') : GoodLabel(LabelAt(a))' /\ OriginOf(LabelAt(a))'
  BY <1>4, <1>5
<1>7. Origins'
  BY <1>6 DEF Origins, OriginOf
<1>a. \A v \in Nodes(net), s \in Nat, t \in Nat, x \in Nat :
        /\ AnsweredAt(v, s, t, x) => AnsweredAt(v, s, t, x)'
        /\ ServedAt(v, s, t, x) => ServedAt(v, s, t, x)'
  BY <1>4 DEF Steady
<1>8. ASSUME NEW s \in StartPlaces, Begins(s) PROVE Begins(s)'
  <2>1. s.node \in Nodes(net) /\ s.time \in Nat
    BY DEF StartPlaces
  <2>2. CASE ServedAt(s.node, s.time, s.time, 0)
    BY <1>a, <2>1, <2>2 DEF Begins
  <2>3. CASE Filtered(Label(NoAddress, s.node, None, s.time, s.time, 0))
    BY <1>2, <2>3 DEF Begins, Filtered, TravelTimeLb, TravelTime, TransfersLb, LbNode
  <2> QED BY <1>8, <2>2, <2>3 DEF Begins
<1>b. N \cap LiveIn(mem) = {}
  BY DEF KeepsLabels
<1>9. ASSUME NEW a \in LiveIn(mem) \cap LiveIn(mem')
      PROVE  /\ Served(LabelAt(a)) => Served(LabelAt(a))'
             /\ LET l == LabelAt(a) IN
                AnsweredAt(l.node, l.start, l.now, l.transfers) => AnsweredAt(l.node, l.start, l.now, l.transfers)'
  <2>1. Like(LabelAt(a), LabelAt(a)')
    BY <1>5, <1>b
  <2>2. Times(LabelAt(a)) /\ LabelAt(a).node \in Nodes(net)
    BY <1>1, TimesOf
  <2>3. PICK v, s, t, x : v = LabelAt(a).node /\ s = LabelAt(a).start /\ t = LabelAt(a).now
                          /\ x = LabelAt(a).transfers
    OBVIOUS
  <2>4. /\ AnsweredAt(v, s, t, x) => AnsweredAt(v, s, t, x)'
        /\ ServedAt(v, s, t, x) => ServedAt(v, s, t, x)'
    BY <1>a, <2>2, <2>3 DEF Times
  <2>5. v = LabelAt(a)'.node /\ s = LabelAt(a)'.start /\ t = LabelAt(a)'.now /\ x = LabelAt(a)'.transfers
    BY <2>1, <2>3 DEF Like
  <2>6. ASSUME Served(LabelAt(a)) PROVE Served(LabelAt(a))'
    <3>1. ServedAt(v, s, t, x)'
      BY <2>3, <2>4, <2>6 DEF Served
    <3> QED BY <2>5, <3>1 DEF Served, ServedAt, AnsweredAt, KeptAt
  <2>7. ASSUME AnsweredAt(LabelAt(a).node, LabelAt(a).start, LabelAt(a).now, LabelAt(a).transfers)
        PROVE  AnsweredAt(LabelAt(a).node, LabelAt(a).start, LabelAt(a).now, LabelAt(a).transfers)'
    <3>1. AnsweredAt(v, s, t, x)'
      BY <2>3, <2>4, <2>7
    <3> QED BY <2>5, <3>1 DEF AnsweredAt
  <2> QED BY <2>6, <2>7
<1>10. ASSUME NEW a \in kept \cap kept'
       PROVE  /\ a \in LiveIn(mem) \cap LiveIn(mem')
              /\ \A e \in ToSet(edges[LabelAt(a).node]) : Relaxed(a, e) => Relaxed(a, e)'
  <2>1. Alive(mem', Queued', results', kept', at')
    BY DEF IInv
  <2>2. a \in LiveIn(mem) /\ a \in LiveIn(mem')
    BY <2>1, AliveUse, InUse
  <2>3. LabelAt(a).node # Goal
    BY <1>1 DEF Places
  <2> QED BY <1>5, <1>b, <2>2, <2>3
<1>11. \A a \in LiveIn(mem) \cap LiveIn(mem') : Like(LabelAt(a), LabelAt(a)')
  BY <1>5, <1>b
<1> QED BY <1>3, <1>4, <1>6, <1>7, <1>8, <1>9, <1>10, <1>11 DEF Carry

LEMMA ExploredStays ==
  ASSUME IInv, IInv', CInv, UNCHANGED problem, Carry,
         NEW a \in (kept \cap kept') \ Queued,
         a = at => \A e \in ToSet(todo) : (a = at' /\ e \in ToSet(todo')) \/ Relaxed(a, e)'
  PROVE  ExploredOne(a)'
<1>1. Alive(mem', Queued', results', kept', at')
  BY DEF IInv
<1>2. a \in LiveIn(mem) /\ a \in LiveIn(mem')
  BY <1>1, AliveUse, InUse
<1>3. Like(LabelAt(a), LabelAt(a)') /\ edges' = edges
  BY <1>2 DEF Carry, problem
<1>4. ExploredOne(a)
  BY DEF CInv, Explored, ExploredOne
<1>5. CASE LET l == LabelAt(a) IN AnsweredAt(l.node, l.start, l.now, l.transfers)
  <2>1. LET l == LabelAt(a) IN AnsweredAt(l.node, l.start, l.now, l.transfers)'
    BY <1>2, <1>5 DEF Carry
  <2> QED BY <2>1 DEF ExploredOne
<1>6. CASE \A e \in ToSet(edges[LabelAt(a).node]) : (a = at /\ e \in ToSet(todo)) \/ Relaxed(a, e)
  <2> SUFFICES ASSUME NEW e \in ToSet(edges[LabelAt(a).node])
               PROVE  (a = at' /\ e \in ToSet(todo')) \/ Relaxed(a, e)'
    BY <1>3 DEF ExploredOne, Like
  <2> QED BY <1>6 DEF Carry
<1> QED BY <1>4, <1>5, <1>6 DEF ExploredOne

LEMMA StartsInPlaces ==
  ASSUME Prepared, Clocks
  PROVE  StartsIn(interval.begin, interval.end) \subseteq StartPlaces
<1>1. interval.begin \in Nat /\ interval.end \in Nat
  BY RoutingAssumption DEF Clocks
<1>2. PICK s : s = Generate(interval.begin, interval.end)
  OBVIOUS
<1>3. s \in Seq(StartPlaces) /\ StartsIn(interval.begin, interval.end) \subseteq ToSet(s)
  BY <1>1, <1>2, GenerateIs
<1> QED BY <1>3, ToSetSeq

(* What is left to show for a step that is no extension.                   *)
LEMMA StepKeeps ==
  ASSUME IInv, IInv', CInv, UNCHANGED <<problem, interval>>, Carry, Clocks',
         \A s \in ToSet(starts) : s \in ToSet(starts') \/ Begins(s)',
         \A a \in kept' \ kept : a \in Queued' /\ LabelAt(a)'.node # Goal,
         \A a \in results' \ results : LabelAt(a)'.node = Goal,
         Queued' \subseteq Queued \cup kept',
         \A a \in (Queued' \cap kept) \ kept' : LabelAt(a)'.dominated,
         \A d \in dropped' \ dropped :
           d.start \in Nat /\ d.now \in Nat /\ d.transfers \in Nat /\ d.start <= d.now,
         \A a \in kept \cap kept' : a \notin Queued' => ExploredOne(a)',
         \A t : t = at' /\ t # NoAddress =>
           /\ t \in LiveIn(mem) /\ LabelAt(t).node # Goal /\ Served(LabelAt(t))
           /\ todo' \in Seq(ToSet(edges[LabelAt(t).node]))
  PROVE  CInv'
<1>1. net' = net /\ query' = query /\ edges' = edges /\ lb' = lb /\ interval' = interval
  BY DEF problem
<1>2. Alive(mem', Queued', results', kept', at')
  BY DEF IInv
<1>3. Prepared /\ Clocks /\ Places /\ Explored /\ Begun
  BY DEF CInv
<1>4. results' \cup kept' \cup Queued' \subseteq LiveIn(mem') /\ (at' # NoAddress => at' \in LiveIn(mem'))
  BY <1>2, AliveUse
<1>5. results \cup kept \cup Queued \subseteq LiveIn(mem)
  BY InUse
<1>6. \A a \in LiveIn(mem) \cap LiveIn(mem') : Like(LabelAt(a), LabelAt(a)')
  BY DEF Carry
<1>7. Goal' = Goal
  BY <1>1 DEF Goal
<1>8. Places'
  <2>1. \A a \in LiveIn(mem') : GoodLabel(LabelAt(a))'
    BY DEF Carry
  <2>2. ASSUME NEW a \in kept' PROVE LabelAt(a)'.node # Goal
    <3>1. CASE a \in kept
      BY <1>3, <1>4, <1>5, <1>6, <3>1 DEF Places, Like
    <3> QED BY <3>1
  <2>3. ASSUME NEW a \in results' PROVE LabelAt(a)'.node = Goal
    <3>1. CASE a \in results
      BY <1>3, <1>4, <1>5, <1>6, <3>1 DEF Places, Like
    <3> QED BY <3>1
  <2>4. ASSUME NEW a \in Queued' PROVE LabelAt(a)'.dominated \/ a \in kept'
    <3>1. CASE a \in Queued /\ a \notin kept
      <4>1. LabelAt(a).dominated
        BY <1>3, <3>1 DEF Places
      <4> QED BY <1>4, <1>5, <1>6, <3>1, <4>1 DEF Like
    <3> QED BY <3>1
  <2>5. \A d \in dropped' : d.start \in Nat /\ d.now \in Nat /\ d.transfers \in Nat /\ d.start <= d.now
    BY <1>3 DEF Places
  <2>6. PICK t : t = at'
    OBVIOUS
  <2>7. ASSUME t # NoAddress
        PROVE  /\ LabelAt(t)'.node # Goal /\ Served(LabelAt(t))'
               /\ todo' \in Seq(ToSet(edges[LabelAt(t)'.node]))
    <3>1. /\ t \in LiveIn(mem) /\ LabelAt(t).node # Goal /\ Served(LabelAt(t))
          /\ todo' \in Seq(ToSet(edges[LabelAt(t).node]))
      BY <2>6, <2>7
    <3>2. t \in LiveIn(mem')
      BY <1>4, <2>6, <2>7
    <3>3. LabelAt(t)'.node = LabelAt(t).node
      BY <1>6, <3>1, <3>2 DEF Like
    <3>4. Served(LabelAt(t))'
      BY <3>1, <3>2 DEF Carry
    <3> QED BY <3>1, <3>3, <3>4
  <2>8. at' # NoAddress =>
          /\ LabelAt(at)'.node # Goal /\ Served(LabelAt(at))'
          /\ todo' \in Seq(ToSet(edges[LabelAt(at)'.node]))
    BY <2>6, <2>7 DEF LabelAt, Served, ServedAt, AnsweredAt, KeptAt
  <2> QED BY <1>1, <1>7, <2>1, <2>2, <2>3, <2>4, <2>5, <2>8 DEF Places
<1>9. Explored'
  <2> SUFFICES ASSUME NEW a \in kept', a \notin Queued' PROVE ExploredOne(a)'
    BY DEF Explored, ExploredOne
  <2> QED OBVIOUS
<1>10. Begun'
  <2>1. StartsIn(interval.begin, interval.end)' = StartsIn(interval.begin, interval.end)
    BY <1>1 DEF StartsIn, StartStops, DeparturesIn, OntripNode
  <2> SUFFICES ASSUME NEW s \in StartsIn(interval.begin, interval.end)
               PROVE  s \in ToSet(starts') \/ Begins(s)'
    BY <2>1 DEF Begun
  <2>2. s \in StartPlaces
    BY <1>3, StartsInPlaces
  <2>3. s \in ToSet(starts) \/ Begins(s)
    BY <1>3 DEF Begun
  <2> QED BY <2>2, <2>3 DEF Carry
<1> QED BY <1>8, <1>9, <1>10 DEF Carry, CInv
----------------------------------------------------------------------------
(* The steps and what the search knows                                     *)

LEMMA HeadAndTail ==
  ASSUME NEW S, NEW s \in Seq(S), s # <<>>
  PROVE  /\ Tail(s) \in Seq(S) /\ Head(s) \in S
         /\ ToSet(s) = {Head(s)} \cup ToSet(Tail(s))
<1>1. DOMAIN s = 1..Len(s) /\ Len(s) \in Nat /\ Len(s) # 0
  BY LenProperties, EmptySeq
<1>2. /\ Tail(s) \in Seq(S) /\ Len(Tail(s)) = Len(s) - 1 /\ Head(s) = s[1]
      /\ \A i \in 1..(Len(s) - 1) : Tail(s)[i] = s[i + 1]
  BY <1>1, HeadTailProperties
<1>3. ToSet(Tail(s)) = {s[i] : i \in 2..Len(s)}
  <2>1. ToSet(Tail(s)) = {s[i + 1] : i \in 1..(Len(s) - 1)}
    BY <1>1, <1>2, LenProperties DEF ToSet
  <2>2. \A i \in 2..Len(s) : i - 1 \in 1..(Len(s) - 1) /\ s[(i - 1) + 1] = s[i]
    BY <1>1
  <2>3. \A i \in 1..(Len(s) - 1) : i + 1 \in 2..Len(s)
    BY <1>1
  <2> QED BY <2>1, <2>2, <2>3
<1>4. ToSet(s) = {s[i] : i \in 2..Len(s)} \cup {s[1]}
  BY <1>1 DEF ToSet
<1>5. s[1] \in S
  BY <1>1, ElementOfSeq
<1> QED BY <1>2, <1>3, <1>4, <1>5

(* The edge being relaxed and the label create_label makes of it.          *)
LEMMA AtWork ==
  ASSUME IInv, CInv, Relaxing
  PROVE  LET E == ToSet(edges[LabelAt(at).node]) IN
         /\ at # NoAddress /\ at \in LiveIn(mem) /\ LabelAt(at).node # Goal /\ Served(LabelAt(at))
         /\ Head(todo) \in E /\ todo' \in Seq(E) /\ ToSet(todo) = {Head(todo)} \cup ToSet(todo')
         /\ NewLabel.pred = at /\ IsLabel(NewLabel) /\ ~NewLabel.dominated
         /\ Creates(at, Head(todo)) =>
              /\ GoodLabel(NewLabel) /\ StepFrom(LabelAt(at), NewLabel)
              /\ NewLabel.node = Head(todo).to
<1> DEFINE E == ToSet(edges[LabelAt(at).node])
<1>1. at # NoAddress /\ at \in LiveIn(mem)
  BY InUse DEF IInv, Relaxing
<1>2. LabelAt(at).node # Goal /\ Served(LabelAt(at)) /\ todo \in Seq(E)
  BY <1>1 DEF CInv, Places
<1>3. todo # <<>> /\ todo' = Tail(todo)
  BY DEF Relaxing
<1> HIDE DEF E
<1>4. Head(todo) \in E /\ todo' \in Seq(E) /\ ToSet(todo) = {Head(todo)} \cup ToSet(todo')
  BY <1>2, <1>3, HeadAndTail
<1>5. NewLabel.pred = at /\ IsLabel(NewLabel) /\ ~NewLabel.dominated
  BY NewLabelIsLabel DEF NewLabel
<1>6. ASSUME Creates(at, Head(todo))
      PROVE  /\ GoodLabel(NewLabel) /\ StepFrom(LabelAt(at), NewLabel)
             /\ NewLabel.node = Head(todo).to
  <2>1. GoodLabel(LabelAt(at)) /\ Prepared
    BY <1>1 DEF CInv, Places
  <2>2. CostAlong(LabelAt(at), Head(todo)).valid
    BY <1>6 DEF Creates, LabelAt
  <2> QED BY <1>2, <1>4, <2>1, <2>2, AlongIs DEF NewLabel, E
<1> QED BY <1>1, <1>2, <1>4, <1>5, <1>6 DEF E

LEMMA NewOrigin ==
  ASSUME IInv, IInv', CInv, Relaxing, Creates(at, Head(todo)), NEW N, KeepsLabels(mem, mem', N),
         Steady, NEW a, Like(NewLabel, mem'.label[a])
  PROVE  GoodLabel(LabelAt(a))' /\ OriginOf(LabelAt(a))'
<1>1. net' = net /\ query' = query /\ edges' = edges /\ lb' = lb /\ at' = at
  BY DEF Relaxing, problem
<1> DEFINE k == LabelAt(a)'
<1>2. /\ k.pred = NewLabel.pred /\ k.node = NewLabel.node /\ k.train = NewLabel.train
      /\ k.start = NewLabel.start /\ k.now = NewLabel.now /\ k.transfers = NewLabel.transfers
  BY DEF Like, LabelAt
<1>3. GoodLabel(NewLabel) /\ StepFrom(LabelAt(at), NewLabel) /\ NewLabel.pred = at /\ at # NoAddress
      /\ at \in LiveIn(mem) /\ Served(LabelAt(at))
  BY AtWork
<1>4. GoodLabel(LabelAt(a))'
  BY <1>1, <1>2, <1>3 DEF GoodLabel
<1>5. PICK p : p = at
  OBVIOUS
<1>6. p \in LiveIn(mem) /\ p \in LiveIn(mem') \ N
  <2>1. Alive(mem', Queued', results', kept', at')
    BY DEF IInv
  <2>2. p \in LiveIn(mem')
    BY <1>1, <1>3, <1>5, <2>1, AliveUse
  <2> QED BY <1>3, <1>5, <2>2 DEF KeepsLabels
<1>7. Like(LabelAt(p), LabelAt(p)')
  BY <1>6 DEF KeepsLabels, LabelAt
<1>8. Served(LabelAt(p))'
  <2>1. PICK v, s, t, x : v = LabelAt(p).node /\ s = LabelAt(p).start /\ t = LabelAt(p).now
                          /\ x = LabelAt(p).transfers
    OBVIOUS
  <2>2. Times(LabelAt(p)) /\ LabelAt(p).node \in Nodes(net)
    BY <1>6, TimesOf DEF CInv
  <2>3. ServedAt(v, s, t, x)
    BY <1>3, <1>5, <2>1 DEF Served
  <2>4. ServedAt(v, s, t, x)'
    BY <2>1, <2>2, <2>3 DEF Steady, Times
  <2>5. v = LabelAt(p)'.node /\ s = LabelAt(p)'.start /\ t = LabelAt(p)'.now /\ x = LabelAt(p)'.transfers
    BY <1>7, <2>1 DEF Like
  <2> QED BY <2>4, <2>5 DEF Served, ServedAt, AnsweredAt, KeptAt
<1>9. StepFrom(LabelAt(p), LabelAt(a))'
  BY <1>1, <1>2, <1>3, <1>5, <1>7 DEF StepFrom, Goal, Like
<1>10. k.pred = p /\ p # NoAddress
  BY <1>2, <1>3, <1>5
<1>11. OriginOf(LabelAt(a))'
  BY <1>8, <1>9, <1>10 DEF OriginOf
<1> QED BY <1>4, <1>11

(* The waiting labels, the free ones and the memory of a new label.        *)
LEMMA CreatedKeeps ==
  ASSUME IInv, CInv, Relaxing
  PROVE  LET c == Create(mem, NewLabel)
             n == NewAddress
         IN /\ Memory(c) /\ KeepsLabels(mem, c, {n}) /\ c.label[n] = NewLabel
            /\ n \notin LiveIn(mem) /\ n # NoAddress /\ n \in 1..Len(c.label) /\ Len(c.label) \in Nat
            /\ 1..Len(mem.label) \subseteq 1..Len(c.label)
<1>1. Memory(mem) /\ IsLabel(NewLabel)
  BY InUse, AtWork
<1>2. Len(Create(mem, NewLabel).label) \in Nat
  BY <1>1, CreateMemory
<1> QED BY <1>1, <1>2, CreateLive, CreateKeeps DEF NewAddress

LEMMA LastingIs ==
  ASSUME KeptImprove, NEW N, KeepsLabels(mem, mem', N)
  PROVE  Lasting
BY DEF Lasting, KeepsLabels, LabelAt

LEMMA NoLabelKeeps ==
  IInv /\ IInv' /\ CInv /\ NoLabel => CInv' /\ ResultsImprove /\ Lasting /\ Grows
<1> SUFFICES ASSUME IInv, IInv', CInv, NoLabel PROVE CInv' /\ ResultsImprove /\ Lasting /\ Grows
  OBVIOUS
<1>1. Relaxing /\ UNCHANGED <<problem, interval, pc, starts, at, dropped, mem, kept, queue, equals, results>>
      /\ ~Creates(at, Head(todo))
  BY DEF NoLabel, Relaxing
<1>2. KeepsLabels(mem, mem', {})
  BY <1>1 DEF KeepsLabels, Like
<1>3. AnswersImprove /\ KeptImprove
  <2>1. Places
    BY DEF CInv
  <2> QED BY <1>1, <1>2, <2>1, AnswersStay, KeptStay
<1>4. Carry
  BY <1>1, <1>2, <1>3, Carried
<1>5. Queued' = Queued
  BY <1>1 DEF Queued
<1>6. Clocks'
  BY <1>1 DEF CInv, Clocks, StartPlaces, problem, OntripNode
<1>7. Relaxed(at, Head(todo))
  BY <1>1 DEF Relaxed
<1>8. ASSUME NEW a \in kept \cap kept', a \notin Queued' PROVE ExploredOne(a)'
  <2>1. a = at => \A e \in ToSet(todo) : (a = at' /\ e \in ToSet(todo')) \/ Relaxed(a, e)'
    <3> SUFFICES ASSUME a = at, NEW e \in ToSet(todo), e = Head(todo) PROVE Relaxed(a, e)'
      BY <1>1, AtWork
    <3>1. Relaxed(a, e) /\ e \in ToSet(edges[LabelAt(a).node])
      BY <1>1, <1>7, AtWork
    <3> QED BY <1>4, <3>1 DEF Carry
  <2> QED BY <1>1, <1>4, <1>5, <1>8, <2>1, ExploredStays
<1>9. \A t : t = at' /\ t # NoAddress =>
           /\ t \in LiveIn(mem) /\ LabelAt(t).node # Goal /\ Served(LabelAt(t))
           /\ todo' \in Seq(ToSet(edges[LabelAt(t).node]))
  BY <1>1, AtWork
<1>r. ResultsImprove
  BY <1>1, <1>2, ResultsStay DEF CInv
<1>10. Lasting /\ Grows
  <2>1. Grows
    BY <1>1, <1>5 DEF Grows
  <2> QED BY <1>2, <1>3, <2>1, LastingIs
<1> QED BY <1>1, <1>r, <1>4, <1>5, <1>6, <1>8, <1>9, <1>10, StepKeeps

(* Steps that only turn to something else.                                 *)
LEMMA QuietKeeps ==
  ASSUME IInv, IInv', CInv,
         UNCHANGED <<problem, interval, starts, mem, kept, queue, equals, results, dropped>>,
         pc' \in {"search", "filter", "extend"} =>
           pc \in {"search", "filter", "extend"} \/ starts = <<>>,
         \/ UNCHANGED <<at, todo>>
         \/ at' = NoAddress /\ todo = <<>>
  PROVE  CInv'
<1>2. KeepsLabels(mem, mem', {})
  BY DEF KeepsLabels, Like
<1>3. AnswersImprove /\ KeptImprove
  BY <1>2, AnswersStay, KeptStay DEF CInv
<1>4. Carry
  BY <1>2, <1>3, Carried
<1>5. Queued' = Queued
  BY DEF Queued
<1>6. Clocks'
  BY DEF CInv, Clocks, StartPlaces, problem, OntripNode
<1>7. ASSUME NEW a \in kept \cap kept', a \notin Queued' PROVE ExploredOne(a)'
  <2>1. \A e \in ToSet(todo) : e \in ToSet(todo') /\ at' = at
    BY ToSetEmpty
  <2> QED BY <1>4, <1>5, <1>7, <2>1, ExploredStays
<1>8. \A t : t = at' /\ t # NoAddress =>
           /\ t \in LiveIn(mem) /\ LabelAt(t).node # Goal /\ Served(LabelAt(t))
           /\ todo' \in Seq(ToSet(edges[LabelAt(t).node]))
  BY InUse DEF CInv, Places
<1> QED BY <1>4, <1>5, <1>6, <1>7, <1>8, StepKeeps

LEMMA EraseKeeps == IInv /\ IInv' /\ CInv /\ Erase => CInv'
<1> SUFFICES ASSUME IInv, IInv', CInv, Erase PROVE CInv'
  OBVIOUS
<1>1. PICK b \in results : results' = results \ {b} /\ dropped' = dropped \cup {LabelAt(b)}
  BY DEF Erase, LabelAt
<1>2. UNCHANGED <<problem, interval, pc, starts, mem, kept, queue, equals, at, todo>>
  BY DEF Erase, work
<1>3. KeepsLabels(mem, mem', {})
  BY <1>2 DEF KeepsLabels, Like
<1>4. AnswersImprove /\ KeptImprove
  <2>1. Places
    BY DEF CInv
  <2>2. KeptImprove
    BY <1>2, <1>3, <2>1, KeptStay
  <2>3. ASSUME NEW r \in results, r \notin results'
        PROVE  \E k \in Answers' : Times(k) /\ AtLeastAsGood(k, LabelAt(r))
    <3>1. r = b
      BY <1>1, <2>3
    <3>2. AsJourney(LabelAt(b)) \in Answers'
      BY <1>1 DEF Answers
    <3>3. Times(LabelAt(b))
      BY <2>1, InUse, TimesOf
    <3>4. Times(AsJourney(LabelAt(b))) /\ AtLeastAsGood(AsJourney(LabelAt(b)), LabelAt(b))
      BY <3>3 DEF Times, AtLeastAsGood, AsJourney
    <3> QED BY <3>1, <3>2, <3>4
  <2> QED BY <1>1, <1>3, <2>1, <2>2, <2>3, AnswersStay
<1>5. Carry
  BY <1>2, <1>3, <1>4, Carried
<1>6. Queued' = Queued
  BY <1>2 DEF Queued
<1>7. Clocks'
  BY <1>2 DEF CInv, Clocks, StartPlaces, problem, OntripNode
<1>8. ASSUME NEW a \in kept \cap kept', a \notin Queued' PROVE ExploredOne(a)'
  BY <1>2, <1>5, <1>6, <1>8, ExploredStays
<1>9. \A t : t = at' /\ t # NoAddress =>
           /\ t \in LiveIn(mem) /\ LabelAt(t).node # Goal /\ Served(LabelAt(t))
           /\ todo' \in Seq(ToSet(edges[LabelAt(t).node]))
  BY <1>2, InUse DEF CInv, Places
<1>10. LET d == LabelAt(b) IN d.start \in Nat /\ d.now \in Nat /\ d.transfers \in Nat /\ d.start <= d.now
  BY InUse DEF CInv, Places, GoodLabel
<1> QED BY <1>1, <1>2, <1>5, <1>6, <1>7, <1>8, <1>9, <1>10, StepKeeps

(* A label that a result dominates has an answer.                          *)
LEMMA ByResults ==
  ASSUME IInv, CInv, NEW l, GoodLabel(l), DominatedByResults(l)
  PROVE  AnsweredAt(l.node, l.start, l.now, l.transfers)
<1>1. PICK r \in results : Dominates(LabelAt(r), l)
  BY DEF DominatedByResults, LabelAt
<1>2. Prepared /\ GoodLabel(LabelAt(r)) /\ LabelAt(r).node = Goal
  BY InUse DEF CInv, Places
<1> DEFINE j == AsJourney(LabelAt(r))
<1>3. j \in Answers
  BY DEF Answers, Found
<1>4. j.start = LabelAt(r).start /\ j.now = LabelAt(r).now /\ j.transfers = LabelAt(r).transfers
  BY DEF AsJourney
<1> HIDE DEF j
<1> QED BY <1>1, <1>2, <1>3, <1>4, DominatesIs DEF AnsweredAt

LEMMA PopKeeps == IInv /\ IInv' /\ CInv /\ Pop => CInv' /\ ResultsImprove /\ Lasting /\ Popped
<1> SUFFICES ASSUME IInv, IInv', CInv, Pop PROVE CInv' /\ ResultsImprove /\ Lasting /\ Popped
  OBVIOUS
<1>1. PICK a \in Queued :
        /\ Taken(a)
        /\ IF LabelAt(a).dominated
           THEN mem' = Release(mem, <<a>>) /\ UNCHANGED <<at, todo>>
           ELSE /\ mem' = mem
                /\ \/ /\ UNCHANGED <<at, todo>>
                      /\ DominatedByResults(LabelAt(a)) \/ LabelAt(a).node = Goal
                   \/ at' = a /\ todo' = edges[LabelAt(a).node] /\ LabelAt(a).node # Goal
  BY DEF Pop, Queued, LabelAt, Goal
<1>2. /\ UNCHANGED <<problem, interval, pc, starts, kept, results, dropped>> /\ todo = <<>>
  BY DEF Pop
<1>3. Queued' = Queued \ {a}
  <2>1. CASE equals # <<>> /\ a = Last(equals) /\ equals' = Front(equals) /\ queue' = queue
    <3>1. /\ ToSet(equals') = ToSet(equals) \ {a} /\ a \in ToSet(equals)
      BY <2>1, FrontOnce DEF IInv
    <3> QED
      BY <2>1, <3>1 DEF IInv, Queued
  <2>2. CASE \E k \in DOMAIN queue : a = queue[k] /\ queue' = RemoveAt(queue, k) /\ equals' = equals
    <3>1. PICK k \in DOMAIN queue : a = queue[k] /\ queue' = RemoveAt(queue, k) /\ equals' = equals
      BY <2>2
    <3>2. ToSet(queue') = ToSet(queue) \ {a}
      BY <3>1, RemoveOnce DEF IInv
    <3>3. a \in ToSet(queue)
      BY <3>1 DEF ToSet
    <3> QED
      BY <3>1, <3>2, <3>3 DEF IInv, Queued
  <2> QED
    BY <1>1, <2>1, <2>2 DEF Taken
<1>4. a \in LiveIn(mem) /\ Memory(mem) /\ Places /\ Prepared /\ GoodLabel(LabelAt(a))
  BY InUse DEF CInv, Places
<1>5. KeepsLabels(mem, mem', {})
  <2>1. CASE LabelAt(a).dominated
    <3>1. <<a>> \in Seq(1..Len(mem.label))
      BY <1>4 DEF LiveIn
    <3>2. LiveIn(mem') \subseteq LiveIn(mem) /\ mem'.label = mem.label
      BY <1>1, <1>4, <2>1, <3>1, ReleaseKeeps
    <3> QED BY <3>2 DEF KeepsLabels, Like
  <2>2. CASE ~LabelAt(a).dominated
    BY <1>1, <2>2 DEF KeepsLabels, Like
  <2> QED BY <2>1, <2>2
<1>6. AnswersImprove /\ KeptImprove
  BY <1>2, <1>4, <1>5, AnswersStay, KeptStay
<1>7. Carry
  BY <1>2, <1>5, <1>6, Carried
<1>8. Clocks'
  BY <1>2 DEF CInv, Clocks, StartPlaces, problem, OntripNode
<1>9. ASSUME a \in kept PROVE ~LabelAt(a).dominated /\ LabelAt(a).node # Goal /\ Served(LabelAt(a))
  <2>1. ~LabelAt(a).dominated
    BY <1>9 DEF IInv, Alive, LabelAt
  <2>2. KeptAt(LabelAt(a).node, LabelAt(a).start, LabelAt(a).now, LabelAt(a).transfers)
    BY <1>4, <1>9 DEF KeptAt, GoodLabel
  <2> QED BY <1>4, <1>9, <2>1, <2>2 DEF Places, Served, ServedAt
<1>10. ASSUME NEW b \in kept \cap kept', b \notin Queued' PROVE ExploredOne(b)'
  <2>1. CASE b # a
    BY <1>2, <1>3, <1>7, <1>10, <2>1, ToSetEmpty, ExploredStays
  <2>2. CASE b = a
    <3>1. ~LabelAt(a).dominated /\ LabelAt(a).node # Goal
      BY <1>9, <2>2
    <3>2. CASE DominatedByResults(LabelAt(a))
      <4>1. LET l == LabelAt(b) IN AnsweredAt(l.node, l.start, l.now, l.transfers)
        BY <1>4, <2>2, <3>2, ByResults
      <4>2. b \in LiveIn(mem) /\ b \in LiveIn(mem')
        <5>1. mem' = mem
          BY <1>1, <3>1
        <5> QED BY <1>4, <2>2, <5>1
      <4>3. LET l == LabelAt(b) IN AnsweredAt(l.node, l.start, l.now, l.transfers)'
        BY <1>7, <4>1, <4>2 DEF Carry
      <4> QED BY <4>3 DEF ExploredOne
    <3>3. CASE at' = a /\ todo' = edges[LabelAt(a).node] /\ mem' = mem
      <4>1. edges' = edges
        BY <1>2 DEF problem
      <4>2. LabelAt(b)' = LabelAt(b)
        BY <3>3 DEF LabelAt
      <4>3. ToSet(edges'[LabelAt(b)'.node]) = ToSet(todo') /\ b = at'
        BY <2>2, <3>3, <4>1, <4>2
      <4> QED BY <4>3 DEF ExploredOne
    <3> QED BY <1>1, <3>1, <3>2, <3>3
  <2> QED BY <2>1, <2>2
<1>11. \A t : t = at' /\ t # NoAddress =>
           /\ t \in LiveIn(mem) /\ LabelAt(t).node # Goal /\ Served(LabelAt(t))
           /\ todo' \in Seq(ToSet(edges[LabelAt(t).node]))
  <2>1. CASE UNCHANGED <<at, todo>>
    BY <1>4, <2>1, InUse DEF Places
  <2>2. CASE at' = a /\ todo' = edges[LabelAt(a).node] /\ ~LabelAt(a).dominated /\ LabelAt(a).node # Goal
    <3>1. a \in kept
      BY <1>4, <2>2 DEF Places
    <3>2. Served(LabelAt(a))
      BY <1>9, <3>1
    <3>3. edges[LabelAt(a).node] \in Seq(ToSet(edges[LabelAt(a).node]))
      <4>1. LabelAt(a).node \in Nodes(net) /\ IsNetwork(net) /\ edges = Edges(net)
        BY <1>4 DEF GoodLabel, Prepared
      <4>2. \E S : edges[LabelAt(a).node] \in Seq(S)
        BY <4>1, NodesAre, EdgesAt
      <4> QED BY <4>2, ToSetSeq
    <3> QED BY <1>4, <2>2, <3>2, <3>3
  <2> QED BY <1>1, <2>1, <2>2
<1>12. ResultsImprove
  BY <1>2, <1>4, <1>5, ResultsStay
<1>13. Lasting /\ Popped
  <2>1. UNCHANGED <<at, todo>> \/ (at' = a /\ todo' = edges[LabelAt(a).node])
    BY <1>1
  <2> QED BY <1>3, <1>5, <1>6, <2>1, LastingIs DEF Popped
<1> QED BY <1>2, <1>12, <1>13, <1>3, <1>7, <1>8, <1>10, <1>11, StepKeeps

LEMMA RelaxedAfter ==
  ASSUME IInv, IInv', CInv, Relaxing, NEW N, KeepsLabels(mem, mem', N),
         NEW a, NEW e, a = at, e = Head(todo),
         \A m : m = NewLabel => ServedAt(m.node, m.start, m.now, m.transfers)'
  PROVE  Relaxed(a, e)'
<1>1. net' = net /\ query' = query /\ at' = at
  BY DEF Relaxing, problem
<1>2. Alive(mem', Queued', results', kept', at')
  BY DEF IInv
<1>3. a \in LiveIn(mem) /\ a \in LiveIn(mem') \ N
  BY <1>1, <1>2, AliveUse, AtWork DEF KeepsLabels
<1>4. Like(LabelAt(a), LabelAt(a)')
  BY <1>3 DEF KeepsLabels, LabelAt
<1>5. Along(a, e)' = Along(a, e)
  BY <1>1, <1>4 DEF Along, CostAlong, LabelAt, Label, Like
<1>6. Along(a, e) = NewLabel
  BY DEF NewLabel
<1>7. PICK m : m = NewLabel
  OBVIOUS
<1>8. ServedAt(m.node, m.start, m.now, m.transfers)'
  BY <1>7
<1>9. m = Along(a, e)'
  BY <1>5, <1>6, <1>7
<1>10. Served(Along(a, e))'
  BY <1>8, <1>9 DEF Served, ServedAt, AnsweredAt, KeptAt
<1> QED BY <1>10 DEF Relaxed

(* What is left to show for a step that creates a label at n.              *)
LEMMA CreatedStep ==
  ASSUME IInv, IInv', CInv, Relaxing, Creates(at, Head(todo)), NEW N, KeepsLabels(mem, mem', N),
         \A a \in N : a \in LiveIn(mem') => Like(NewLabel, mem'.label[a]),
         AnswersImprove, KeptImprove,
         \A a \in kept' \ kept : a \in Queued' /\ LabelAt(a)'.node # Goal,
         \A a \in results' \ results : LabelAt(a)'.node = Goal,
         Queued \subseteq Queued', Queued' \subseteq Queued \cup kept',
         \A a \in (Queued' \cap kept) \ kept' : LabelAt(a)'.dominated,
         Carry => \A m : m = NewLabel => ServedAt(m.node, m.start, m.now, m.transfers)'
  PROVE  CInv'
<1>1. UNCHANGED <<problem, interval, pc, starts, at, dropped>>
  BY DEF Relaxing
<1>2. \A a \in N : a \in LiveIn(mem') => GoodLabel(LabelAt(a))' /\ (Steady => OriginOf(LabelAt(a))')
  <2>1. Prepared /\ Places
    BY DEF CInv
  <2>2. Steady
    BY <1>1, <2>1, StaysServed DEF problem
  <2> QED BY <2>2, NewOrigin
<1>3. Carry
  BY <1>1, <1>2, Carried
<1>4. Clocks'
  BY <1>1 DEF CInv, Clocks, StartPlaces, problem, OntripNode
<1>5. ASSUME NEW a \in kept \cap kept', a \notin Queued' PROVE ExploredOne(a)'
  <2>1. a = at => \A e \in ToSet(todo) : (a = at' /\ e \in ToSet(todo')) \/ Relaxed(a, e)'
    <3> SUFFICES ASSUME a = at, NEW e \in ToSet(todo), e = Head(todo) PROVE Relaxed(a, e)'
      BY <1>1, AtWork
    <3> QED BY <1>3, RelaxedAfter
  <2>2. a \notin Queued
    BY <1>5
  <2> QED BY <1>1, <1>3, <2>1, <2>2, ExploredStays
<1>6. \A t : t = at' /\ t # NoAddress =>
           /\ t \in LiveIn(mem) /\ LabelAt(t).node # Goal /\ Served(LabelAt(t))
           /\ todo' \in Seq(ToSet(edges[LabelAt(t).node]))
  BY <1>1, AtWork
<1> QED BY <1>1, <1>3, <1>4, <1>5, <1>6, StepKeeps

LEMMA UselessKeeps ==
  IInv /\ IInv' /\ CInv /\ Useless => CInv' /\ ResultsImprove /\ Lasting /\ Grows
<1> SUFFICES ASSUME IInv, IInv', CInv, Useless PROVE CInv' /\ ResultsImprove /\ Lasting /\ Grows
  OBVIOUS
<1> DEFINE c == Create(mem, NewLabel)
           n == NewAddress
<1>1. /\ Relaxing /\ Creates(at, Head(todo)) /\ DominatedByResults(NewLabel)
      /\ mem' = Release(c, <<n>>) /\ UNCHANGED <<kept, queue, equals, results, dropped>>
  BY DEF Useless, Relaxing
<1>2. /\ Memory(c) /\ KeepsLabels(mem, c, {n}) /\ c.label[n] = NewLabel
      /\ n \in 1..Len(c.label)
  BY <1>1, CreatedKeeps
<1> HIDE DEF c, n
<1>3. LiveIn(mem') \subseteq LiveIn(c) /\ mem'.label = c.label
  <2>1. <<n>> \in Seq(1..Len(c.label))
    BY <1>2
  <2> QED BY <1>1, <1>2, <2>1, ReleaseKeeps
<1>4. KeepsLabels(mem, mem', {n})
  <2>1. \A a \in LiveIn(mem') : Like(c.label[a], mem'.label[a])
    BY <1>3 DEF Like
  <2> QED BY <1>2, <1>3, <2>1, KeepsMore
<1>5. Like(NewLabel, mem'.label[n])
  BY <1>2, <1>3 DEF Like
<1>6. Places
  BY DEF CInv
<1>7. AnswersImprove /\ KeptImprove
  BY <1>1, <1>4, <1>6, AnswersStay, KeptStay
<1>8. Queued' = Queued
  BY <1>1 DEF Queued
<1>9. ASSUME Carry, NEW m, m = NewLabel PROVE ServedAt(m.node, m.start, m.now, m.transfers)'
  <2>1. GoodLabel(m)
    BY <1>1, <1>9, AtWork
  <2>2. AnsweredAt(m.node, m.start, m.now, m.transfers)
    BY <1>1, <1>9, <2>1, ByResults
  <2>3. ServedAt(m.node, m.start, m.now, m.transfers)
    BY <2>2 DEF ServedAt
  <2>4. ServedAt(m.node, m.start, m.now, m.transfers)'
    BY <1>9, <2>1, <2>3 DEF Carry, Steady, GoodLabel
  <2> QED BY <2>4
<1>10. ResultsImprove
  BY <1>1, <1>4, <1>6, ResultsStay
<1>11. Lasting /\ Grows
  <2>1. Grows
    BY <1>1, <1>8 DEF Grows
  <2> QED BY <1>4, <1>7, <2>1, LastingIs
<1> QED BY <1>1, <1>10, <1>11, <1>4, <1>5, <1>7, <1>8, <1>9, CreatedStep

LEMMA BetterStill ==
  ASSUME NEW a, NEW b, NEW c, Times(a), Times(b), Times(c), AtLeastAsGood(a, b), AtLeastAsGood(b, c)
  PROVE  AtLeastAsGood(a, c)
BY DEF Times, AtLeastAsGood

LEMMA AddResultKeeps ==
  IInv /\ IInv' /\ CInv /\ AddResult => CInv' /\ ResultsImprove /\ Lasting /\ Grows
<1> SUFFICES ASSUME IInv, IInv', CInv, AddResult PROVE CInv' /\ ResultsImprove /\ Lasting /\ Grows
  OBVIOUS
<1> DEFINE c == Create(mem, NewLabel)
           n == NewAddress
           stops == {r \in results \ Dominated(results) : Dominates(LabelAt(r), NewLabel)}
<1>1. /\ Relaxing /\ Creates(at, Head(todo)) /\ AtGoal /\ UNCHANGED <<kept, queue, equals, dropped>>
  BY DEF AddResult, Relaxing
<1>2. PICK gone \in SUBSET Dominated(results) :
        /\ \E order \in SetToSeqs(gone) : mem' = Release(c, order)
        /\ results' = (results \ gone) \cup (IF stops = {} THEN {n} ELSE {})
  <2>1. \E gone \in IF stops = {} THEN {Dominated(results)} ELSE SUBSET Dominated(results) :
          /\ \E order \in SetToSeqs(gone) : mem' = Release(c, order)
          /\ results' = (results \ gone) \cup (IF stops = {} THEN {n} ELSE {})
    BY DEF AddResult, LabelAt
  <2> HIDE DEF stops, c, n
  <2> QED BY <2>1
<1>3. PICK order \in SetToSeqs(gone) : mem' = Release(c, order)
  BY <1>2
<1>4. /\ Memory(c) /\ KeepsLabels(mem, c, {n}) /\ c.label[n] = NewLabel
      /\ n \in 1..Len(c.label) /\ Len(c.label) \in Nat /\ 1..Len(mem.label) \subseteq 1..Len(c.label)
  BY <1>1, CreatedKeeps
<1> HIDE DEF c, n
<1>5. gone \subseteq results /\ gone \subseteq 1..Len(c.label)
  BY <1>4, InUse DEF Dominated, LiveIn
<1>6. LiveIn(mem') \subseteq LiveIn(c) /\ mem'.label = c.label
  <2>1. order \in Seq(1..Len(c.label))
    BY <1>4, <1>5, OrderIs
  <2> QED BY <1>3, <1>4, <2>1, ReleaseKeeps
<1>7. KeepsLabels(mem, mem', {n})
  <2>1. \A a \in LiveIn(mem') : Like(c.label[a], mem'.label[a])
    BY <1>6 DEF Like
  <2> QED BY <1>4, <1>6, <2>1, KeepsMore
<1>8. Like(NewLabel, mem'.label[n])
  BY <1>4, <1>6 DEF Like
<1>9. Places /\ Prepared
  BY DEF CInv
<1>10. GoodLabel(NewLabel) /\ NewLabel.node = Goal /\ Times(NewLabel)
  BY <1>1, AtWork DEF AtGoal, Goal, GoodLabel, Times
<1>11. \A r \in results : GoodLabel(LabelAt(r)) /\ LabelAt(r).node = Goal /\ Times(LabelAt(r))
  BY <1>9, InUse DEF Places, GoodLabel, Times
<1>12. \E k \in Found' : Times(k) /\ AtLeastAsGood(k, NewLabel)
  <2>1. CASE stops = {}
    <3>1. n \in results'
      BY <1>2, <2>1
    <3>2. AsJourney(mem'.label[n]) \in Found'
      BY <3>1 DEF Found, LabelAt
    <3>3. Times(AsJourney(mem'.label[n])) /\ AtLeastAsGood(AsJourney(mem'.label[n]), NewLabel)
      BY <1>8, <1>10 DEF Like, AsJourney, Times, AtLeastAsGood
    <3> QED BY <3>2, <3>3
  <2>2. CASE stops # {}
    <3>1. PICK r \in results \ Dominated(results) : Dominates(LabelAt(r), NewLabel)
      BY <2>2
    <3>2. r \in results'
      BY <1>2, <3>1
    <3>3. AtLeastAsGood(LabelAt(r), NewLabel)
      BY <1>9, <1>10, <1>11, <3>1, DominatesIs
    <3>4. r \in LiveIn(mem) /\ r \in LiveIn(mem')
      <4>1. Alive(mem', Queued', results', kept', at')
        BY DEF IInv
      <4> QED BY <3>2, <4>1, AliveUse, InUse
    <3>5. Like(LabelAt(r), mem'.label[r])
      BY <1>7, <3>4 DEF KeepsLabels, LabelAt
    <3>6. AsJourney(mem'.label[r]) \in Found'
      BY <3>2 DEF Found, LabelAt
    <3>7. Times(AsJourney(mem'.label[r])) /\ AtLeastAsGood(AsJourney(mem'.label[r]), NewLabel)
      BY <1>11, <3>3, <3>5 DEF Like, AsJourney, Times, AtLeastAsGood
    <3> QED BY <3>6, <3>7
  <2> QED BY <2>1, <2>2
<1>13. AnswersImprove /\ KeptImprove /\ ResultsImprove
  <2>1. ASSUME NEW r \in results, r \notin results'
        PROVE  \E k \in Found' : Times(k) /\ AtLeastAsGood(k, LabelAt(r))
    <3>1. Dominates(NewLabel, LabelAt(r))
      BY <1>2, <2>1 DEF Dominated, LabelAt
    <3>2. AtLeastAsGood(NewLabel, LabelAt(r))
      BY <1>9, <1>10, <1>11, <3>1, DominatesIs
    <3> QED BY <1>10, <1>11, <1>12, <3>2, BetterStill
  <2>2. Found' \subseteq Answers'
    BY DEF Answers
  <2> QED BY <1>1, <1>7, <1>9, <2>1, <2>2, AnswersStay, KeptStay, ResultsStay
<1>14. Queued' = Queued
  BY <1>1 DEF Queued
<1>15. \A a \in results' \ results : LabelAt(a)'.node = Goal
  BY <1>2, <1>8, <1>10 DEF Like, LabelAt
<1>16. ASSUME NEW m, m = NewLabel PROVE ServedAt(m.node, m.start, m.now, m.transfers)'
  <2>1. PICK k \in Answers' : Times(k) /\ AtLeastAsGood(k, m)
    BY <1>12, <1>16 DEF Answers
  <2>2. lb' = lb /\ net' = net /\ Times(m) /\ m.node = Goal
    BY <1>1, <1>10, <1>16 DEF Relaxing, problem
  <2>3. lb.transfers[LbNode(m.node)] = 0 /\ LbNode(m.node)' = LbNode(m.node)
    BY <1>9, <2>2, LbIs DEF LbNode
  <2>4. m.transfers + 0 = m.transfers
    BY <2>2 DEF Times
  <2>5. AnsweredAt(m.node, m.start, m.now, m.transfers)'
    BY <2>1, <2>2, <2>3, <2>4 DEF AnsweredAt, AtLeastAsGood
  <2> QED BY <2>5 DEF ServedAt
<1>17. Lasting /\ Grows
  <2>1. \A r \in results' \ results : Like(NewLabel, LabelAt(r)')
    BY <1>2, <1>8 DEF LabelAt
  <2>2. Grows
    BY <1>1, <1>14, <2>1 DEF Grows
  <2> QED BY <1>7, <1>13, <2>2, LastingIs
<1> QED BY <1>1, <1>7, <1>8, <1>13, <1>14, <1>15, <1>16, <1>17, CreatedStep

LEMMA AddLabelToNodeKeeps ==
  IInv /\ IInv' /\ CInv /\ AddLabelToNode => CInv' /\ ResultsImprove /\ Lasting /\ Grows
<1> SUFFICES ASSUME IInv, IInv', CInv, AddLabelToNode PROVE CInv' /\ ResultsImprove /\ Lasting /\ Grows
  OBVIOUS
<1> DEFINE c == Create(mem, NewLabel)
           n == NewAddress
           here == {a \in kept : LabelAt(a).node = NewLabel.node}
           stops == {a \in here : Dominates(LabelAt(a), NewLabel)}
<1>1. /\ Relaxing /\ Creates(at, Head(todo)) /\ ~AtGoal /\ UNCHANGED <<results, dropped>>
  BY DEF AddLabelToNode, Relaxing
<1>2. PICK gone \in SUBSET Dominated(here) :
        \/ /\ stops # {} /\ gone \cap stops = {}
           /\ kept' = kept \ gone /\ mem' = Release(Mark(c, gone), <<n>>)
           /\ UNCHANGED <<queue, equals>>
        \/ /\ stops = {}
           /\ kept' = (kept \ gone) \cup {n} /\ mem' = Mark(c, gone)
           /\ \/ queue' = Append(queue, n) /\ equals' = equals
              \/ equals' = Append(equals, n) /\ queue' = queue
  <2>1. \E gone \in IF stops = {} THEN {Dominated(here)} ELSE SUBSET (Dominated(here) \ stops) :
          IF stops # {}
          THEN /\ kept' = kept \ gone
               /\ mem' = Release(Mark(c, gone), <<n>>)
               /\ UNCHANGED <<queue, equals>>
          ELSE /\ kept' = (kept \ gone) \cup {n}
               /\ mem' = Mark(c, gone)
               /\ IF Below(at, n)
                  THEN queue' = Append(queue, n) /\ equals' = equals
                  ELSE equals' = Append(equals, n) /\ queue' = queue
    BY DEF AddLabelToNode, LabelAt
  <2> HIDE DEF stops, c, n, here
  <2> QED BY <2>1
<1>4. /\ Memory(c) /\ KeepsLabels(mem, c, {n}) /\ c.label[n] = NewLabel
      /\ n \in 1..Len(c.label) /\ Len(c.label) \in Nat /\ 1..Len(mem.label) \subseteq 1..Len(c.label)
      /\ n \notin LiveIn(mem)
  BY <1>1, CreatedKeeps
<1> DEFINE k == Mark(c, gone)
<1> HIDE DEF c, n
<1>5. /\ Memory(k) /\ LiveIn(k) = LiveIn(c) /\ Len(k.label) = Len(c.label)
      /\ \A a \in 1..Len(c.label) :
           /\ Like(c.label[a], k.label[a])
           /\ a \in gone => k.label[a].dominated
  BY <1>4, MarkLive
<1> HIDE DEF k
<1>6. LiveIn(mem') \subseteq LiveIn(c) /\ mem'.label = k.label
  <2>1. CASE mem' = k
    BY <1>5, <2>1
  <2>2. CASE mem' = Release(k, <<n>>)
    <3>1. <<n>> \in Seq(1..Len(k.label))
      BY <1>4, <1>5
    <3> QED BY <1>5, <2>2, <3>1, ReleaseKeeps
  <2> QED BY <1>2, <2>1, <2>2 DEF k
<1>7. KeepsLabels(mem, mem', {n})
  <2>1. \A a \in LiveIn(mem') : Like(c.label[a], mem'.label[a])
    BY <1>5, <1>6 DEF LiveIn
  <2> QED BY <1>4, <1>6, <2>1, KeepsMore
<1>8. Like(NewLabel, mem'.label[n])
  BY <1>4, <1>5, <1>6
<1>9. Places /\ Prepared
  BY DEF CInv
<1>10. GoodLabel(NewLabel) /\ NewLabel.node # Goal /\ Times(NewLabel)
  BY <1>1, AtWork DEF AtGoal, Goal, GoodLabel, Times
<1>11. \A b \in here : b \in kept /\ GoodLabel(LabelAt(b)) /\ LabelAt(b).node = NewLabel.node /\ Times(LabelAt(b))
  BY <1>9, InUse DEF Places, GoodLabel, Times
<1>12. gone \subseteq here /\ here \subseteq kept /\ \A b \in gone : Dominates(NewLabel, LabelAt(b))
  BY <1>2 DEF Dominated, LabelAt
<1>13. \E x \in kept' : /\ Times(LabelAt(x)') /\ LabelAt(x)'.node = NewLabel.node
                        /\ AtLeastAsGood(LabelAt(x)', NewLabel)
  <2>1. CASE stops = {}
    <3>1. n \in kept'
      BY <1>2, <2>1
    <3>2. PICK x : x = n
      OBVIOUS
    <3>3. Like(NewLabel, mem'.label[x]) /\ x \in kept'
      BY <1>8, <3>1, <3>2
    <3>4. Times(mem'.label[x]) /\ mem'.label[x].node = NewLabel.node /\ AtLeastAsGood(mem'.label[x], NewLabel)
      BY <1>10, <3>3 DEF Like, Times, AtLeastAsGood
    <3> QED BY <3>3, <3>4 DEF LabelAt
  <2>2. CASE stops # {}
    <3>1. PICK x \in stops : x \in here /\ Dominates(LabelAt(x), NewLabel)
      BY <2>2
    <3>2. x \in kept'
      BY <1>2, <1>12, <2>2, <3>1
    <3>3. AtLeastAsGood(LabelAt(x), NewLabel)
      BY <1>9, <1>10, <1>11, <3>1, DominatesIs
    <3>4. x \in LiveIn(mem) /\ x \in LiveIn(mem')
      <4>1. Alive(mem', Queued', results', kept', at')
        BY DEF IInv
      <4> QED BY <1>12, <3>1, <3>2, <4>1, AliveUse, InUse
    <3>5. Like(LabelAt(x), LabelAt(x)')
      BY <1>7, <3>4 DEF KeepsLabels, LabelAt
    <3> QED BY <1>11, <3>1, <3>2, <3>3, <3>5 DEF Like, Times, AtLeastAsGood
  <2> QED BY <2>1, <2>2
<1>14. AnswersImprove /\ KeptImprove
  <2>1. ASSUME NEW b \in kept, b \notin kept'
        PROVE  \E x \in kept' : /\ Times(LabelAt(x)') /\ LabelAt(x)'.node = LabelAt(b).node
                                /\ AtLeastAsGood(LabelAt(x)', LabelAt(b))
    <3>1. b \in gone
      BY <1>2, <2>1
    <3>2. AtLeastAsGood(NewLabel, LabelAt(b)) /\ LabelAt(b).node = NewLabel.node /\ Times(LabelAt(b))
      BY <1>9, <1>10, <1>11, <1>12, <3>1, DominatesIs
    <3>3. PICK x \in kept' : /\ Times(LabelAt(x)') /\ LabelAt(x)'.node = NewLabel.node
                             /\ AtLeastAsGood(LabelAt(x)', NewLabel)
      BY <1>13
    <3>4. AtLeastAsGood(LabelAt(x)', LabelAt(b))
      BY <1>10, <3>2, <3>3, BetterStill
    <3> QED BY <3>2, <3>3, <3>4
  <2> QED BY <1>1, <1>7, <1>9, <2>1, AnswersStay, KeptStay
<1>15. /\ Queued \subseteq Queued' /\ Queued' \subseteq Queued \cup (kept' \ kept)
       /\ stops = {} => n \in Queued'
  <2>1. CASE UNCHANGED <<queue, equals>> /\ stops # {}
    BY <2>1 DEF Queued
  <2>2. CASE stops = {} /\ queue' = Append(queue, n) /\ equals' = equals
    <3>1. n \notin ToSet(queue) /\ n \notin kept /\ n \in kept'
      BY <1>2, <1>4, <2>2, InUse DEF Queued
    <3>2. ToSet(queue') = ToSet(queue) \cup {n}
      BY <2>2, <3>1, AppendOnce DEF IInv
    <3> QED BY <2>2, <3>1, <3>2 DEF Queued
  <2>3. CASE stops = {} /\ equals' = Append(equals, n) /\ queue' = queue
    <3>1. n \notin ToSet(equals) /\ n \notin kept /\ n \in kept'
      BY <1>2, <1>4, <2>3, InUse DEF Queued
    <3>2. ToSet(equals') = ToSet(equals) \cup {n}
      BY <2>3, <3>1, AppendOnce DEF IInv
    <3> QED BY <2>3, <3>1, <3>2 DEF Queued
  <2> HIDE DEF stops
  <2> QED BY <1>2, <2>1, <2>2, <2>3
<1>16. ASSUME NEW a \in kept' \ kept PROVE a \in Queued' /\ LabelAt(a)'.node # Goal
  <2>1. a = n /\ stops = {}
    BY <1>2
  <2>2. Like(NewLabel, mem'.label[a])
    BY <1>8, <2>1
  <2> QED BY <1>10, <1>15, <2>1, <2>2 DEF Like, LabelAt
<1>17. ASSUME NEW a \in (Queued' \cap kept) \ kept' PROVE LabelAt(a)'.dominated
  <2>1. a \in gone
    BY <1>2, <1>17
  <2>2. a \in 1..Len(c.label)
    BY <1>4, <1>17, InUse DEF LiveIn
  <2> QED BY <1>5, <1>6, <2>1, <2>2 DEF LabelAt
<1>18. ASSUME NEW m, m = NewLabel PROVE ServedAt(m.node, m.start, m.now, m.transfers)'
  <2>1. KeptAt(m.node, m.start, m.now, m.transfers)'
    BY <1>13, <1>18 DEF KeptAt, AtLeastAsGood
  <2> QED BY <2>1 DEF ServedAt
<1>19. \A a \in {n} : a \in LiveIn(mem') => Like(NewLabel, mem'.label[a])
  BY <1>8
<1>20. Queued' \subseteq Queued \cup kept'
  BY <1>15
<1>21. ResultsImprove
  BY <1>1, <1>7, <1>9, ResultsStay
<1>22. Lasting /\ Grows
  <2>1. ASSUME NEW a \in Queued' \ Queued PROVE a = n /\ stops = {}
    <3>1. a \in kept' \ kept
      BY <1>15
    <3> QED BY <1>2, <3>1
  <2>2. \A a \in Queued' \ Queued : Like(NewLabel, LabelAt(a)')
    BY <1>8, <2>1 DEF LabelAt
  <2>3. stops = {} => \A b \in kept : LabelAt(b).node = NewLabel.node => ~Dominates(LabelAt(b), NewLabel)
    OBVIOUS
  <2>4. ~DominatedByResults(NewLabel)
    BY DEF AddLabelToNode
  <2>5. \A m : m = NewLabel => KeptAt(m.node, m.start, m.now, m.transfers)'
    BY <1>13 DEF KeptAt, AtLeastAsGood
  <2>6. results' = results
    BY <1>1
  <2> HIDE DEF stops
  <2>7. Grows
    BY <1>1, <2>1, <2>2, <2>3, <2>4, <2>5, <2>6 DEF Grows
  <2> QED BY <1>7, <1>14, <2>7, LastingIs
<1> QED BY <1>1, <1>21, <1>22, <1>7, <1>14, <1>15, <1>16, <1>17, <1>18, <1>19, <1>20, CreatedStep
(* The labels a start brings, and what becomes of the one at its node.     *)
LEMMA StartCreates ==
  ASSUME IInv, IInv', CInv, AddStart
  PROVE  \E N : \E a : \E l :
           LET s == Head(starts) IN
           /\ KeepsLabels(mem, mem', N) /\ mem'.label[a] = l /\ a \notin LiveIn(mem)
           /\ \A x \in N : GoodLabel(LabelAt(x))' /\ OriginOf(LabelAt(x))'
           /\ l.node = s.node /\ l.start = s.time /\ l.now = s.time /\ l.transfers = 0 /\ l.train = None
           /\ IF Filtered(l) THEN UNCHANGED <<queue, kept>>
              ELSE queue' = Append(queue, a) /\ kept' = kept \cup {a}
<1> DEFINE start(p, v, t) == Label(p, v, None, t, t, 0)
<1>0. PICK s : s = Head(starts)
  OBVIOUS
<1>1. starts # <<>> /\ UNCHANGED problem
  BY DEF AddStart
<1>2. net' = net /\ query' = query
  BY <1>1 DEF problem
<1>3. s \in StartPlaces /\ Prepared
  BY <1>0, <1>1, HeadAndTail DEF CInv, Clocks
<1>4. Memory(mem)
  BY InUse
<1>5. \A p, v, t :
        /\ IsLabel(start(p, v, t)) /\ start(p, v, t).pred = p /\ start(p, v, t).node = v
        /\ start(p, v, t).train = None
        /\ start(p, v, t).start = t /\ start(p, v, t).now = t /\ start(p, v, t).transfers = 0
  BY DEF Label, IsLabel
<1>6. s.time \in Nat
  BY <1>3 DEF StartPlaces
<1>7. CASE query.kind = "pretrip"
  <2>1. PICK n1, f : n1 = NextAddress(mem) /\ f = start(NoAddress, StationNode(query.from), s.time)
    OBVIOUS
  <2>2. PICK m1 : m1 = Create(mem, f)
    OBVIOUS
  <2>3. PICK n2, l : n2 = NextAddress(m1) /\ l = start(n1, s.node, s.time)
    OBVIOUS
  <2>4. /\ mem' = Create(m1, l)
        /\ IF Filtered(l) THEN UNCHANGED <<queue, kept>>
           ELSE queue' = Append(queue, n2) /\ kept' = kept \cup {n2}
    <3>1. l = [f EXCEPT !.pred = n1, !.node = s.node]
      <4>1. PICK u, w, t : u = StationNode(query.from) /\ w = s.node /\ t = s.time
        OBVIOUS
      <4>2. PICK g : g = [f EXCEPT !.pred = n1]
        OBVIOUS
      <4>3. g = Label(n1, u, None, t, t, 0)
        BY <2>1, <4>1, <4>2, Zenon DEF Label
      <4>4. [g EXCEPT !.node = w] = Label(n1, w, None, t, t, 0)
        <5>1. PICK b, x : b = FALSE /\ x = None
          OBVIOUS
        <5>2. g = [pred |-> n1, node |-> u, train |-> x, start |-> t, now |-> t, transfers |-> 0,
                   dominated |-> b]
          BY <4>3, <5>1, Zenon DEF Label
        <5>3. [g EXCEPT !.node = w] = [pred |-> n1, node |-> w, train |-> x, start |-> t, now |-> t,
                                       transfers |-> 0, dominated |-> b]
          BY <5>2
        <5> QED BY <5>1, <5>3, Zenon DEF Label
      <4> QED BY <2>3, <4>1, <4>2, <4>4
    <3> QED BY <1>0, <1>7, <2>1, <2>2, <2>3, <3>1 DEF AddStart
  <2>5. /\ s.node \in Nodes(net) /\ s.node.kind = "route" /\ s.node.station = query.from
        /\ StationNode(query.from) \in Nodes(net) /\ Origin(net, query) = query.from
        /\ StationNode(query.from).station = query.from
    BY <1>3, <1>7, PretripQuery DEF StartPlaces, StationNode
  <2>6. /\ IsLabel(f) /\ f.pred = NoAddress /\ f.node = StationNode(query.from)
        /\ f.start = s.time /\ f.now = s.time /\ f.transfers = 0
        /\ IsLabel(l) /\ l.pred = n1 /\ l.node = s.node /\ l.train = None
        /\ l.start = s.time /\ l.now = s.time /\ l.transfers = 0
    <3> HIDE DEF start
    <3> QED BY <1>5, <2>1, <2>3
  <2> HIDE DEF start
  <2>7. /\ Memory(m1) /\ n1 \notin LiveIn(mem) /\ n1 # NoAddress
        /\ LiveIn(m1) = LiveIn(mem) \cup {n1}
        /\ m1.label[n1] = f /\ \A a \in LiveIn(mem) : m1.label[a] = mem.label[a]
    BY <1>4, <2>1, <2>2, <2>6, CreateLive
  <2>8. /\ n2 \notin LiveIn(m1)
        /\ LiveIn(mem') = LiveIn(m1) \cup {n2}
        /\ mem'.label[n2] = l /\ \A a \in LiveIn(m1) : mem'.label[a] = m1.label[a]
    BY <2>3, <2>4, <2>6, <2>7, CreateLive
  <2>9. KeepsLabels(mem, mem', {n1, n2})
    BY <2>7, <2>8 DEF KeepsLabels, Like
  <2>10. mem'.label[n1] = f
    BY <2>7, <2>8
  <2>11. GoodLabel(LabelAt(n1))' /\ OriginOf(LabelAt(n1))'
    BY <1>2, <1>6, <2>5, <2>6, <2>10 DEF GoodLabel, OriginOf, LabelAt
  <2>12. GoodLabel(LabelAt(n2))' /\ OriginOf(LabelAt(n2))'
    BY <1>2, <1>6, <1>7, <2>5, <2>6, <2>7, <2>8, <2>10 DEF GoodLabel, OriginOf, LabelAt, PretripStart
  <2>13. \A x \in {n1, n2} : GoodLabel(LabelAt(x))' /\ OriginOf(LabelAt(x))'
    <3> SUFFICES ASSUME NEW x \in {n1, n2} PROVE GoodLabel(LabelAt(x))' /\ OriginOf(LabelAt(x))'
      OBVIOUS
    <3>1. CASE x = n1
      BY <2>11, <3>1
    <3>2. CASE x = n2
      BY <2>12, <3>2
    <3> QED BY <3>1, <3>2
  <2> QED BY <1>0, <2>4, <2>6, <2>7, <2>8, <2>9, <2>13
<1>8. CASE query.kind # "pretrip"
  <2>1. PICK n, l : n = NextAddress(mem) /\ l = start(NoAddress, s.node, s.time)
    OBVIOUS
  <2>2. /\ mem' = Create(mem, l)
        /\ IF Filtered(l) THEN UNCHANGED <<queue, kept>>
           ELSE queue' = Append(queue, n) /\ kept' = kept \cup {n}
    BY <1>0, <1>8, <2>1 DEF AddStart
  <2>3. s.node = OntripNode /\ OntripNode \in Nodes(net) /\ OntripNode.station = Origin(net, query)
    BY <1>3, <1>8, OntripNodeIs DEF StartPlaces
  <2>4. /\ IsLabel(l) /\ l.pred = NoAddress /\ l.node = s.node /\ l.train = None
        /\ l.start = s.time /\ l.now = s.time /\ l.transfers = 0
    <3> HIDE DEF start
    <3> QED BY <1>5, <2>1
  <2> HIDE DEF start
  <2>5. /\ n \notin LiveIn(mem)
        /\ LiveIn(mem') = LiveIn(mem) \cup {n}
        /\ mem'.label[n] = l /\ \A a \in LiveIn(mem) : mem'.label[a] = mem.label[a]
    BY <1>4, <2>1, <2>2, <2>4, CreateLive
  <2>6. KeepsLabels(mem, mem', {n})
    BY <2>5 DEF KeepsLabels, Like
  <2>7. l.node = StationNode(query.from) \/ (query.kind = "train" /\ l.node = OntripNode)
    BY <1>8, <2>3, <2>4 DEF OntripNode
  <2>8. OntripNode' = OntripNode
    BY <1>2 DEF OntripNode
  <2>9. GoodLabel(LabelAt(n))' /\ OriginOf(LabelAt(n))'
    BY <1>2, <1>6, <2>3, <2>4, <2>5, <2>7, <2>8 DEF GoodLabel, OriginOf, LabelAt
  <2>10. \A x \in {n} : GoodLabel(LabelAt(x))' /\ OriginOf(LabelAt(x))'
    <3> SUFFICES ASSUME NEW x, x = n PROVE GoodLabel(LabelAt(x))' /\ OriginOf(LabelAt(x))'
      OBVIOUS
    <3> QED BY <2>9
  <2> QED BY <1>0, <2>2, <2>4, <2>5, <2>6, <2>10
<1> QED BY <1>7, <1>8

LEMMA AddStartKeeps ==
  IInv /\ IInv' /\ CInv /\ AddStart => CInv' /\ ResultsImprove /\ Lasting /\ Started
<1> SUFFICES ASSUME IInv, IInv', CInv, AddStart PROVE CInv' /\ ResultsImprove /\ Lasting /\ Started
  OBVIOUS
<1>0. PICK s : s = Head(starts)
  OBVIOUS
<1>1. PICK N : \E a : \E l :
        /\ KeepsLabels(mem, mem', N) /\ mem'.label[a] = l /\ a \notin LiveIn(mem)
        /\ \A x \in N : GoodLabel(LabelAt(x))' /\ OriginOf(LabelAt(x))'
        /\ l.node = s.node /\ l.start = s.time /\ l.now = s.time /\ l.transfers = 0 /\ l.train = None
        /\ IF Filtered(l) THEN UNCHANGED <<queue, kept>>
           ELSE queue' = Append(queue, a) /\ kept' = kept \cup {a}
  BY <1>0, StartCreates
<1>2. PICK a : \E l :
        /\ KeepsLabels(mem, mem', N) /\ mem'.label[a] = l /\ a \notin LiveIn(mem)
        /\ \A x \in N : GoodLabel(LabelAt(x))' /\ OriginOf(LabelAt(x))'
        /\ l.node = s.node /\ l.start = s.time /\ l.now = s.time /\ l.transfers = 0 /\ l.train = None
        /\ IF Filtered(l) THEN UNCHANGED <<queue, kept>>
           ELSE queue' = Append(queue, a) /\ kept' = kept \cup {a}
  BY <1>1
<1>3. PICK l :
        /\ KeepsLabels(mem, mem', N) /\ mem'.label[a] = l /\ a \notin LiveIn(mem)
        /\ \A x \in N : GoodLabel(LabelAt(x))' /\ OriginOf(LabelAt(x))'
        /\ l.node = s.node /\ l.start = s.time /\ l.now = s.time /\ l.transfers = 0 /\ l.train = None
        /\ IF Filtered(l) THEN UNCHANGED <<queue, kept>>
           ELSE queue' = Append(queue, a) /\ kept' = kept \cup {a}
  BY <1>2
<1>4. /\ UNCHANGED <<problem, interval, pc, equals, at, todo, results, dropped>>
      /\ starts # <<>> /\ starts' = Tail(starts) /\ pc = "start"
  BY DEF AddStart
<1>5. Places /\ Prepared /\ Clocks
  BY DEF CInv
<1>6. s \in StartPlaces /\ starts' \in Seq(StartPlaces) /\ ToSet(starts) = {s} \cup ToSet(starts')
  BY <1>0, <1>4, <1>5, HeadAndTail DEF Clocks
<1>7. s.node \in Nodes(net) /\ s.time \in Nat
  BY <1>6 DEF StartPlaces
<1>8. kept \subseteq kept' /\ kept' \subseteq kept \cup {a}
  BY <1>3
<1>9. AnswersImprove /\ KeptImprove
  BY <1>3, <1>4, <1>5, <1>8, AnswersStay, KeptStay
<1>10. Carry
  BY <1>3, <1>4, <1>9, Carried
<1>11. Clocks'
  BY <1>4, <1>5, <1>6 DEF Clocks, StartPlaces, problem, OntripNode
<1>12. Queued \subseteq Queued' /\ Queued' \subseteq Queued \cup kept' /\ (a \in kept' => a \in Queued')
  <2>1. CASE Filtered(l)
    <3>1. a \notin kept'
      BY <1>3, <2>1, InUse
    <3> QED BY <1>3, <1>4, <2>1, <3>1 DEF Queued
  <2>2. CASE ~Filtered(l)
    <3>1. a \notin ToSet(queue)
      BY <1>3, InUse DEF Queued
    <3>2. ToSet(queue') = ToSet(queue) \cup {a} /\ a \in kept'
      BY <1>3, <2>2, <3>1, AppendOnce DEF IInv
    <3> QED BY <1>4, <3>2 DEF Queued
  <2> QED BY <2>1, <2>2
<1>13. s.node # Goal
  <2>1. Goal.station = query.to /\ query.to # Origin(net, query)
    BY <1>5, LbIs DEF Prepared, IsQuery
  <2>2. s.node.station = Origin(net, query)
    <3>1. CASE query.kind = "pretrip"
      BY <1>5, <1>6, <3>1, PretripQuery DEF StartPlaces
    <3>2. CASE query.kind # "pretrip"
      BY <1>5, <1>6, <3>2, OntripNodeIs DEF StartPlaces
    <3> QED BY <3>1, <3>2
  <2> QED BY <2>1, <2>2
<1>14. \A x \in kept' \ kept : x \in Queued' /\ LabelAt(x)'.node # Goal
  BY <1>3, <1>8, <1>12, <1>13 DEF LabelAt
<1>15. Begins(s)'
  <2>1. CASE Filtered(l)
    <3>0. PICK f : f = Label(NoAddress, s.node, None, s.time, s.time, 0)
      OBVIOUS
    <3>1. f.node = l.node /\ f.start = l.start /\ f.now = l.now /\ f.transfers = l.transfers
      BY <1>3, <3>0 DEF Label
    <3>2. Filtered(f)
      BY <2>1, <3>1 DEF Filtered, TravelTimeLb, TravelTime, TransfersLb
    <3>3. Filtered(f)'
      BY <1>4, <3>2 DEF Filtered, TravelTimeLb, TravelTime, TransfersLb, LbNode, problem
    <3> QED BY <3>0, <3>3 DEF Begins, Filtered, TravelTimeLb, TravelTime, TransfersLb, LbNode
  <2>2. CASE ~Filtered(l)
    <3>1. a \in kept' /\ LabelAt(a)' = l
      BY <1>3, <2>2 DEF LabelAt
    <3>3. KeptAt(s.node, s.time, s.time, 0)'
      BY <1>3, <1>7, <3>1 DEF KeptAt
    <3> QED BY <3>3 DEF Begins, ServedAt
  <2> QED BY <2>1, <2>2
<1>16. ASSUME NEW b \in kept \cap kept', b \notin Queued' PROVE ExploredOne(b)'
  <2>1. b \notin Queued
    BY <1>12, <1>16
  <2> QED BY <1>4, <1>10, <2>1, ExploredStays
<1>17. \A t : t = at' /\ t # NoAddress =>
           /\ t \in LiveIn(mem) /\ LabelAt(t).node # Goal /\ Served(LabelAt(t))
           /\ todo' \in Seq(ToSet(edges[LabelAt(t).node]))
  BY <1>4, <1>5, InUse DEF Places
<1>18. \A x \in ToSet(starts) : x \in ToSet(starts') \/ Begins(x)'
  <2> SUFFICES ASSUME NEW x \in ToSet(starts), x = s PROVE Begins(x)'
    BY <1>6
  <2> QED BY <1>15
<1>19. ResultsImprove
  BY <1>3, <1>4, <1>5, ResultsStay
<1>20. Lasting /\ Started
  <2>1. Queued' \subseteq Queued \cup {a}
    <3>1. CASE Filtered(l)
      BY <1>3, <1>4, <3>1 DEF Queued
    <3>2. CASE ~Filtered(l)
      <4>1. a \notin ToSet(queue)
        BY <1>3, InUse DEF Queued
      <4>2. ToSet(queue') = ToSet(queue) \cup {a}
        BY <1>3, <3>2, <4>1, AppendOnce DEF IInv
      <4> QED BY <1>4, <4>2 DEF Queued
    <3> QED BY <3>1, <3>2
  <2>2. Started
    BY <1>0, <1>3, <2>1 DEF Started, LabelAt
  <2> QED BY <1>3, <1>9, <2>2, LastingIs
<1> QED BY <1>4, <1>19, <1>20, <1>8, <1>10, <1>11, <1>12, <1>14, <1>16, <1>17, <1>18, StepKeeps

LEMMA OnlyPretripWidens ==
  ASSUME IInv, Prepared, ~Enough
  PROVE  query.kind = "pretrip"
<1>1. IsFiniteSet(results)
  <2>1. results \subseteq 1..Len(mem.label) /\ Len(mem.label) \in Nat
    <3>1. results \subseteq 1..Len(mem.label)
      BY DEF IInv, Alive
    <3>2. Memory(mem)
      BY InUse
    <3> QED BY <3>1, <3>2, LenProperties DEF Memory
  <2>2. IsFiniteSet(1..Len(mem.label))
    BY <2>1, FS_Interval
  <2> QED BY <2>1, <2>2, FS_Subset
<1>2. Cardinality(results) \in Nat
  BY <1>1, FS_CardinalityType
<1>3. query.kind # "pretrip" => query.min = 0
  BY DEF Prepared, IsQuery
<1> QED BY <1>2, <1>3 DEF Enough

(* An extension keeps what has been found; the starts it adds are listed.  *)
LEMMA ExtendKeeps == IInv /\ IInv' /\ CInv /\ Extend => CInv'
<1> SUFFICES ASSUME IInv, IInv', CInv, Extend PROVE CInv'
  OBVIOUS
<1>1. /\ UNCHANGED <<problem, mem, kept, queue, equals, at, todo, results, dropped>>
      /\ interval' = Widened /\ starts' = NewStarts /\ pc' \in {"done", "start"} /\ ~Enough
      /\ pc = "extend"
  BY DEF Extend, work
<1>2. Places /\ Prepared /\ Clocks /\ Explored /\ Begun
  BY DEF CInv
<1>3. query.kind = "pretrip"
  BY <1>1, <1>2, OnlyPretripWidens
<1>4. net' = net /\ query' = query /\ edges' = edges /\ lb' = lb
  BY <1>1 DEF problem
<1>5. /\ Widened = Interval(Widened.begin, Widened.end)
      /\ Widened.begin \in ScheduleBegin..ScheduleEnd /\ Widened.end \in ScheduleBegin..ScheduleEnd
      /\ NewStarts \in Seq(StartPlaces) /\ Widened.begin <= Widened.end
      /\ StartsIn(Widened.begin, Widened.end)
                \subseteq StartsIn(interval.begin, interval.end) \cup ToSet(NewStarts)
  BY <1>2, <1>3, WidenedIs, RoutingAssumption DEF Clocks
<1>6. KeepsLabels(mem, mem', {})
  BY <1>1 DEF KeepsLabels, Like
<1>7. AnswersImprove /\ KeptImprove
  BY <1>1, <1>2, <1>6, AnswersStay, KeptStay
<1>8. Carry
  BY <1>1, <1>6, <1>7, Carried
<1>9. PICK b, e : b = Widened.begin /\ e = Widened.end
  OBVIOUS
<1>10. interval'.begin = b /\ interval'.end = e /\ interval' = Interval(b, e)
  BY <1>1, <1>5, <1>9
<1>11. Clocks'
  <2>1. StartPlaces' = StartPlaces
    BY <1>4 DEF StartPlaces, OntripNode
  <2> QED BY <1>1, <1>5, <1>9, <1>10, <2>1 DEF Clocks
<1>12. Places'
  <2>1. \A a \in LiveIn(mem') : GoodLabel(LabelAt(a))'
    BY <1>8 DEF Carry
  <2>2. at # NoAddress => Served(LabelAt(at))'
    <3> SUFFICES ASSUME at # NoAddress PROVE Served(LabelAt(at))'
      OBVIOUS
    <3>1. PICK t : t = at
      OBVIOUS
    <3>2. Served(LabelAt(t)) /\ t \in LiveIn(mem) /\ t \in LiveIn(mem')
      BY <1>1, <1>2, <3>1, InUse DEF Places
    <3>3. Served(LabelAt(t))'
      BY <1>8, <3>2 DEF Carry
    <3> QED BY <1>1, <3>1, <3>3 DEF Served, ServedAt, AnsweredAt, KeptAt, LabelAt
  <2> QED BY <1>1, <1>2, <1>4, <2>1, <2>2 DEF Places, LabelAt, Goal, Queued
<1>13. Explored'
  <2>1. Queued' = Queued /\ LabelAt(at)' = LabelAt(at)
    BY <1>1 DEF Queued, LabelAt
  <2> SUFFICES ASSUME NEW a \in kept', a \notin Queued' PROVE ExploredOne(a)'
    BY DEF Explored, ExploredOne
  <2> QED BY <1>1, <1>8, <2>1, ExploredStays
<1>14. Begun'
  <2>1. StartsIn(b, e)' = StartsIn(b, e)
    BY <1>4 DEF StartsIn, StartStops, DeparturesIn, OntripNode
  <2> SUFFICES ASSUME NEW s \in StartsIn(b, e) PROVE s \in ToSet(starts') \/ Begins(s)'
    BY <1>10, <2>1 DEF Begun
  <2>2. CASE s \in ToSet(NewStarts)
    BY <1>1, <2>2
  <2>3. CASE s \in StartsIn(interval.begin, interval.end)
    <3>1. s \in StartPlaces
      BY <1>2, <2>3, StartsInPlaces
    <3>2. s \in ToSet(starts) \/ Begins(s)
      BY <1>2, <2>3 DEF Begun
    <3>3. starts = <<>>
      BY <1>1, <1>2 DEF Clocks
    <3>4. Begins(s)
      BY <3>2, <3>3, ToSetEmpty
    <3> QED BY <1>8, <3>1, <3>4 DEF Carry
  <2> QED BY <1>5, <1>9, <2>2, <2>3
<1> QED BY <1>8, <1>11, <1>12, <1>13, <1>14 DEF CInv, Carry

LEMMA InitCInv == Init => CInv
<1> SUFFICES ASSUME Init PROVE CInv
  OBVIOUS
<1>1. PICK s \in Scenarios : net = s.net /\ query = s.query
  BY DEF Init
<1>2. /\ edges = Edges(net)
      /\ lb = [travel |-> StationGraphBounds(net, query.to),
               transfers |-> InterchangeGraphBounds(net, query.to)]
      /\ interval = Interval(query.begin, query.end)
      /\ pc = "start" /\ starts = Generate(query.begin, query.end)
      /\ mem = [label |-> <<>>, free |-> <<>>]
      /\ kept = {}
      /\ queue = <<>> /\ equals = <<>> /\ at = NoAddress /\ todo = <<>>
      /\ results = {} /\ dropped = {}
  BY DEF Init
<1>3. /\ Prepared /\ query.begin <= query.end
      /\ query.begin \in ScheduleBegin..ScheduleEnd /\ query.end \in ScheduleBegin..ScheduleEnd
  BY <1>1, <1>2, ScenariosAssumption DEF Prepared
<1>4. interval.begin = query.begin /\ interval.end = query.end
  BY <1>2 DEF Interval
<1>5. query.begin \in Nat /\ query.end \in Nat
  BY <1>3 DEF Prepared, IsQuery
<1>6. starts \in Seq(StartPlaces) /\ StartsIn(query.begin, query.end) \subseteq ToSet(starts)
  BY <1>2, <1>3, <1>5, GenerateIs
<1>7. LiveIn(mem) = {} /\ Queued = {}
  <2>1. Len(mem.label) = 0
    BY <1>2
  <2> QED BY <1>2, <2>1, ToSetEmpty DEF LiveIn, Queued
<1>8. Clocks
  BY <1>2, <1>3, <1>4, <1>6 DEF Clocks
<1>9. Places /\ Origins /\ Explored
  BY <1>2, <1>7 DEF Places, Origins, Explored
<1>10. Begun
  BY <1>4, <1>6 DEF Begun
<1> QED BY <1>3, <1>8, <1>9, <1>10 DEF CInv

LEMMA NextCInv == IInv /\ IInv' /\ CInv /\ [Next]_vars => CInv'
<1> SUFFICES ASSUME IInv, IInv', CInv, [Next]_vars PROVE CInv'
  OBVIOUS
<1>1. CASE AddStart
  BY <1>1, AddStartKeeps
<1>2. CASE Pop
  BY <1>2, PopKeeps
<1>3. CASE NoLabel
  BY <1>3, NoLabelKeeps
<1>4. CASE AddResult
  BY <1>4, AddResultKeeps
<1>5. CASE AddLabelToNode
  BY <1>5, AddLabelToNodeKeeps
<1>6. CASE Useless
  BY <1>6, UselessKeeps
<1>7. CASE Erase
  BY <1>7, EraseKeeps
<1>8. CASE Extend
  BY <1>8, ExtendKeeps
<1>9. CASE StartsAdded \/ SearchEnds \/ FilterEnds \/ Finish \/ UNCHANGED vars
  <2>1. /\ UNCHANGED <<problem, interval, starts, mem, kept, queue, equals, results, dropped>>
        /\ pc' \in {"search", "filter", "extend"} =>
             pc \in {"search", "filter", "extend"} \/ starts = <<>>
        /\ \/ UNCHANGED <<at, todo>>
           \/ at' = NoAddress /\ todo = <<>> /\ todo' = <<>>
    BY <1>9 DEF StartsAdded, SearchEnds, FilterEnds, Finish, vars, work, Exhausted
  <2> QED BY <2>1, QuietKeeps
<1> QED BY <1>1, <1>2, <1>3, <1>4, <1>5, <1>6, <1>7, <1>8, <1>9 DEF Next, Step, Done
----------------------------------------------------------------------------
(* Rides and walks                                                         *)

LEMMA Climb ==
  ASSUME NEW i \in Nat, NEW j \in Nat, NEW P, i \in P, \A m \in i..(j - 1) : m \in P => m + 1 \in P
  PROVE  \A m \in i..j : m \in P
<1> DEFINE bad == {m \in i..j : m \notin P}
<1> SUFFICES ASSUME bad # {} PROVE FALSE
  OBVIOUS
<1>1. PICK k \in bad : \A y \in bad : k <= y
  <2>1. bad \in SUBSET Nat
    OBVIOUS
  <2> HIDE DEF bad
  <2> QED BY <2>1, Least
<1>2. k \in i..j /\ k \notin P /\ k # i
  OBVIOUS
<1>3. k - 1 \in i..j /\ k - 1 \in i..(j - 1) /\ ~(k <= k - 1) /\ (k - 1) + 1 = k
  BY <1>2
<1>4. k - 1 \in P
  BY <1>1, <1>3
<1> QED BY <1>2, <1>3, <1>4

LEMMA Descend ==
  ASSUME NEW i \in Nat, NEW j \in Nat, NEW P, j \in P, \A m \in i..(j - 1) : m + 1 \in P => m \in P
  PROVE  \A m \in i..j : m \in P
<1> DEFINE Q == {k \in 0..(j - i) : j - k \in P}
<1>1. CASE i <= j
  <2>1. 0 \in Q
    BY <1>1
  <2>2. ASSUME NEW k \in 0..((j - i) - 1), k \in Q PROVE k + 1 \in Q
    <3>1. k + 1 \in 0..(j - i) /\ (j - (k + 1)) + 1 = j - k /\ j - (k + 1) \in i..(j - 1)
      BY <1>1
    <3>2. j - (k + 1) \in P
      BY <2>2, <3>1
    <3> QED BY <3>1, <3>2
  <2>3. \A k \in 0..(j - i) : k \in Q
    <3>1. j - i \in Nat /\ 0 \in Nat
      BY <1>1
    <3> HIDE DEF Q
    <3> QED BY <2>1, <2>2, <3>1, Climb
  <2>4. \A m \in i..j : j - m \in 0..(j - i) /\ j - (j - m) = m
    BY <1>1
  <2> QED BY <2>3, <2>4
<1>2. CASE ~(i <= j)
  BY <1>2
<1> QED BY <1>1, <1>2

LEMMA RideIs ==
  ASSUME NEW n, IsNetwork(n), NEW x \in Rides(n)
  PROVE  \E r \in DOMAIN n.routes : \E i, j \in DOMAIN n.routes[r].stops : \E D, A :
           IsRide(n, x, r, i, j, D, A)
<1>1. PICK r \in DOMAIN n.routes : x \in UNION {RidesOf(n, r, t) : t \in DOMAIN n.routes[r].trips}
  BY DEF Rides
<1>2. PICK t \in DOMAIN n.routes[r].trips : x \in RidesOf(n, r, t)
  BY <1>1
<1> DEFINE stops == n.routes[r].stops
           trip == n.routes[r].trips[t]
           days == IF trip.valid THEN trip.days ELSE {}
           Pairs == {q \in (DOMAIN stops) \X (DOMAIN stops) : q[1] < q[2] /\ n.routes[r].leave[q[2]]}
           X(p, d) == [route |-> r, enter |-> p[1], exit |-> p[2], from |-> stops[p[1]], to |-> stops[p[2]],
                       dep |-> d * Day + Departure(trip, p[1]), arr |-> d * Day + Arrival(trip, p[2])]
<1>3. PICK p \in Pairs, d \in days : x = X(p, d)
  BY <1>2 DEF RidesOf
<1>4. PICK i, j \in DOMAIN stops : p = <<i, j>>
  OBVIOUS
<1>5. i < j /\ n.routes[r].leave[j] /\ trip.valid /\ d \in trip.days
  BY <1>4
<1>6. DOMAIN stops = 1..Len(stops) /\ Len(stops) \in Nat /\ Day \in Nat
  BY RouteIs, GraphIs
<1> DEFINE D == [m \in 1..Len(stops) |-> d * Day + Departure(trip, m)]
           A == [m \in 1..Len(stops) |-> d * Day + Arrival(trip, m)]
<1>7. /\ x.route = r /\ x.enter = i /\ x.exit = j /\ x.from = stops[i] /\ x.to = stops[j]
      /\ x.dep = D[i] /\ x.arr = A[j]
  <2>1. p[1] = i /\ p[2] = j
    BY <1>4
  <2>2. D[i] = d * Day + Departure(trip, i) /\ A[j] = d * Day + Arrival(trip, j)
    BY <1>6
  <2> HIDE DEF D, A, stops, trip
  <2> QED BY <1>3, <2>1, <2>2
<1>8. ASSUME NEW m \in i..(j - 1)
      PROVE  /\ m \in Sections(n, r) /\ D[m] \in Nat /\ A[m + 1] \in Nat /\ D[m] <= A[m + 1]
             /\ RunsAs(n, r, m, D[m], A[m + 1])
             /\ m + 1 < j => A[m + 1] <= D[m + 1]
  <2>1. m \in Sections(n, r) /\ m \in 1..Len(stops) /\ m + 1 \in 1..Len(stops) /\ (m + 1 < j => m + 1 \in Sections(n, r))
    BY <1>5, <1>6 DEF Sections
  <2> DEFINE c == SectionOf(trip, m)
             off == Departure(trip, m) \div Day
             f == d + off
  <2>2. /\ IsSection(c) /\ c.valid /\ off \in Nat /\ c \in SectionsOf(n, r, m)
        /\ f \in c.days /\ f <= LastDay
        /\ f * Day + c.dep = d * Day + Departure(trip, m)
        /\ f * Day + c.arr = d * Day + Arrival(trip, m + 1)
    BY <1>5, <2>1, SectionIs
  <2>3. D[m] = d * Day + Departure(trip, m) /\ A[m + 1] = d * Day + Arrival(trip, m + 1)
    BY <2>1
  <2>4. f \in Nat
    BY <2>2 DEF IsSection
  <2>5. m + 1 < j => A[m + 1] <= D[m + 1]
    <3> SUFFICES ASSUME m + 1 < j PROVE A[m + 1] <= D[m + 1]
      OBVIOUS
    <3>1. IsTrip(trip, Sections(n, r)) /\ m + 1 \in Sections(n, r)
      BY <2>1 DEF IsNetwork
    <3>2. Arrival(trip, m + 1) <= Departure(trip, m + 1)
      BY <2>1, <3>1 DEF IsTrip
    <3>3. Arrival(trip, m + 1) \in Nat /\ Departure(trip, m + 1) \in Nat /\ d \in Nat
      BY <1>5, <2>1, <3>1, TripTimes
    <3>4. D[m + 1] = d * Day + Departure(trip, m + 1)
      BY <2>1
    <3>5. d * Day \in Nat
      BY <1>6, <3>3
    <3> HIDE DEF D, A, trip
    <3> QED BY <2>3, <3>2, <3>3, <3>4, <3>5
  <2> HIDE DEF c, off, trip, D, A
  <2>6. On(c, f).dep = D[m] /\ On(c, f).arr = A[m + 1]
    BY <2>2, <2>3 DEF On
  <2>7. D[m] \in Nat /\ A[m + 1] \in Nat /\ D[m] <= A[m + 1]
    BY <2>2, <2>4, <2>6, OnIs
  <2> HIDE DEF f
  <2> QED BY <2>1, <2>2, <2>4, <2>5, <2>6, <2>7 DEF RunsAs
<1> HIDE DEF D, A
<1>9. IsRide(n, x, r, i, j, D, A)
  BY <1>5, <1>7, <1>8 DEF IsRide
<1> QED BY <1>9

LEMMA RideTimes ==
  ASSUME NEW n, IsNetwork(n), NEW x \in Rides(n)
  PROVE  /\ x.dep \in Nat /\ x.arr \in Nat /\ x.dep <= x.arr /\ (TimePasses(n) => x.dep < x.arr)
         /\ x.from \in 1..n.stations /\ x.to \in 1..n.stations
         /\ x.route \in DOMAIN n.routes /\ x.enter \in DOMAIN n.routes[x.route].stops
<1>1. PICK r \in DOMAIN n.routes : \E i, j \in DOMAIN n.routes[r].stops : \E D, A :
           IsRide(n, x, r, i, j, D, A)
  BY RideIs
<1>2. PICK i, j \in DOMAIN n.routes[r].stops : \E D, A : IsRide(n, x, r, i, j, D, A)
  BY <1>1
<1>3. PICK D, A : IsRide(n, x, r, i, j, D, A)
  BY <1>2
<1>4. /\ i < j /\ x.from = n.routes[r].stops[i] /\ x.to = n.routes[r].stops[j]
      /\ x.dep = D[i] /\ x.arr = A[j] /\ x.route = r /\ x.enter = i
      /\ \A m \in i..(j - 1) : D[m] \in Nat /\ A[m + 1] \in Nat /\ D[m] <= A[m + 1]
                               /\ (m + 1 < j => A[m + 1] <= D[m + 1])
  BY <1>3 DEF IsRide
<1>5. i \in Nat /\ j \in Nat /\ n.routes[r].stops[i] \in 1..n.stations /\ n.routes[r].stops[j] \in 1..n.stations
  BY RouteIs
<1> DEFINE takes == TimePasses(n)
           P == {m \in i..(j - 1) : D[i] <= A[m + 1] /\ (takes => D[i] < A[m + 1])}
<1>6. i \in P
  <2>1. i \in i..(j - 1)
    BY <1>4, <1>5
  <2>2. i \in Sections(n, r) /\ RunsAs(n, r, i, D[i], A[i + 1]) /\ D[i] <= A[i + 1]
    BY <1>3, <2>1 DEF IsRide
  <2>3. PICK c \in SectionsOf(n, r, i) : \E f \in c.days :
          f \in Nat /\ On(c, f).dep = D[i] /\ On(c, f).arr = A[i + 1]
    BY <2>2 DEF RunsAs
  <2>4. takes => D[i] < A[i + 1]
    BY <2>2, <2>3, TimeOn
  <2> HIDE DEF takes
  <2> QED BY <2>1, <2>2, <2>4
<1> HIDE DEF takes
<1>7. ASSUME NEW m \in i..((j - 1) - 1), m \in P PROVE m + 1 \in P
  <2>1. m \in i..(j - 1) /\ m + 1 \in i..(j - 1) /\ m + 1 < j /\ i \in i..(j - 1)
    BY <1>4, <1>5
  <2>2. A[m + 1] <= D[m + 1] /\ D[m + 1] <= A[(m + 1) + 1] /\ A[m + 1] \in Nat /\ D[m + 1] \in Nat
        /\ A[(m + 1) + 1] \in Nat /\ D[i] \in Nat
    BY <1>4, <2>1
  <2>3. D[i] <= A[m + 1] /\ (takes => D[i] < A[m + 1])
    BY <1>7
  <2> QED BY <2>1, <2>2, <2>3
<1>8. j - 1 \in P
  <2>1. j - 1 \in Nat /\ j - 1 \in i..(j - 1)
    BY <1>4, <1>5
  <2> HIDE DEF P
  <2> QED BY <1>5, <1>6, <1>7, <2>1, Climb
<1>9. (j - 1) + 1 = j /\ j - 1 \in i..(j - 1) /\ i \in i..(j - 1)
  BY <1>4, <1>5
<1>10. D[i] \in Nat /\ A[j] \in Nat /\ D[i] <= A[j] /\ (takes => D[i] < A[j])
  BY <1>4, <1>8, <1>9
<1> QED BY <1>4, <1>5, <1>10 DEF takes

LEMMA ReachIs ==
  ASSUME NEW n, NEW q, NEW iv, NEW all, NEW P, Starts(n, q, iv, all) \subseteq P,
         \A p \in P : Boarded(n, p, all) \cup Walked(n, p) \subseteq P
  PROVE  LET f == Reach(n, q, iv, all) IN
         /\ f[1] = Starts(n, q, iv, all)
         /\ \A k \in 2..Legs : f[k] = Further(n, all, f[k - 1])
         /\ \A k \in 1..Legs : f[k] \subseteq P
<1> DEFINE V(f) == f = [k \in 1..Legs |-> IF k = 1 THEN Starts(n, q, iv, all) ELSE Further(n, all, f[k - 1])]
           B == CHOOSE f : V(f)
           S == SUBSET P
           g == [X \in S |-> Further(n, all, X)]
           s0 == Starts(n, q, iv, all)
<1>0. Legs \in Nat /\ Legs # 0 /\ Legs - 1 \in Nat
  BY LegsAssumption
<1>1. \A X \in S : Further(n, all, X) \in S
  BY DEF Further
<1>2. g \in [S -> S] /\ \A X \in S : g[X] = Further(n, all, X)
  <2> HIDE DEF S
  <2> QED BY <1>1
<1>3. s0 \in S
  OBVIOUS
<1> HIDE DEF g, S, s0
<1>4. PICK f \in [0..(Legs - 1) -> S] : Iterates(f, s0, g, Legs - 1)
  BY <1>0, <1>2, <1>3, IteratesExist
<1>5. \E h : V(h)
  <2>1. PICK h : h = [k \in 1..Legs |-> f[k - 1]]
    OBVIOUS
  <2>2. ASSUME NEW k \in 1..Legs
        PROVE  h[k] = IF k = 1 THEN s0 ELSE Further(n, all, h[k - 1])
    <3>1. CASE k = 1
      <4>1. k - 1 = 0
        BY <3>1
      <4> QED BY <1>4, <2>1, <3>1, <4>1 DEF Iterates
    <3>2. CASE k # 1
      <4>1. k - 1 \in 1..Legs /\ k - 1 \in 1..(Legs - 1) /\ (k - 1) - 1 \in 0..(Legs - 1)
        BY <1>0, <3>2
      <4>2. h[k] = f[k - 1] /\ h[k - 1] = f[(k - 1) - 1] /\ f[(k - 1) - 1] \in S
        BY <1>4, <2>1, <4>1
      <4>3. f[k - 1] = g[f[(k - 1) - 1]]
        BY <1>4, <4>1 DEF Iterates
      <4> QED BY <1>2, <3>2, <4>2, <4>3
    <3> QED BY <3>1, <3>2
  <2>3. V(h)
    BY <2>1, <2>2 DEF s0
  <2> QED BY <2>3
<1>6. V(B)
  BY <1>5
<1> HIDE DEF B
<1>7. /\ B[1] = s0
      /\ \A k \in 2..Legs : B[k] = Further(n, all, B[k - 1])
  <2>1. 1 \in 1..Legs
    BY <1>0
  <2>2. ASSUME NEW k \in 2..Legs PROVE B[k] = Further(n, all, B[k - 1])
    <3>1. k \in 1..Legs /\ k # 1
      OBVIOUS
    <3> QED BY <1>6, <3>1
  <2>3. B[1] = s0
    BY <1>6, <2>1 DEF s0
  <2> QED BY <2>2, <2>3
<1> HIDE DEF V
<1>8. \A k \in 1..Legs : B[k] \in S
  <2> DEFINE Q == {k \in 1..Legs : B[k] \in S}
  <2>1. 1 \in Q
    BY <1>0, <1>3, <1>7
  <2>2. ASSUME NEW k \in 1..(Legs - 1), k \in Q PROVE k + 1 \in Q
    <3>1. k + 1 \in 2..Legs /\ (k + 1) - 1 = k /\ k + 1 \in 1..Legs
      BY <1>0
    <3> QED BY <1>1, <1>7, <2>2, <3>1
  <2>3. \A k \in 1..Legs : k \in Q
    <3> HIDE DEF Q
    <3>1. 1 \in Nat
      OBVIOUS
    <3> QED BY <1>0, <2>1, <2>2, <3>1, Climb
  <2> QED BY <2>3
<1>9. B = Reach(n, q, iv, all)
  BY DEF B, V, Reach
<1> QED BY <1>7, <1>8, <1>9 DEF S, s0

LEMMA JourneysWithin ==
  ASSUME NEW n, NEW q, NEW iv, NEW all, NEW P, Keeps(n, q, iv, all, P),
         NEW j \in JourneysOn(n, q, iv, all)
  PROVE  EndsIn(q, j, P)
<1>1. JourneysOn(n, q, iv, all) =
        {[start |-> p.start, now |-> p.arr, transfers |-> p.rides] :
           p \in {x \in Reach(n, q, iv, all)[Legs] : x.at = q.to /\ x.rides <= MaxTransfers}}
  BY DEF JourneysOn, Reach, Further
<1>2. Legs \in 1..Legs
  BY LegsAssumption
<1>3. Reach(n, q, iv, all)[Legs] \subseteq P
  BY <1>2, ReachIs DEF Keeps
<1> QED BY <1>1, <1>3 DEF EndsIn

LEMMA AfterIs ==
  ASSUME NEW n, IsNetwork(n), NEW x \in Rides(n), NEW s \in Nat, s <= x.dep, NEW k \in Nat
  PROVE  LET p == After(n, s, x, k) IN
         /\ p \in Positions(n) /\ p.start = s /\ p.at = x.to /\ p.arr = x.arr /\ p.rides = k
         /\ p.ready = x.arr + n.transfer[x.to] /\ n.transfer[x.to] \in Nat
<1>1. x.dep \in Nat /\ x.arr \in Nat /\ x.dep <= x.arr /\ x.to \in 1..n.stations
  BY RideTimes
<1>2. n.transfer[x.to] \in Nat
  BY <1>1 DEF IsNetwork
<1>3. After(n, s, x, k) = [start |-> s, at |-> x.to, arr |-> x.arr, ready |-> x.arr + n.transfer[x.to],
                           rides |-> k]
  BY DEF After, Position
<1> QED BY <1>1, <1>2, <1>3 DEF Positions

LEMMA WalkIs ==
  ASSUME NEW n, IsNetwork(n), NEW w \in n.walks, NEW p \in Positions(n)
  PROVE  LET c == Position(p.start, w.to, p.arr + w.time, p.arr + w.time, p.rides) IN
         /\ c \in Positions(n) /\ c.start = p.start /\ c.at = w.to /\ c.arr = p.arr + w.time
         /\ c.ready = p.arr + w.time /\ c.rides = p.rides /\ w.time \in Nat
<1>1. w.to \in 1..n.stations /\ w.time \in Nat
  BY DEF IsNetwork
<1>2. p.start \in Nat /\ p.arr \in Nat /\ p.rides \in Nat /\ p.start <= p.arr
  BY DEF Positions
<1> QED BY <1>1, <1>2 DEF Positions, Position
----------------------------------------------------------------------------
(* When the search is over                                                 *)

LEMMA RoomIs ==
  ASSUME Prepared, NEW l, GoodLabel(l)
  PROVE  Filtered(l) <=> ~Room(l.node, l.start, l.now, l.transfers)
<1>1. /\ lb.transfers[LbNode(l.node)] \in Nat /\ lb.travel[l.node.station] \in Nat
      /\ l.start \in Nat /\ l.now \in Nat /\ l.transfers \in Nat
      /\ MaxTravelTime \in Nat /\ MaxTransfers \in Nat
  BY LbIs, GraphIs DEF GoodLabel
<1> QED BY <1>1 DEF Filtered, Room, TravelTimeLb, TravelTime, TransfersLb

LEMMA SettledIs ==
  ASSUME Settled
  PROVE  /\ Prepared /\ IsNetwork(net) /\ edges = Edges(net)
         /\ interval.begin \in Nat /\ interval.end \in Nat
         /\ \A s \in StartsIn(interval.begin, interval.end) : Begins(s)
         /\ \A b \in kept :
              /\ GoodLabel(LabelAt(b)) /\ OriginOf(LabelAt(b)) /\ LabelAt(b).node # Goal
              /\ \/ LET l == LabelAt(b) IN AnsweredAt(l.node, l.start, l.now, l.transfers)
                 \/ \A e \in ToSet(edges[LabelAt(b).node]) : Relaxed(b, e)
<1>1. Prepared /\ Clocks /\ Places /\ Origins /\ Explored /\ Begun /\ IInv
  BY DEF Settled, CInv
<1>2. Queued = {} /\ ToSet(todo) = {} /\ pc = "search"
  BY ToSetEmpty DEF Settled, SearchOver, Exhausted, Queued
<1>3. interval.begin \in Nat /\ interval.end \in Nat
  BY <1>1, RoutingAssumption DEF Clocks
<1>4. \A s \in StartsIn(interval.begin, interval.end) : Begins(s)
  <2>1. ToSet(starts) = {}
    BY <1>1, <1>2, ToSetEmpty DEF Clocks
  <2> QED BY <1>1, <2>1 DEF Begun
<1>5. ASSUME NEW b \in kept
      PROVE  /\ GoodLabel(LabelAt(b)) /\ OriginOf(LabelAt(b)) /\ LabelAt(b).node # Goal
             /\ \/ LET l == LabelAt(b) IN AnsweredAt(l.node, l.start, l.now, l.transfers)
                \/ \A e \in ToSet(edges[LabelAt(b).node]) : Relaxed(b, e)
  <2>1. b \in LiveIn(mem)
    BY <1>1, InUse
  <2>2. OriginOf(LabelAt(b))
    BY <1>1, <2>1 DEF Origins, OriginOf
  <2> QED BY <1>1, <1>2, <2>1, <2>2 DEF Places, Explored
<1> QED BY <1>1, <1>3, <1>4, <1>5 DEF Prepared

(* What serves a label serves every worse one.                             *)
LEMMA AnsweredLater ==
  ASSUME Settled, NEW v \in Nodes(net), NEW w \in Nodes(net),
         NEW s1 \in Nat, NEW t1 \in Nat, NEW x1 \in Nat, NEW s \in Nat, NEW t \in Nat, NEW x \in Nat,
         AnsweredAt(v, s1, t1, x1), s <= s1, t1 <= t,
         x1 + lb.transfers[LbNode(v)] <= x + lb.transfers[LbNode(w)]
  PROVE  AnsweredAt(w, s, t, x)
<1>1. PICK j \in Answers : s1 <= j.start /\ j.now <= t1 /\ j.transfers <= x1 + lb.transfers[LbNode(v)]
  BY DEF AnsweredAt
<1>2. Times(j)
  BY TimesOf DEF Settled, CInv
<1>3. lb.transfers[LbNode(v)] \in Nat /\ lb.transfers[LbNode(w)] \in Nat
  BY LbIs, SettledIs
<1> QED BY <1>1, <1>2, <1>3 DEF Times, AnsweredAt

LEMMA ServedLater ==
  ASSUME Settled, NEW v \in Nodes(net),
         NEW s1 \in Nat, NEW t1 \in Nat, NEW x1 \in Nat, NEW s \in Nat, NEW t \in Nat, NEW x \in Nat,
         ServedAt(v, s1, t1, x1), s <= s1, t1 <= t, x1 <= x
  PROVE  ServedAt(v, s, t, x)
<1>1. CASE AnsweredAt(v, s1, t1, x1)
  <2>1. lb.transfers[LbNode(v)] \in Nat
    BY LbIs, SettledIs
  <2>2. AnsweredAt(v, s, t, x)
    BY <1>1, <2>1, AnsweredLater
  <2> QED BY <2>2 DEF ServedAt
<1>2. CASE KeptAt(v, s1, t1, x1)
  <2>1. PICK b \in kept : /\ LabelAt(b).node = v /\ s1 <= LabelAt(b).start
                          /\ LabelAt(b).now <= t1 /\ LabelAt(b).transfers <= x1
    BY <1>2 DEF KeptAt
  <2>2. GoodLabel(LabelAt(b))
    BY SettledIs
  <2>3. KeptAt(v, s, t, x)
    BY <2>1, <2>2 DEF KeptAt, GoodLabel
  <2> QED BY <2>3 DEF ServedAt
<1> QED BY <1>1, <1>2 DEF ServedAt

LEMMA GoalServed ==
  ASSUME Settled, NEW s, NEW t, NEW x, ServedAt(Goal, s, t, x)
  PROVE  AnsweredAt(Goal, s, t, x)
BY SettledIs DEF ServedAt, KeptAt

LEMMA EdgeStep ==
  ASSUME Settled, NEW v \in Nodes(net), v # Goal, NEW e \in ToSet(edges[v]),
         NEW s \in Nat, NEW t \in Nat, NEW x \in Nat, NEW t2 \in Nat, NEW x2 \in Nat,
         ServedAt(v, s, t, x), t <= t2, x <= x2,
         x + lb.transfers[LbNode(v)] <= x2 + lb.transfers[LbNode(e.to)],
         Room(e.to, s, t2, x2), \A b \in kept : Serves(b, v, e, s, t, x, t2, x2)
  PROVE  ServedAt(e.to, s, t2, x2)
<1>1. /\ Prepared /\ IsNetwork(net) /\ edges = Edges(net)
  BY SettledIs
<1>2. e.to \in Nodes(net)
  BY <1>1, EdgeIs DEF IsEdge
<1>n. /\ lb.transfers[LbNode(v)] \in Nat /\ lb.transfers[LbNode(e.to)] \in Nat
      /\ lb.travel[e.to.station] \in Nat
  BY <1>1, <1>2, LbIs
<1>3. CASE AnsweredAt(v, s, t, x)
  <2>1. AnsweredAt(e.to, s, t2, x2)
    BY <1>2, <1>3, AnsweredLater
  <2> QED BY <2>1 DEF ServedAt
<1>4. CASE KeptAt(v, s, t, x)
  <2>1. PICK b \in kept : /\ LabelAt(b).node = v /\ s <= LabelAt(b).start
                          /\ LabelAt(b).now <= t /\ LabelAt(b).transfers <= x
    BY <1>4 DEF KeptAt
  <2> DEFINE l == LabelAt(b)
             m == Along(b, e)
  <2>2. /\ GoodLabel(l) /\ OriginOf(l)
        /\ l.start \in Nat /\ l.now \in Nat /\ l.transfers \in Nat
        /\ \/ AnsweredAt(l.node, l.start, l.now, l.transfers)
           \/ \A y \in ToSet(edges[l.node]) : Relaxed(b, y)
    BY SettledIs DEF GoodLabel
  <2>3. CASE AnsweredAt(l.node, l.start, l.now, l.transfers)
    <3>1. AnsweredAt(e.to, s, t2, x2)
      <4>1. l.now <= t2 /\ l.transfers + lb.transfers[LbNode(v)] <= x2 + lb.transfers[LbNode(e.to)]
        BY <1>n, <2>1, <2>2
      <4> QED BY <1>2, <2>1, <2>2, <2>3, <4>1, AnsweredLater
    <3> QED BY <3>1 DEF ServedAt
  <2>4. CASE Relaxed(b, e)
    <3>1. SUFFICES ASSUME CostAlong(l, e).valid, m.now <= t2, m.transfers <= x2,
                          ~(PretripStart(l) /\ e.to = StationNode(query.from))
                   PROVE  ServedAt(e.to, s, t2, x2)
      BY <2>1 DEF Serves
    <3>2. GoodLabel(m) /\ m.start = l.start /\ m.node = e.to
      BY <1>1, <2>1, <2>2, <3>1, AlongIs DEF StepFrom
    <3>3. ~Filtered(m)
      <4>1. m.start \in Nat /\ m.now \in Nat /\ m.transfers \in Nat /\ s <= m.start
        BY <2>1, <3>2 DEF GoodLabel
      <4>2. MaxTravelTime \in Nat /\ MaxTransfers \in Nat
        BY GraphIs
      <4>3. /\ (t2 - s) + lb.travel[e.to.station] <= MaxTravelTime
            /\ x2 + lb.transfers[LbNode(e.to)] <= MaxTransfers
        BY DEF Room
      <4> HIDE DEF m, l
      <4>4. /\ (m.now - m.start) + lb.travel[e.to.station] <= MaxTravelTime
            /\ m.transfers + lb.transfers[LbNode(e.to)] <= MaxTransfers
        BY <1>n, <3>1, <4>1, <4>2, <4>3
      <4>5. Room(m.node, m.start, m.now, m.transfers)
        BY <3>2, <4>4 DEF Room
      <4> QED BY <1>1, <3>2, <4>5, RoomIs
    <3>4. CASE Creates(b, e)
      <4>1. ServedAt(m.node, m.start, m.now, m.transfers)
        BY <2>4, <3>4 DEF Relaxed, Served
      <4> HIDE DEF m
      <4> QED BY <1>2, <2>1, <3>1, <3>2, <4>1, ServedLater DEF GoodLabel
    <3>5. CASE ~Creates(b, e)
      <4>1. l.pred # NoAddress /\ e.to = LabelAt(l.pred).node
        BY <3>1, <3>3, <3>5 DEF Creates, LabelAt
      <4>2. StepFrom(LabelAt(l.pred), l) /\ Served(LabelAt(l.pred))
        BY <2>2, <3>1, <4>1 DEF OriginOf
      <4>3. PICK k : k = LabelAt(l.pred)
        OBVIOUS
      <4>4. l.pred \in LiveIn(mem)
        BY <4>1, InUse DEF Settled
      <4>5. GoodLabel(k)
        BY <4>3, <4>4 DEF Settled, CInv, Places
      <4>6. ServedAt(e.to, k.start, k.now, k.transfers)
        BY <4>1, <4>2, <4>3 DEF Served
      <4>7. k.start = l.start /\ k.now <= l.now /\ k.transfers <= l.transfers
        BY <4>2, <4>3 DEF StepFrom
      <4>8. s <= k.start /\ k.now <= t2 /\ k.transfers <= x2
        BY <2>1, <2>2, <4>5, <4>7 DEF GoodLabel
      <4> QED BY <1>2, <4>5, <4>6, <4>8, ServedLater DEF GoodLabel
    <3> QED BY <3>4, <3>5
  <2> QED BY <2>1, <2>2, <2>3, <2>4
<1> QED BY <1>3, <1>4 DEF ServedAt
----------------------------------------------------------------------------
(* The edges a journey takes                                               *)

LEMMA StopNode ==
  ASSUME Settled, NEW r \in DOMAIN net.routes, NEW i \in DOMAIN net.routes[r].stops
  PROVE  LET v == RouteNode(net, r, i)
             a == net.routes[r].stops[i] IN
         /\ v \in Nodes(net) /\ v # Goal /\ v.kind = "route" /\ v.station = a /\ a \in 1..net.stations
         /\ LbNode(v) = net.stations + r
         /\ ToSet(edges[v]) = StopEdges(net, r, i)
<1>1. Prepared /\ IsNetwork(net) /\ edges = Edges(net)
  BY SettledIs
<1>2. net.routes[r].stops[i] \in 1..net.stations
  BY <1>1, RouteIs
<1> QED BY <1>1, <1>2, NodesAre, EdgesAt DEF RouteNode, Goal, StationNode, LbNode

LEMMA StationIs ==
  ASSUME Settled, NEW a \in 1..net.stations
  PROVE  LET v == StationNode(a) IN
         /\ v \in Nodes(net) /\ v.kind = "station" /\ v.station = a /\ LbNode(v) = a
         /\ v = Goal <=> a = query.to
         /\ ToSet(edges[v]) = StationEdges(net, a)
         /\ FootNode(a) \in FootNodes(net) =>
              /\ FootNode(a) \in Nodes(net) /\ FootNode(a).kind = "foot" /\ FootNode(a).station = a
              /\ LbNode(FootNode(a)) = a /\ FootNode(a) # Goal
              /\ ToSet(edges[FootNode(a)]) = FootEdges(net, a)
<1>1. Prepared /\ IsNetwork(net) /\ edges = Edges(net)
  BY SettledIs
<1> QED BY <1>1, NodesAre, EdgesAt DEF FootNode, Goal, StationNode, LbNode

LEMMA SectionStep ==
  ASSUME Settled, NEW r \in DOMAIN net.routes, NEW m \in Sections(net, r),
         NEW dep \in Nat, NEW arr \in Nat, dep <= arr, RunsAs(net, r, m, dep, arr),
         NEW s \in Nat, NEW k \in Nat,
         ServedAt(RouteNode(net, r, m), s, dep, k), Room(RouteNode(net, r, m + 1), s, arr, k)
  PROVE  ServedAt(RouteNode(net, r, m + 1), s, arr, k)
<1>1. Prepared /\ IsNetwork(net) /\ DifferentMinutes(net) /\ NoOvertaking(net)
  BY SettledIs DEF Prepared
<1>2. m \in DOMAIN net.routes[r].stops /\ m + 1 \in DOMAIN net.routes[r].stops
  BY <1>1, RouteIs
<1> DEFINE v == RouteNode(net, r, m)
           w == RouteNode(net, r, m + 1)
           e == RideEdge(net, r, m)
           S == SectionsOf(net, r, m)
<1>3. e \in ToSet(edges[v]) /\ e.type = "ROUTE" /\ e.to = w /\ e.from = v /\ e.row = Row(net, r, m)
  <2>1. e \in StopEdges(net, r, m)
    BY DEF StopEdges
  <2>2. ToSet(edges[v]) = StopEdges(net, r, m)
    BY <1>2, StopNode
  <2> QED BY <2>1, <2>2 DEF RideEdge, Edge
<1>4. /\ v \in Nodes(net) /\ w \in Nodes(net) /\ v # Goal /\ LbNode(v) = LbNode(w) /\ w.kind = "route"
      /\ lb.travel[w.station] \in Nat /\ MaxTravelTime \in Nat /\ Day \in Nat
  BY <1>1, <1>2, StopNode, LbIs, GraphIs
<1>5. IsRow(e.row, S)
  BY <1>1, <1>3, RowIs
<1>6. PICK c \in S : \E f \in c.days :
        IsSection(c) /\ c.valid /\ f \in Nat /\ f <= LastDay /\ On(c, f).dep = dep /\ On(c, f).arr = arr
  BY DEF RunsAs
<1>7. PICK f \in c.days :
        IsSection(c) /\ c.valid /\ f \in Nat /\ f <= LastDay /\ On(c, f).dep = dep /\ On(c, f).arr = arr
  BY <1>6
<1>8. ASSUME NEW b \in kept PROVE Serves(b, v, e, s, dep, k, arr, k)
  <2> DEFINE l == LabelAt(b)
             g == GetConnection(e.row, l.now)
  <2>1. SUFFICES ASSUME l.node = v, s <= l.start, l.now <= dep, l.transfers <= k
                 PROVE  /\ CostAlong(l, e).valid /\ Along(b, e).now <= arr /\ Along(b, e).transfers <= k
                        /\ ~(PretripStart(l) /\ e.to = StationNode(query.from))
    BY DEF Serves
  <2>2. GoodLabel(l)
    BY SettledIs
  <2>3. l.now \in Nat /\ l.start \in Nat /\ l.start <= l.now /\ l.transfers \in Nat
    BY <2>2 DEF GoodLabel
  <2>4. dep <= l.now + MaxTravelTime
    <3>1. (arr - s) + lb.travel[w.station] <= MaxTravelTime
      BY DEF Room
    <3> HIDE DEF l, w
    <3> QED BY <1>4, <2>1, <2>3, <3>1
  <2>5. Runs(c, f, l.now)
    BY <1>7, <2>1 DEF Runs, On
  <2>6. /\ g = None \/ \E y \in S : \E d \in y.days : Runs(y, d, l.now) /\ g = On(y, d)
        /\ g # None /\ g.dep <= dep
    <3>1. /\ \/ g = None
             \/ \E y \in S : \E d \in y.days : Runs(y, d, l.now) /\ g = On(y, d)
          /\ \A y \in S : \A d \in y.days :
              Runs(y, d, l.now) /\ On(y, d).dep <= l.now + MaxTravelTime =>
                g # None /\ g.dep <= On(y, d).dep
      BY <1>5, <2>3, GetConnectionIs
    <3> HIDE DEF g, l
    <3> QED BY <3>1, <1>7, <2>4, <2>5
  <2>7. PICK y \in S : \E d \in y.days : Runs(y, d, l.now) /\ g = On(y, d)
    BY <2>6
  <2>8. PICK d \in y.days : Runs(y, d, l.now) /\ g = On(y, d)
    BY <2>7
  <2>9. g.arr <= arr /\ g.arr \in Nat
    <3>1. IsSection(y)
      BY <1>5 DEF IsRow
    <3>2. d \in Nat /\ y.valid
      BY <2>8, <3>1 DEF IsSection, Runs
    <3>3. PICK t, u \in DOMAIN net.routes[r].trips :
            y = SectionOf(net.routes[r].trips[t], m) /\ c = SectionOf(net.routes[r].trips[u], m)
      BY DEF SectionsOf
    <3>4. d * Day + y.dep <= f * Day + c.dep
      BY <2>6, <2>8, <1>7 DEF On
    <3>5. d * Day + y.arr <= f * Day + c.arr
      BY <1>1, <1>7, <3>2, <3>3, <3>4 DEF NoOvertaking
    <3> QED BY <1>7, <2>8, <3>1, <3>2, <3>5, OnIs DEF On
  <2>10. CostAlong(l, e) = [valid |-> TRUE, time |-> g.arr - l.now, transfer |-> FALSE, train |-> g]
    BY <1>3, <2>6 DEF CostAlong, EdgeCost
  <2>11. Along(b, e).now = g.arr /\ Along(b, e).transfers = l.transfers
    <3>1. e.to # StationNode(query.to)
      BY <1>3, <1>4 DEF StationNode
    <3>2. Along(b, e).now = l.now + (g.arr - l.now)
      BY <2>10, <3>1 DEF Along, Label, LabelAt
    <3>3. Along(b, e).transfers = l.transfers + 0
      BY <2>10 DEF Along, Label, LabelAt
    <3> HIDE DEF g, l, e
    <3> QED BY <2>3, <2>9, <3>2, <3>3
  <2>12. e.to # StationNode(query.from)
    BY <1>3, <1>4 DEF StationNode
  <2> HIDE DEF g, l, e
  <2> QED BY <2>1, <2>9, <2>10, <2>11, <2>12
<1> HIDE DEF e, v, w
<1>9. dep <= arr /\ k <= k /\ ServedAt(v, s, dep, k) /\ Room(w, s, arr, k)
  BY DEF v, w
<1>10. lb.transfers[LbNode(v)] \in Nat /\ k + lb.transfers[LbNode(v)] <= k + lb.transfers[LbNode(w)]
  BY <1>1, <1>4, LbIs
<1>11. ServedAt(e.to, s, arr, k)
  BY <1>3, <1>4, <1>8, <1>9, <1>10, EdgeStep
<1> QED BY <1>3, <1>11 DEF w

LEMMA RideStep ==
  ASSUME Settled, NEW x, NEW r \in DOMAIN net.routes,
         NEW i \in DOMAIN net.routes[r].stops, NEW j \in DOMAIN net.routes[r].stops, NEW D, NEW A,
         IsRide(net, x, r, i, j, D, A), NEW s \in Nat, NEW k \in Nat,
         Leads(RouteNode(net, r, i), s, D[i], k)
  PROVE  Leads(RouteNode(net, r, j), s, A[j], k)
<1>1. Prepared /\ IsNetwork(net) /\ DifferentMinutes(net)
  BY SettledIs DEF Prepared
<1>2. /\ i < j
      /\ \A m \in i..(j - 1) :
           /\ m \in Sections(net, r) /\ D[m] \in Nat /\ A[m + 1] \in Nat /\ D[m] <= A[m + 1]
           /\ RunsAs(net, r, m, D[m], A[m + 1])
           /\ m + 1 < j => A[m + 1] <= D[m + 1]
  BY DEF IsRide
<1> SUFFICES ASSUME Room(RouteNode(net, r, j), s, A[j], k) PROVE ServedAt(RouteNode(net, r, j), s, A[j], k)
  BY DEF Leads
<1>3. i \in Nat /\ j \in Nat /\ i + 1 \in Nat /\ i + 1 \in (i + 1)..j /\ j \in (i + 1)..j
  <2>1. DOMAIN net.routes[r].stops = 1..Len(net.routes[r].stops) /\ Len(net.routes[r].stops) \in Nat
    BY <1>1, RouteIs
  <2>2. i \in Nat /\ j \in Nat
    BY <2>1
  <2> QED BY <1>2, <2>2
<1>4. ASSUME NEW m \in i..(j - 1)
      PROVE  /\ m \in DOMAIN net.routes[r].stops /\ m + 1 \in DOMAIN net.routes[r].stops
             /\ m \in Nat /\ m + 1 \in Nat
  BY <1>1, <1>2, RouteIs
<1> DEFINE Roomy == {m \in (i + 1)..j : Room(RouteNode(net, r, m), s, A[m], k)}
           Known == {m \in (i + 1)..j : ServedAt(RouteNode(net, r, m), s, A[m], k)}
<1>5. ASSUME NEW m \in i..(j - 1), m + 1 \in Roomy PROVE Room(RouteNode(net, r, m), s, D[m], k)
  <2>2. /\ m \in Sections(net, r) /\ m \in DOMAIN net.routes[r].stops /\ m + 1 \in DOMAIN net.routes[r].stops
        /\ RunsAs(net, r, m, D[m], A[m + 1]) /\ D[m] \in Nat /\ A[m + 1] \in Nat
    BY <1>2, <1>4
  <2>3. PICK c \in SectionsOf(net, r, m) : \E f \in c.days :
          IsSection(c) /\ f \in Nat /\ On(c, f).dep = D[m] /\ On(c, f).arr = A[m + 1]
    BY <2>2 DEF RunsAs
  <2>4. PICK f \in c.days : IsSection(c) /\ f \in Nat /\ On(c, f).dep = D[m] /\ On(c, f).arr = A[m + 1]
    BY <2>3
  <2>5. c.arr - c.dep = A[m + 1] - D[m]
    <3>1. D[m] = f * Day + c.dep /\ A[m + 1] = f * Day + c.arr
      BY <2>4 DEF On
    <3>2. f * Day \in Nat /\ c.dep \in Nat /\ c.arr \in Nat
      BY <2>4, GraphIs DEF IsSection
    <3> QED BY <3>1, <3>2
  <2> DEFINE a == net.routes[r].stops[m]
             z == net.routes[r].stops[m + 1]
  <2>6. lb.travel[a] <= (c.arr - c.dep) + lb.travel[z] /\ lb.travel[a] \in Nat /\ lb.travel[z] \in Nat
    <3>1. query.to \in 1..net.stations /\ lb.travel = StationGraphBounds(net, query.to)
      BY <1>1 DEF Prepared, IsQuery
    <3>2. a \in 1..net.stations /\ z \in 1..net.stations
      BY <1>1, <2>2, RouteIs
    <3> QED BY <1>1, <2>2, <3>1, <3>2, TravelBounds
  <2>7. /\ RouteNode(net, r, m).station = a /\ RouteNode(net, r, m + 1).station = z
        /\ LbNode(RouteNode(net, r, m)) = LbNode(RouteNode(net, r, m + 1))
    BY <2>2, StopNode
  <2>8. (A[m + 1] - s) + lb.travel[z] <= MaxTravelTime /\ k + lb.transfers[LbNode(RouteNode(net, r, m))] <= MaxTransfers
    BY <1>5, <2>7 DEF Room
  <2>9. MaxTravelTime \in Nat
    BY GraphIs
  <2> HIDE DEF a, z
  <2>10. (D[m] - s) + lb.travel[a] <= MaxTravelTime
    BY <2>2, <2>5, <2>6, <2>8, <2>9
  <2> QED BY <2>7, <2>8, <2>10 DEF Room
<1>a. ASSUME NEW m \in (i + 1)..(j - 1), m + 1 \in Roomy PROVE m \in Roomy
  <2>1. m \in i..(j - 1) /\ m \in (i + 1)..j /\ m - 1 \in i..(j - 1) /\ (m - 1) + 1 = m /\ m < j
    BY <1>3
  <2>2. A[m] <= D[m] /\ A[m] \in Nat /\ D[m] \in Nat
    BY <1>2, <2>1
  <2>3. (D[m] - s) + lb.travel[RouteNode(net, r, m).station] <= MaxTravelTime
    BY <1>5, <1>a, <2>1 DEF Room
  <2>4. lb.travel[RouteNode(net, r, m).station] \in Nat /\ MaxTravelTime \in Nat
    BY <1>1, <1>4, <2>1, StopNode, LbIs, GraphIs
  <2>5. (A[m] - s) + lb.travel[RouteNode(net, r, m).station] <= MaxTravelTime
    BY <2>2, <2>3, <2>4
  <2> QED BY <1>5, <1>a, <2>1, <2>5 DEF Room
<1>6. \A m \in (i + 1)..j : m \in Roomy
  <2>1. j \in Roomy
    BY <1>3
  <2> HIDE DEF Roomy
  <2> QED BY <1>3, <1>a, <2>1, Descend
<1>7. i + 1 \in Known
  <2>1. i \in i..(j - 1)
    BY <1>2, <1>3
  <2>2. i + 1 \in Roomy
    BY <1>3, <1>6
  <2>4. ServedAt(RouteNode(net, r, i), s, D[i], k)
    BY <1>5, <2>1, <2>2 DEF Leads
  <2>3. ServedAt(RouteNode(net, r, i + 1), s, A[i + 1], k)
    BY <1>2, <2>1, <2>2, <2>4, SectionStep
  <2> QED BY <1>3, <2>3
<1>8. ASSUME NEW m \in (i + 1)..(j - 1), m \in Known PROVE m + 1 \in Known
  <2>1. m \in i..(j - 1) /\ m + 1 \in (i + 1)..j /\ m - 1 \in i..(j - 1) /\ (m - 1) + 1 = m /\ m < j
    BY <1>3
  <2>2. /\ m \in Sections(net, r) /\ RunsAs(net, r, m, D[m], A[m + 1]) /\ D[m] <= A[m + 1]
        /\ A[m] <= D[m] /\ A[m] \in Nat /\ D[m] \in Nat /\ A[m + 1] \in Nat
    BY <1>2, <2>1
  <2>3. ServedAt(RouteNode(net, r, m), s, A[m], k)
    BY <1>8
  <2>4. RouteNode(net, r, m) \in Nodes(net)
    BY <1>4, <2>1, StopNode
  <2>5. ServedAt(RouteNode(net, r, m), s, D[m], k)
    BY <2>2, <2>3, <2>4, ServedLater
  <2>6. m + 1 \in Roomy
    BY <1>6, <2>1
  <2>7. ServedAt(RouteNode(net, r, m + 1), s, A[m + 1], k)
    BY <2>2, <2>5, <2>6, SectionStep
  <2> QED BY <2>1, <2>7
<1>9. \A m \in (i + 1)..j : m \in Known
  <2> HIDE DEF Known
  <2> QED BY <1>3, <1>7, <1>8, Climb
<1> QED BY <1>3, <1>9

(* The edges of a station.                                                 *)
LEMMA BoardStep ==
  ASSUME Settled, NEW r \in DOMAIN net.routes, NEW i \in DOMAIN net.routes[r].stops,
         net.routes[r].enter[i], net.routes[r].stops[i] # query.to,
         NEW s \in Nat, NEW ready \in Nat, NEW dep \in Nat, NEW k \in Nat, ready <= dep,
         ServedAt(StationNode(net.routes[r].stops[i]), s, ready, k),
         Room(RouteNode(net, r, i), s, dep, k)
  PROVE  ServedAt(RouteNode(net, r, i), s, dep, k)
<1>1. Prepared /\ IsNetwork(net)
  BY SettledIs
<1> DEFINE a == net.routes[r].stops[i]
           v == StationNode(a)
           w == RouteNode(net, r, i)
           e == BoardEdge(net, r, i)
<1>2. /\ a \in 1..net.stations /\ w \in Nodes(net) /\ w.kind = "route" /\ LbNode(w) = net.stations + r
      /\ v \in Nodes(net) /\ v # Goal /\ v.kind = "station" /\ LbNode(v) = a /\ v.station = a
      /\ ToSet(edges[v]) = StationEdges(net, a)
  <2>1. a \in 1..net.stations /\ w \in Nodes(net) /\ w.kind = "route" /\ LbNode(w) = net.stations + r
    BY StopNode
  <2> QED BY <2>1, StationIs
<1>3. /\ e \in ToSet(edges[v]) /\ e.to = w /\ e.from = v /\ e.type = "FOOT" /\ e.time = 0 /\ e.transfer = FALSE
  <2>1. <<r, i>> \in StopsAt(net, a)
    BY <1>1, StopsAre DEF StopsAt
  <2>2. e \in StationEdges(net, a)
    BY <2>1 DEF StationEdges
  <2> QED BY <1>2, <2>2 DEF BoardEdge, Edge
<1>4. ASSUME NEW b \in kept PROVE Serves(b, v, e, s, ready, k, dep, k)
  <2> DEFINE l == LabelAt(b)
  <2>1. SUFFICES ASSUME l.node = v, s <= l.start, l.now <= ready, l.transfers <= k
                 PROVE  /\ CostAlong(l, e).valid /\ Along(b, e).now <= dep /\ Along(b, e).transfers <= k
                        /\ ~(PretripStart(l) /\ e.to = StationNode(query.from))
    BY DEF Serves
  <2>2. GoodLabel(l)
    BY SettledIs
  <2>3. l.now \in Nat /\ l.transfers \in Nat
    BY <2>2 DEF GoodLabel
  <2>4. CostAlong(l, e) = [valid |-> TRUE, time |-> 0, transfer |-> FALSE, train |-> None]
    BY <1>3 DEF CostAlong, EdgeCost
  <2>5. Along(b, e).now = l.now + 0 /\ Along(b, e).transfers = l.transfers + 0
    BY <2>4 DEF Along, Label, LabelAt
  <2>6. e.to # StationNode(query.from)
    BY <1>2, <1>3 DEF StationNode
  <2> HIDE DEF l, e
  <2> QED BY <2>1, <2>3, <2>4, <2>5, <2>6
<1>5. lb.transfers[LbNode(v)] \in Nat /\ lb.transfers[LbNode(w)] \in Nat /\ lb.transfers[LbNode(v)] <= lb.transfers[LbNode(w)]
  <2>1. query.to \in 1..net.stations /\ lb.transfers = InterchangeGraphBounds(net, query.to)
    BY <1>1 DEF Prepared, IsQuery
  <2>2. lb.transfers[a] <= lb.transfers[net.stations + r]
    BY <1>1, <2>1, TransferBounds
  <2> QED BY <1>1, <1>2, <2>2, LbIs
<1> HIDE DEF v, e, w
<1>6. ServedAt(v, s, ready, k) /\ Room(w, s, dep, k)
  BY DEF v, w
<1>7. k + lb.transfers[LbNode(v)] <= k + lb.transfers[LbNode(w)] /\ k <= k
  BY <1>5
<1>8. ServedAt(e.to, s, dep, k)
  BY <1>2, <1>3, <1>4, <1>6, <1>7, EdgeStep
<1> QED BY <1>3, <1>8 DEF w
LEMMA ToFootStep ==
  ASSUME Settled, NEW a \in 1..net.stations, a # query.to, FootNode(a) \in FootNodes(net),
         NEW s \in Nat, NEW t \in Nat, NEW k \in Nat,
         ServedAt(StationNode(a), s, t, k), Room(FootNode(a), s, t, k)
  PROVE  ServedAt(FootNode(a), s, t, k)
<1>1. Prepared /\ IsNetwork(net)
  BY SettledIs
<1> DEFINE v == StationNode(a)
           w == FootNode(a)
           e == ToFootEdge(a)
<1>2. /\ v \in Nodes(net) /\ v # Goal /\ v.kind = "station" /\ LbNode(v) = LbNode(w)
      /\ w \in Nodes(net) /\ w.kind = "foot"
      /\ ToSet(edges[v]) = StationEdges(net, a)
  BY StationIs
<1>3. /\ e \in ToSet(edges[v]) /\ e.to = w /\ e.from = v /\ e.type = "FWD" /\ e.time = 0 /\ e.transfer = FALSE
  <2>1. e \in StationEdges(net, a)
    BY DEF StationEdges
  <2> QED BY <1>2, <2>1 DEF ToFootEdge, Edge
<1>4. ASSUME NEW b \in kept PROVE Serves(b, v, e, s, t, k, t, k)
  <2> DEFINE l == LabelAt(b)
  <2>1. SUFFICES ASSUME l.node = v, s <= l.start, l.now <= t, l.transfers <= k
                 PROVE  /\ CostAlong(l, e).valid /\ Along(b, e).now <= t /\ Along(b, e).transfers <= k
                        /\ ~(PretripStart(l) /\ e.to = StationNode(query.from))
    BY DEF Serves
  <2>2. GoodLabel(l)
    BY SettledIs
  <2>3. l.now \in Nat /\ l.transfers \in Nat
    BY <2>2 DEF GoodLabel
  <2>4. CostAlong(l, e) = [valid |-> TRUE, time |-> 0, transfer |-> FALSE, train |-> None]
    BY <1>3 DEF CostAlong, EdgeCost
  <2>5. Along(b, e).now = l.now + 0 /\ Along(b, e).transfers = l.transfers + 0
    BY <2>4 DEF Along, Label, LabelAt
  <2>6. e.to # StationNode(query.from)
    BY <1>2, <1>3 DEF StationNode
  <2> HIDE DEF l, e
  <2> QED BY <2>1, <2>3, <2>4, <2>5, <2>6
<1>5. lb.transfers[LbNode(v)] \in Nat
  BY <1>1, <1>2, LbIs
<1> HIDE DEF v, e, w
<1>6. ServedAt(v, s, t, k) /\ Room(w, s, t, k)
  BY DEF v, w
<1>7. k + lb.transfers[LbNode(v)] <= k + lb.transfers[LbNode(w)] /\ k <= k /\ t <= t
  BY <1>2, <1>5
<1>8. ServedAt(e.to, s, t, k)
  BY <1>2, <1>3, <1>4, <1>6, <1>7, EdgeStep
<1> QED BY <1>3, <1>8 DEF w

LEMMA WalkBounds ==
  ASSUME Settled, NEW w \in net.walks
  PROVE  /\ w.from \in 1..net.stations /\ w.to \in 1..net.stations /\ w.time \in Nat
         /\ FootNode(w.from) \in FootNodes(net)
         /\ lb.travel[w.from] \in Nat /\ lb.travel[w.to] \in Nat /\ lb.travel[w.from] <= lb.travel[w.to]
         /\ lb.transfers[w.from] \in Nat /\ lb.transfers[w.to] \in Nat
         /\ lb.transfers[w.from] <= lb.transfers[w.to]
<1>1. Prepared /\ IsNetwork(net) /\ DifferentMinutes(net)
  BY SettledIs DEF Prepared
<1>2. w.from \in 1..net.stations /\ w.to \in 1..net.stations /\ w.time \in Nat
  BY <1>1 DEF IsNetwork
<1>3. /\ query.to \in 1..net.stations /\ lb.travel = StationGraphBounds(net, query.to)
      /\ lb.transfers = InterchangeGraphBounds(net, query.to)
  BY <1>1 DEF Prepared, IsQuery
<1>4. lb.travel[w.from] \in Nat /\ lb.travel[w.to] \in Nat /\ lb.travel[w.from] <= lb.travel[w.to]
  BY <1>1, <1>2, <1>3, TravelBounds
<1>5. w.from \in 1..(net.stations + Len(net.routes)) /\ w.to \in 1..(net.stations + Len(net.routes))
  BY <1>1, <1>2, RouteDomain
<1>6. /\ lb.transfers[w.from] \in Nat /\ lb.transfers[w.to] \in Nat
      /\ lb.transfers[w.from] <= lb.transfers[w.to]
  BY <1>1, <1>3, <1>5, TransferBounds
<1> QED BY <1>2, <1>4, <1>6 DEF FootNodes

LEMMA WalkStep ==
  ASSUME Settled, NEW y \in net.walks, y.from # query.to,
         NEW s \in Nat, NEW t \in Nat, NEW k \in Nat,
         ServedAt(FootNode(y.from), s, t, k), Room(StationNode(y.to), s, t + y.time, k)
  PROVE  ServedAt(StationNode(y.to), s, t + y.time, k)
<1>1. Prepared /\ IsNetwork(net)
  BY SettledIs
<1> DEFINE v == FootNode(y.from)
           w == StationNode(y.to)
           e == WalkEdge(y)
<1>2. /\ y.from \in 1..net.stations /\ y.to \in 1..net.stations /\ y.time \in Nat /\ v \in FootNodes(net)
      /\ lb.transfers[y.from] \in Nat /\ lb.transfers[y.to] \in Nat /\ lb.transfers[y.from] <= lb.transfers[y.to]
  BY WalkBounds
<1>3. /\ v \in Nodes(net) /\ v # Goal /\ v.kind = "foot" /\ LbNode(v) = y.from /\ v.station = y.from
      /\ w \in Nodes(net) /\ LbNode(w) = y.to
      /\ ToSet(edges[v]) = FootEdges(net, y.from)
  BY <1>2, StationIs
<1>4. /\ e \in ToSet(edges[v]) /\ e.to = w /\ e.from = v /\ e.type = "FWD" /\ e.time = y.time /\ e.transfer = FALSE
  <2>1. e \in FootEdges(net, y.from)
    BY DEF FootEdges
  <2> QED BY <1>3, <2>1 DEF WalkEdge, Edge
<1>5. ASSUME NEW b \in kept PROVE Serves(b, v, e, s, t, k, t + y.time, k)
  <2> DEFINE l == LabelAt(b)
  <2>1. SUFFICES ASSUME l.node = v, s <= l.start, l.now <= t, l.transfers <= k
                 PROVE  /\ CostAlong(l, e).valid /\ Along(b, e).now <= t + y.time /\ Along(b, e).transfers <= k
                        /\ ~(PretripStart(l) /\ e.to = StationNode(query.from))
    BY DEF Serves
  <2>2. GoodLabel(l)
    BY SettledIs
  <2>3. l.now \in Nat /\ l.transfers \in Nat
    BY <2>2 DEF GoodLabel
  <2>4. CostAlong(l, e) = [valid |-> TRUE, time |-> y.time, transfer |-> FALSE, train |-> None]
    BY <1>4 DEF CostAlong, EdgeCost
  <2>5. Along(b, e).now = l.now + y.time /\ Along(b, e).transfers = l.transfers + 0
    BY <1>3, <1>4, <2>4 DEF Along, Label, LabelAt
  <2>6. ~PretripStart(l)
    BY <1>3, <2>1 DEF PretripStart
  <2> HIDE DEF l, e
  <2> QED BY <1>2, <2>1, <2>3, <2>4, <2>5, <2>6
<1> HIDE DEF v, e, w
<1>6. ServedAt(v, s, t, k) /\ Room(w, s, t + y.time, k)
  BY DEF v, w
<1>7. /\ k + lb.transfers[LbNode(v)] <= k + lb.transfers[LbNode(w)] /\ k <= k
      /\ t <= t + y.time /\ t + y.time \in Nat
  BY <1>2, <1>3
<1>8. ServedAt(e.to, s, t + y.time, k)
  BY <1>3, <1>4, <1>5, <1>6, <1>7, EdgeStep
<1> QED BY <1>4, <1>8 DEF w

(* The edges out of a train.  Where a pretrip query begins it may not be   *)
(* left.                                                                   *)
LEMMA LeaveBounds ==
  ASSUME Settled, NEW r \in DOMAIN net.routes, NEW j \in DOMAIN net.routes[r].stops,
         net.routes[r].leave[j]
  PROVE  LET a == net.routes[r].stops[j]
             v == RouteNode(net, r, j) IN
         /\ lb.transfers[LbNode(v)] \in Nat /\ lb.transfers[a] \in Nat
         /\ lb.transfers[LbNode(v)] <= 1 + lb.transfers[a]
<1>1. Prepared /\ IsNetwork(net)
  BY SettledIs
<1>2. query.to \in 1..net.stations /\ lb.transfers = InterchangeGraphBounds(net, query.to)
  BY <1>1 DEF Prepared, IsQuery
<1>3. /\ LbNode(RouteNode(net, r, j)) = net.stations + r /\ RouteNode(net, r, j) \in Nodes(net)
      /\ net.routes[r].stops[j] \in 1..net.stations
  BY StopNode
<1>4. lb.transfers[net.routes[r].stops[j]] \in Nat
  <2>1. net.routes[r].stops[j] \in 1..(net.stations + Len(net.routes))
    BY <1>1, <1>3, RouteDomain
  <2> QED BY <1>1, <1>2, <2>1, TransferBounds
<1>5. lb.transfers[net.stations + r] <= 1 + lb.transfers[net.routes[r].stops[j]]
  <2>1. PICK h : h = InterchangeGraphBounds(net, query.to)
    OBVIOUS
  <2>2. h[net.stations + r] <= 1 + h[net.routes[r].stops[j]]
    BY <1>1, <1>2, <2>1, TransferBounds
  <2> QED BY <1>2, <2>1, <2>2
<1> QED BY <1>1, <1>3, <1>4, <1>5, LbIs

LEMMA ExitStep ==
  ASSUME Settled, NEW r \in DOMAIN net.routes, NEW j \in DOMAIN net.routes[r].stops,
         net.routes[r].leave[j], query.kind = "pretrip" => net.routes[r].stops[j] # query.from,
         NEW s \in Nat, NEW t \in Nat, NEW t2 \in Nat, NEW k \in Nat,
         t2 = t + (IF net.routes[r].stops[j] = query.to THEN 0 ELSE net.transfer[net.routes[r].stops[j]]),
         ServedAt(RouteNode(net, r, j), s, t, k),
         Room(StationNode(net.routes[r].stops[j]), s, t2, k + 1)
  PROVE  ServedAt(StationNode(net.routes[r].stops[j]), s, t2, k + 1)
<1>1. Prepared /\ IsNetwork(net)
  BY SettledIs
<1> DEFINE a == net.routes[r].stops[j]
           v == RouteNode(net, r, j)
           w == StationNode(a)
           e == ExitEdge(net, r, j)
<1>2. /\ a \in 1..net.stations /\ v \in Nodes(net) /\ v # Goal /\ v.kind = "route" /\ v.station = a
      /\ ToSet(edges[v]) = StopEdges(net, r, j)
      /\ w \in Nodes(net) /\ LbNode(w) = a /\ (w = Goal <=> a = query.to)
      /\ net.transfer[a] \in Nat
  <2>1. /\ a \in 1..net.stations /\ v \in Nodes(net) /\ v # Goal /\ v.kind = "route" /\ v.station = a
        /\ ToSet(edges[v]) = StopEdges(net, r, j)
    BY StopNode
  <2> QED BY <1>1, <2>1, StationIs DEF IsNetwork
<1>3. /\ e \in ToSet(edges[v]) /\ e.to = w /\ e.from = v /\ e.type = "FOOT" /\ e.time = net.transfer[a]
      /\ e.transfer = TRUE
  <2>1. e \in StopEdges(net, r, j)
    BY DEF StopEdges
  <2> QED BY <1>2, <2>1 DEF ExitEdge, Edge
<1>4. ASSUME NEW b \in kept PROVE Serves(b, v, e, s, t, k, t2, k + 1)
  <2> DEFINE l == LabelAt(b)
  <2>1. SUFFICES ASSUME l.node = v, s <= l.start, l.now <= t, l.transfers <= k
                 PROVE  /\ CostAlong(l, e).valid /\ Along(b, e).now <= t2 /\ Along(b, e).transfers <= k + 1
                        /\ ~(PretripStart(l) /\ e.to = StationNode(query.from))
    BY DEF Serves
  <2>2. GoodLabel(l)
    BY SettledIs
  <2>3. l.now \in Nat /\ l.transfers \in Nat
    BY <2>2 DEF GoodLabel
  <2>4. CostAlong(l, e) = [valid |-> TRUE, time |-> net.transfer[a], transfer |-> TRUE, train |-> None]
    BY <1>3 DEF CostAlong, EdgeCost
  <2>5. Along(b, e).transfers = l.transfers + 1
    BY <2>4 DEF Along, Label, LabelAt
  <2>6. Along(b, e).now = l.now + (IF a = query.to THEN 0 ELSE net.transfer[a])
    <3>1. Along(b, e).now = l.now + (IF e.from.station = query.to /\ e.to = Goal THEN 0 ELSE net.transfer[a])
      BY <2>4 DEF Along, Label, LabelAt, Goal
    <3>2. e.from.station = query.to /\ e.to = Goal <=> a = query.to
      BY <1>2, <1>3
    <3> QED BY <3>1, <3>2
  <2>7. ~PretripStart(l)
    BY <1>2, <2>1 DEF PretripStart
  <2> HIDE DEF l, e, a
  <2>8. Along(b, e).now <= t2
    BY <1>2, <2>1, <2>3, <2>6 DEF a
  <2>9. Along(b, e).transfers <= k + 1
    <3>1. PICK x : x = l.transfers
      OBVIOUS
    <3>2. x \in Nat /\ x <= k
      BY <2>1, <2>3, <3>1
    <3>3. x + 1 <= k + 1
      BY <3>2
    <3> QED BY <2>5, <3>1, <3>3
  <2> QED BY <2>4, <2>7, <2>8, <2>9
<1>5. lb.transfers[LbNode(v)] \in Nat /\ lb.transfers[a] \in Nat /\ lb.transfers[LbNode(v)] <= 1 + lb.transfers[a]
  BY LeaveBounds
<1>6. t <= t2
  BY <1>2
<1> HIDE DEF v, e, w, a
<1>7. ServedAt(v, s, t, k) /\ Room(w, s, t2, k + 1)
  BY DEF v, w, a
<1>8. k + lb.transfers[LbNode(v)] <= (k + 1) + lb.transfers[LbNode(w)] /\ k <= k + 1 /\ k + 1 \in Nat
  <2>1. PICK g, h : g = lb.transfers[LbNode(v)] /\ h = lb.transfers[a]
    OBVIOUS
  <2>2. g \in Nat /\ h \in Nat /\ g <= 1 + h
    BY <1>5, <2>1
  <2>3. k + g <= (k + 1) + h /\ k <= k + 1 /\ k + 1 \in Nat
    BY <2>2
  <2> QED BY <1>2, <2>1, <2>3
<1>9. ServedAt(e.to, s, t2, k + 1)
  BY <1>2, <1>3, <1>4, <1>6, <1>7, <1>8, EdgeStep
<1> QED BY <1>3, <1>9 DEF w, a

(* To walk off, a label that has not ridden yet goes by the platform.      *)
LEMMA FromPlatform ==
  ASSUME Settled, NEW b \in kept, NEW r \in DOMAIN net.routes, NEW j \in DOMAIN net.routes[r].stops,
         LabelAt(b).node = RouteNode(net, r, j), ~StartsHere(r, j), LabelAt(b).train = None,
         NEW a, a = net.routes[r].stops[j],
         NEW s \in Nat, NEW t \in Nat, NEW k \in Nat,
         s <= LabelAt(b).start, LabelAt(b).now <= t, LabelAt(b).transfers <= k
  PROVE  ServedAt(StationNode(a), s, t, k)
<1> DEFINE l == LabelAt(b)
<1>1. Prepared /\ IsNetwork(net) /\ edges = Edges(net) /\ GoodLabel(l) /\ OriginOf(l)
  BY SettledIs
<1>0. l.node = RouteNode(net, r, j) /\ l.node.kind = "route" /\ l.node.station = a
  BY DEF RouteNode
<1>2. l.pred # NoAddress
  <2>1. l.node # StationNode(query.from)
    BY <1>0 DEF StationNode
  <2>2. ~(query.kind = "train" /\ l.node = OntripNode)
    BY <1>0 DEF StartsHere, OntripNode, RouteNode
  <2> QED BY <1>1, <2>1, <2>2 DEF OriginOf
<1>3. ~PretripStart(l)
  BY <1>0 DEF PretripStart, StartsHere
<1>4. PICK p : p = LabelAt(l.pred)
  OBVIOUS
<1>5. StepFrom(p, l) /\ Served(p)
  BY <1>1, <1>2, <1>3, <1>4 DEF OriginOf
<1>6. GoodLabel(p)
  <2>1. IInv /\ b \in LiveIn(mem) /\ Places
    BY InUse DEF Settled, CInv
  <2>2. l.pred \in LiveIn(mem)
    BY <1>2, <2>1, InUse
  <2> QED BY <1>4, <2>1, <2>2 DEF Places
<1>7. PICK e \in ToSet(edges[p.node]) : e.to = l.node /\ e.type # "ROUTE"
  BY <1>5 DEF StepFrom
<1>8. IsEdge(net, p.node, e)
  BY <1>1, <1>6, EdgeIs DEF GoodLabel
<1>9. p.node = StationNode(a)
  BY <1>0, <1>7, <1>8 DEF IsEdge
<1>10. ServedAt(StationNode(a), p.start, p.now, p.transfers)
  BY <1>5, <1>9 DEF Served
<1>11. p.start = l.start /\ p.now <= l.now /\ p.transfers <= l.transfers
  BY <1>5 DEF StepFrom
<1>12. StationNode(a) \in Nodes(net) /\ p.start \in Nat /\ p.now \in Nat /\ p.transfers \in Nat
       /\ l.now \in Nat /\ l.transfers \in Nat
  BY <1>1, <1>6, <1>9 DEF GoodLabel
<1>13. s <= p.start /\ p.now <= t /\ p.transfers <= k
  BY <1>11, <1>12
<1> QED BY <1>10, <1>12, <1>13, ServedLater

LEMMA WalkOffStep ==
  ASSUME Settled, NEW r \in DOMAIN net.routes, NEW j \in DOMAIN net.routes[r].stops,
         net.routes[r].leave[j], ~StartsHere(r, j),
         net.routes[r].stops[j] # query.to, FootNode(net.routes[r].stops[j]) \in FootNodes(net),
         NEW s \in Nat, NEW t \in Nat, NEW k \in Nat,
         ServedAt(RouteNode(net, r, j), s, t, k),
         Room(FootNode(net.routes[r].stops[j]), s, t, k + 1)
  PROVE  ServedAt(FootNode(net.routes[r].stops[j]), s, t, k + 1)
<1>1. Prepared /\ IsNetwork(net)
  BY SettledIs
<1> DEFINE a == net.routes[r].stops[j]
           v == RouteNode(net, r, j)
           w == FootNode(a)
           e == WalkOffEdge(net, r, j)
<1>2. /\ a \in 1..net.stations /\ v \in Nodes(net) /\ v # Goal /\ v.kind = "route" /\ v.station = a
      /\ ToSet(edges[v]) = StopEdges(net, r, j)
      /\ w \in Nodes(net) /\ LbNode(w) = a /\ w.kind = "foot"
  <2>1. /\ a \in 1..net.stations /\ v \in Nodes(net) /\ v # Goal /\ v.kind = "route" /\ v.station = a
        /\ ToSet(edges[v]) = StopEdges(net, r, j)
    BY StopNode
  <2> QED BY <2>1, StationIs
<1>3. /\ e \in ToSet(edges[v]) /\ e.to = w /\ e.from = v /\ e.type = "AFTER_TRAIN_FWD" /\ e.time = 0
      /\ e.transfer = TRUE
  <2>1. e \in StopEdges(net, r, j)
    BY DEF StopEdges
  <2> QED BY <1>2, <2>1 DEF WalkOffEdge, Edge
<1>4. k + 1 \in Nat
  OBVIOUS
<1>5. ASSUME NEW b \in kept PROVE Serves(b, v, e, s, t, k, t, k + 1)
  <2> DEFINE l == LabelAt(b)
  <2>1. SUFFICES ASSUME l.node = v, s <= l.start, l.now <= t, l.transfers <= k
                 PROVE  \/ /\ CostAlong(l, e).valid /\ Along(b, e).now <= t /\ Along(b, e).transfers <= k + 1
                           /\ ~(PretripStart(l) /\ e.to = StationNode(query.from))
                        \/ ServedAt(e.to, s, t, k + 1)
    BY DEF Serves
  <2>2. GoodLabel(l)
    BY SettledIs
  <2>3. l.now \in Nat /\ l.transfers \in Nat
    BY <2>2 DEF GoodLabel
  <2>4. CASE l.train = None
    <3>1. l.transfers <= k + 1
      BY <2>1, <2>3
    <3>2. ServedAt(StationNode(a), s, t, k + 1)
      BY <1>2, <1>4, <2>1, <2>4, <3>1, FromPlatform
    <3>3. ServedAt(w, s, t, k + 1)
      BY <1>2, <1>4, <3>2, ToFootStep
    <3> QED BY <1>3, <3>3
  <2>5. CASE l.train # None
    <3>1. CostAlong(l, e) = [valid |-> TRUE, time |-> 0, transfer |-> TRUE, train |-> None]
      BY <1>3, <2>5 DEF CostAlong, EdgeCost
    <3>2. Along(b, e).now = l.now + 0 /\ Along(b, e).transfers = l.transfers + 1
      BY <3>1 DEF Along, Label, LabelAt
    <3>3. e.to # StationNode(query.from)
      BY <1>2, <1>3 DEF StationNode
    <3> HIDE DEF l, e
    <3> QED BY <2>1, <2>3, <3>1, <3>2, <3>3
  <2> QED BY <2>4, <2>5
<1>6. lb.transfers[LbNode(v)] \in Nat /\ lb.transfers[a] \in Nat /\ lb.transfers[LbNode(v)] <= 1 + lb.transfers[a]
  BY LeaveBounds
<1> HIDE DEF v, e, w, a
<1>7. ServedAt(v, s, t, k) /\ Room(w, s, t, k + 1)
  BY DEF v, w, a
<1>8. k + lb.transfers[LbNode(v)] <= (k + 1) + lb.transfers[LbNode(w)] /\ k <= k + 1 /\ t <= t
  BY <1>2, <1>6
<1>9. ServedAt(e.to, s, t, k + 1)
  BY <1>2, <1>3, <1>4, <1>5, <1>7, <1>8, EdgeStep
<1> QED BY <1>3, <1>9 DEF w, a
----------------------------------------------------------------------------
(* Every position of a journey is served                                   *)

LEMMA RoomAt ==
  ASSUME Settled, NEW a \in 1..net.stations, NEW s \in Nat, NEW t \in Nat, NEW k \in Nat
  PROVE  /\ Room(StationNode(a), s, t, k) <=>
              t - s + lb.travel[a] <= MaxTravelTime /\ k + lb.transfers[a] <= MaxTransfers
         /\ Room(FootNode(a), s, t, k) <=>
              t - s + lb.travel[a] <= MaxTravelTime /\ k + lb.transfers[a] <= MaxTransfers
         /\ lb.travel[a] \in Nat /\ lb.transfers[a] \in Nat
         /\ MaxTravelTime \in Nat /\ MaxTransfers \in Nat
         /\ lb.travel[query.to] = 0 /\ lb.transfers[query.to] = 0 /\ query.to \in 1..net.stations
<1>1. Prepared
  BY SettledIs
<1>2. StationNode(a) \in Nodes(net) /\ StationNode(a).station = a /\ LbNode(StationNode(a)) = a
      /\ FootNode(a).station = a /\ LbNode(FootNode(a)) = a
  BY StationIs DEF FootNode, LbNode
<1>3. lb.travel[a] \in Nat /\ lb.transfers[a] \in Nat
  BY <1>1, <1>2, LbIs
<1>4. lb.travel[query.to] = 0 /\ lb.transfers[query.to] = 0 /\ query.to \in 1..net.stations
  <2>1. query.to \in 1..net.stations
    BY <1>1 DEF Prepared, IsQuery
  <2>2. LbNode(Goal) = query.to
    BY <2>1, StationIs DEF Goal
  <2> QED BY <1>1, <2>1, <2>2, LbIs
<1> QED BY <1>2, <1>3, <1>4, GraphIs DEF Room

LEMMA AfterGoal ==
  ASSUME Settled, NEW p, Covered(p), p.at = query.to, NEW c \in Positions(net),
         c.start = p.start, p.arr <= c.arr, p.rides <= c.rides, InTime(p.start, p.arr)
  PROVE  Covered(c)
<1>1. Arrived(p) /\ p \in Positions(net)
  BY DEF Covered
<1>2. /\ p.start \in Nat /\ p.arr \in Nat /\ p.rides \in Nat
      /\ c.start \in Nat /\ c.arr \in Nat /\ c.rides \in Nat /\ c.ready \in Nat /\ c.at \in 1..net.stations
      /\ c.arr <= c.ready
  BY <1>1 DEF Positions
<1>3. lb.transfers[LbNode(Goal)] = 0 /\ Goal \in Nodes(net)
  BY LbIs, SettledIs
<1>4. ASSUME NEW v \in Nodes(net), NEW t \in Nat, c.arr <= t, c.rides <= MaxTransfers
      PROVE  AnsweredAt(v, c.start, t, c.rides)
  <2>1. AnsweredAt(Goal, p.start, p.arr, p.rides)
    BY <1>1, <1>2, <1>4, GraphIs DEF Arrived
  <2>2. lb.transfers[LbNode(v)] \in Nat
    BY LbIs, SettledIs
  <2>3. p.rides + lb.transfers[LbNode(Goal)] <= c.rides + lb.transfers[LbNode(v)] /\ p.arr <= t /\ c.start <= p.start
    BY <1>2, <1>3, <1>4, <2>2
  <2> QED BY <1>2, <1>3, <2>1, <2>3, AnsweredLater
<1>5. c.at = query.to => Arrived(c)
  BY <1>2, <1>3, <1>4 DEF Arrived
<1>6. c.at # query.to => OnTheWay(c)
  <2>1. /\ Room(StationNode(c.at), c.start, c.ready, c.rides) => c.rides <= MaxTransfers
        /\ Room(FootNode(c.at), c.start, c.arr, c.rides) => c.rides <= MaxTransfers
    <3>1. lb.transfers[c.at] \in Nat /\ MaxTransfers \in Nat
          /\ (Room(StationNode(c.at), c.start, c.ready, c.rides) => c.rides + lb.transfers[c.at] <= MaxTransfers)
          /\ (Room(FootNode(c.at), c.start, c.arr, c.rides) => c.rides + lb.transfers[c.at] <= MaxTransfers)
      BY <1>2, RoomAt
    <3> QED BY <1>2, <3>1
  <2>2. StationNode(c.at) \in Nodes(net) /\ (FootNode(c.at) \in FootNodes(net) => FootNode(c.at) \in Nodes(net))
    BY <1>2, StationIs
  <2>3. c.arr <= c.arr
    BY <1>2
  <2> QED BY <1>2, <1>4, <2>1, <2>2, <2>3 DEF OnTheWay, Leads, ServedAt
<1> QED BY <1>5, <1>6 DEF Covered
(* Who has ridden to a stop may leave the train there.                     *)
LEMMA Alights ==
  ASSUME Settled, NEW x \in Rides(net), NEW r \in DOMAIN net.routes,
         NEW j \in DOMAIN net.routes[r].stops, net.routes[r].leave[j],
         x.to = net.routes[r].stops[j], ~StartsHere(r, j),
         NEW s \in Nat, NEW k \in Nat, s <= x.dep,
         Leads(RouteNode(net, r, j), s, x.arr, k)
  PROVE  Covered(After(net, s, x, k + 1))
<1>1. Prepared /\ IsNetwork(net)
  BY SettledIs
<1> DEFINE a == x.to
           v == RouteNode(net, r, j)
           c == After(net, s, x, k + 1)
<1>2. k + 1 \in Nat
  OBVIOUS
<1>3. /\ c \in Positions(net) /\ c.start = s /\ c.at = a /\ c.arr = x.arr /\ c.rides = k + 1
      /\ c.ready = x.arr + net.transfer[a] /\ net.transfer[a] \in Nat
  BY <1>1, <1>2, AfterIs
<1>4. x.arr \in Nat /\ a \in 1..net.stations
  BY <1>1, RideTimes
<1>5. v.station = a
  BY StopNode
<1>6. /\ lb.transfers[LbNode(v)] \in Nat /\ lb.transfers[a] \in Nat
      /\ lb.transfers[LbNode(v)] <= 1 + lb.transfers[a]
  BY LeaveBounds
<1>7. /\ lb.travel[a] \in Nat /\ MaxTravelTime \in Nat /\ MaxTransfers \in Nat
      /\ lb.travel[query.to] = 0 /\ lb.transfers[query.to] = 0
  BY <1>4, RoomAt
<1>8. query.kind = "pretrip" => a # query.from
  BY DEF StartsHere
<1> HIDE DEF a, v, c
<1>9. ASSUME NEW t2 \in Nat, x.arr <= t2, (t2 - s) + lb.travel[a] <= MaxTravelTime,
             (k + 1) + lb.transfers[a] <= MaxTransfers
      PROVE  ServedAt(v, s, x.arr, k)
  <2>1. (x.arr - s) + lb.travel[v.station] <= MaxTravelTime
    BY <1>4, <1>5, <1>7, <1>9
  <2>2. k + lb.transfers[LbNode(v)] <= MaxTransfers
    BY <1>6, <1>7, <1>9
  <2>3. Room(v, s, x.arr, k)
    BY <2>1, <2>2 DEF Room
  <2> QED BY <2>3 DEF Leads, v
<1>10. ASSUME a = query.to PROVE Arrived(c)
  <2>1. SUFFICES ASSUME x.arr - s <= MaxTravelTime, k + 1 <= MaxTransfers
                 PROVE  AnsweredAt(Goal, s, x.arr, k + 1)
    BY <1>3 DEF Arrived, InTime
  <2>2. (x.arr - s) + lb.travel[a] <= MaxTravelTime /\ (k + 1) + lb.transfers[a] <= MaxTransfers
    BY <1>4, <1>7, <1>10, <2>1
  <2>3. ServedAt(v, s, x.arr, k)
    BY <1>4, <1>9, <2>2
  <2>4. Room(StationNode(a), s, x.arr, k + 1)
    BY <1>2, <1>4, <2>2, RoomAt
  <2>5. x.arr = x.arr + (IF net.routes[r].stops[j] = query.to THEN 0 ELSE net.transfer[net.routes[r].stops[j]])
    BY <1>4, <1>10 DEF a
  <2>6. net.routes[r].stops[j] = a /\ ServedAt(RouteNode(net, r, j), s, x.arr, k)
    BY <2>3 DEF a, v
  <2>7. ServedAt(StationNode(a), s, x.arr, k + 1)
    BY <1>4, <1>8, <2>4, <2>5, <2>6, ExitStep
  <2>8. ServedAt(Goal, s, x.arr, k + 1)
    BY <1>10, <2>7 DEF Goal
  <2> QED BY <2>8, GoalServed
<1>11. ASSUME a # query.to PROVE OnTheWay(c)
  <2>1. net.routes[r].stops[j] = a
    BY DEF a
  <2>2. Leads(StationNode(a), s, c.ready, k + 1)
    <3>1. SUFFICES ASSUME Room(StationNode(a), s, c.ready, k + 1)
                   PROVE  ServedAt(StationNode(a), s, c.ready, k + 1)
      BY DEF Leads
    <3>2. c.ready \in Nat /\ x.arr <= c.ready
      BY <1>3, <1>4
    <3>3. c.ready - s + lb.travel[a] <= MaxTravelTime /\ (k + 1) + lb.transfers[a] <= MaxTransfers
      BY <1>2, <1>4, <3>1, <3>2, RoomAt
    <3>4. ServedAt(RouteNode(net, r, j), s, x.arr, k)
      BY <1>9, <3>2, <3>3 DEF v
    <3>5. c.ready = x.arr + (IF net.routes[r].stops[j] = query.to THEN 0 ELSE net.transfer[net.routes[r].stops[j]])
      BY <1>3, <1>11, <2>1
    <3> QED BY <1>4, <1>8, <2>1, <3>1, <3>2, <3>4, <3>5, ExitStep
  <2>3. FootNode(a) \in FootNodes(net) => Leads(FootNode(a), s, x.arr, k + 1)
    <3>1. SUFFICES ASSUME FootNode(a) \in FootNodes(net), Room(FootNode(a), s, x.arr, k + 1)
                   PROVE  ServedAt(FootNode(a), s, x.arr, k + 1)
      BY DEF Leads
    <3>2. x.arr - s + lb.travel[a] <= MaxTravelTime /\ (k + 1) + lb.transfers[a] <= MaxTransfers
      BY <1>2, <1>4, <3>1, RoomAt
    <3>3. ServedAt(RouteNode(net, r, j), s, x.arr, k)
      BY <1>4, <1>9, <3>2 DEF v
    <3> QED BY <1>4, <1>11, <2>1, <3>1, <3>3, WalkOffStep
  <2> QED BY <1>3, <2>2, <2>3 DEF OnTheWay
<1> QED BY <1>3, <1>10, <1>11 DEF Covered, c

(* A ride from a stop where the passenger is in the train.                 *)
LEMMA RidesOn ==
  ASSUME Settled, NEW x \in Rides(net), ~ComesBack(query, x), NEW s \in Nat, NEW k \in Nat, s <= x.dep,
         Leads(RouteNode(net, x.route, x.enter), s, x.dep, k)
  PROVE  Covered(After(net, s, x, k + 1))
<1>1. Prepared /\ IsNetwork(net)
  BY SettledIs
<1>2. PICK r \in DOMAIN net.routes : \E i, j \in DOMAIN net.routes[r].stops : \E D, A :
           IsRide(net, x, r, i, j, D, A)
  BY <1>1, RideIs
<1>3. PICK i, j \in DOMAIN net.routes[r].stops : \E D, A : IsRide(net, x, r, i, j, D, A)
  BY <1>2
<1>4. PICK D, A : IsRide(net, x, r, i, j, D, A)
  BY <1>3
<1>5. /\ net.routes[r].leave[j] /\ x.route = r /\ x.enter = i /\ x.exit = j /\ x.to = net.routes[r].stops[j]
      /\ x.dep = D[i] /\ x.arr = A[j]
  BY <1>4 DEF IsRide
<1>6. Leads(RouteNode(net, r, i), s, D[i], k)
  BY <1>5
<1>7. Leads(RouteNode(net, r, j), s, A[j], k)
  BY <1>4, <1>6, RideStep
<1>8. Leads(RouteNode(net, r, j), s, x.arr, k)
  BY <1>5, <1>7
<1>9. ~StartsHere(r, j)
  BY <1>5 DEF StartsHere, ComesBack
<1> QED BY <1>5, <1>8, <1>9, Alights

(* Whoever is at a station may take the trains of it.                      *)
LEMMA BoardsTrain ==
  ASSUME Settled, NEW p, Covered(p), p.at # query.to, NEW x \in Rides(net),
         MayEnter(net, x), x.from = p.at, p.ready <= x.dep
  PROVE  Leads(RouteNode(net, x.route, x.enter), p.start, x.dep, p.rides)
<1>1. Prepared /\ IsNetwork(net)
  BY SettledIs
<1>2. PICK r \in DOMAIN net.routes : \E i, j \in DOMAIN net.routes[r].stops : \E D, A :
           IsRide(net, x, r, i, j, D, A)
  BY <1>1, RideIs
<1>3. PICK i, j \in DOMAIN net.routes[r].stops : \E D, A : IsRide(net, x, r, i, j, D, A)
  BY <1>2
<1>4. x.route = r /\ x.enter = i /\ x.from = net.routes[r].stops[i]
  BY <1>3 DEF IsRide
<1>5. net.routes[r].enter[i] /\ net.routes[r].stops[i] = p.at
  BY <1>4 DEF MayEnter
<1>6. x.dep \in Nat
  BY <1>1, RideTimes
<1>7. /\ p.start \in Nat /\ p.ready \in Nat /\ p.rides \in Nat /\ p.at \in 1..net.stations
      /\ OnTheWay(p)
  BY DEF Covered, Positions
<1> DEFINE w == RouteNode(net, r, i)
<1> SUFFICES ASSUME Room(w, p.start, x.dep, p.rides) PROVE ServedAt(w, p.start, x.dep, p.rides)
  BY <1>4 DEF Leads
<1>8. w.station = p.at /\ LbNode(w) = net.stations + r
  BY <1>5, StopNode
<1>9. lb.transfers[p.at] <= lb.transfers[LbNode(w)] /\ lb.transfers[LbNode(w)] \in Nat
  <2>1. query.to \in 1..net.stations /\ lb.transfers = InterchangeGraphBounds(net, query.to)
    BY <1>1 DEF Prepared, IsQuery
  <2>2. w \in Nodes(net)
    BY StopNode
  <2> QED BY <1>1, <1>5, <1>8, <2>1, <2>2, TransferBounds, LbIs
<1>10. (x.dep - p.start) + lb.travel[p.at] <= MaxTravelTime /\ p.rides + lb.transfers[LbNode(w)] <= MaxTransfers
  BY <1>8 DEF Room
<1>11. lb.travel[p.at] \in Nat /\ lb.transfers[p.at] \in Nat /\ MaxTravelTime \in Nat /\ MaxTransfers \in Nat
  BY <1>7, RoomAt
<1> HIDE DEF w
<1>12. p.ready - p.start + lb.travel[p.at] <= MaxTravelTime /\ p.rides + lb.transfers[p.at] <= MaxTransfers
  BY <1>6, <1>7, <1>9, <1>10, <1>11
<1>13. Room(StationNode(p.at), p.start, p.ready, p.rides)
  BY <1>7, <1>12, RoomAt
<1>14. ServedAt(StationNode(p.at), p.start, p.ready, p.rides)
  BY <1>7, <1>13 DEF OnTheWay, Leads
<1>15. Room(RouteNode(net, r, i), p.start, x.dep, p.rides)
  BY DEF w
<1> QED BY <1>5, <1>6, <1>7, <1>14, <1>15, BoardStep DEF w

LEMMA BoardedCovered ==
  ASSUME Settled, NEW p, Covered(p)
  PROVE  \A c \in Boarded(net, p, Onward) : Covered(c)
<1> SUFFICES ASSUME NEW c \in Boarded(net, p, Onward) PROVE Covered(c)
  OBVIOUS
<1>1. Prepared /\ IsNetwork(net)
  BY SettledIs
<1>2. PICK x \in Onward : /\ MayEnter(net, x) /\ x.from = p.at /\ p.ready <= x.dep /\ InTime(p.start, x.arr)
                          /\ c = After(net, p.start, x, p.rides + 1)
  BY DEF Boarded
<1>3. x \in Rides(net) /\ ~ComesBack(query, x)
  BY DEF Onward
<1>4. /\ p.start \in Nat /\ p.arr \in Nat /\ p.ready \in Nat /\ p.rides \in Nat
      /\ p.start <= p.arr /\ p.arr <= p.ready
  BY DEF Covered, Positions
<1>5. x.dep \in Nat /\ x.arr \in Nat /\ x.dep <= x.arr
  BY <1>1, <1>3, RideTimes
<1>6. p.start <= x.dep /\ p.rides + 1 \in Nat
  BY <1>2, <1>4, <1>5
<1>7. CASE p.at = query.to
  <2>1. c \in Positions(net) /\ c.start = p.start /\ c.arr = x.arr /\ c.rides = p.rides + 1
    BY <1>1, <1>2, <1>3, <1>4, <1>6, AfterIs
  <2>2. InTime(p.start, p.arr) /\ p.arr <= c.arr /\ p.rides <= c.rides
    BY <1>2, <1>4, <1>5, <2>1, GraphIs DEF InTime
  <2> QED BY <1>7, <2>1, <2>2, AfterGoal
<1>8. CASE p.at # query.to
  <2>1. Leads(RouteNode(net, x.route, x.enter), p.start, x.dep, p.rides)
    BY <1>2, <1>3, <1>8, BoardsTrain
  <2>2. Covered(After(net, p.start, x, p.rides + 1))
    BY <1>3, <1>4, <1>6, <2>1, RidesOn
  <2> QED BY <1>2, <2>2
<1> QED BY <1>7, <1>8
LEMMA FootFromStation ==
  ASSUME Settled, NEW a \in 1..net.stations, a # query.to, NEW s \in Nat, NEW t \in Nat, NEW k \in Nat,
         Leads(StationNode(a), s, t, k)
  PROVE  FootNode(a) \in FootNodes(net) => Leads(FootNode(a), s, t, k)
<1> SUFFICES ASSUME FootNode(a) \in FootNodes(net), Room(FootNode(a), s, t, k)
             PROVE  ServedAt(FootNode(a), s, t, k)
  BY DEF Leads
<1>1. Room(StationNode(a), s, t, k)
  BY RoomAt
<1> QED BY <1>1, ToFootStep DEF Leads

LEMMA WalkedCovered ==
  ASSUME Settled, NEW p, Covered(p)
  PROVE  \A c \in Walked(net, p) : Covered(c)
<1> SUFFICES ASSUME NEW c \in Walked(net, p) PROVE Covered(c)
  OBVIOUS
<1>1. Prepared /\ IsNetwork(net)
  BY SettledIs
<1>2. PICK y \in net.walks : /\ y.from = p.at /\ InTime(p.start, p.arr + y.time)
                             /\ c = Position(p.start, y.to, p.arr + y.time, p.arr + y.time, p.rides)
  BY DEF Walked
<1>3. /\ p \in Positions(net) /\ p.start \in Nat /\ p.arr \in Nat /\ p.ready \in Nat /\ p.rides \in Nat
      /\ p.start <= p.arr /\ p.arr <= p.ready /\ p.at \in 1..net.stations
  BY DEF Covered, Positions
<1>4. /\ c \in Positions(net) /\ c.start = p.start /\ c.at = y.to /\ c.arr = p.arr + y.time
      /\ c.ready = p.arr + y.time /\ c.rides = p.rides /\ y.time \in Nat
  BY <1>1, <1>2, <1>3, WalkIs
<1>5. CASE p.at = query.to
  <2>1. InTime(p.start, p.arr) /\ p.arr <= c.arr /\ p.rides <= c.rides
    BY <1>2, <1>3, <1>4, GraphIs DEF InTime
  <2> QED BY <1>4, <1>5, <2>1, AfterGoal
<1>6. CASE p.at # query.to
  <2>1. /\ y.to \in 1..net.stations /\ FootNode(y.from) \in FootNodes(net)
        /\ lb.travel[y.from] \in Nat /\ lb.travel[y.to] \in Nat /\ lb.travel[y.from] <= lb.travel[y.to]
        /\ lb.transfers[y.from] \in Nat /\ lb.transfers[y.to] \in Nat
        /\ lb.transfers[y.from] <= lb.transfers[y.to]
    BY WalkBounds
  <2>2. c.arr \in Nat /\ c.start \in Nat /\ c.rides \in Nat /\ p.arr <= c.arr
    BY <1>3, <1>4
  <2>3. ASSUME Room(StationNode(y.to), c.start, c.arr, c.rides)
        PROVE  ServedAt(StationNode(y.to), c.start, c.arr, c.rides)
    <3>1. c.arr - c.start + lb.travel[y.to] <= MaxTravelTime /\ c.rides + lb.transfers[y.to] <= MaxTransfers
      BY <2>1, <2>2, <2>3, RoomAt
    <3>2. p.arr - p.start + lb.travel[y.from] <= MaxTravelTime /\ p.rides + lb.transfers[y.from] <= MaxTransfers
      BY <1>3, <1>4, <2>1, <2>2, <3>1, GraphIs
    <3>3. Room(FootNode(y.from), p.start, p.arr, p.rides)
      BY <1>2, <1>3, <3>2, RoomAt
    <3>4. ServedAt(FootNode(y.from), p.start, p.arr, p.rides)
      BY <1>2, <1>6, <2>1, <3>3 DEF Covered, OnTheWay, Leads
    <3>5. y.from # query.to /\ Room(StationNode(y.to), p.start, p.arr + y.time, p.rides)
      BY <1>2, <1>4, <1>6, <2>3
    <3>6. ServedAt(StationNode(y.to), p.start, p.arr + y.time, p.rides)
      BY <1>3, <3>4, <3>5, WalkStep
    <3> QED BY <1>4, <3>6
  <2>4. ASSUME c.at = query.to PROVE Arrived(c)
    <3>1. SUFFICES ASSUME InTime(c.start, c.arr), c.rides <= MaxTransfers
                   PROVE  AnsweredAt(Goal, c.start, c.arr, c.rides)
      BY DEF Arrived
    <3>2. y.to = query.to
      BY <1>4, <2>4
    <3>3. /\ lb.travel[y.to] = 0 /\ lb.transfers[y.to] = 0 /\ c.arr - c.start <= MaxTravelTime
          /\ MaxTravelTime \in Nat /\ MaxTransfers \in Nat
      BY <2>1, <2>2, <3>1, <3>2, RoomAt DEF InTime
    <3>4. c.arr - c.start + lb.travel[y.to] <= MaxTravelTime /\ c.rides + lb.transfers[y.to] <= MaxTransfers
      BY <2>2, <3>1, <3>3
    <3>5. Room(StationNode(y.to), c.start, c.arr, c.rides)
      BY <2>1, <2>2, <3>4, RoomAt
    <3>6. ServedAt(Goal, c.start, c.arr, c.rides)
      BY <2>3, <3>2, <3>5 DEF Goal
    <3> QED BY <3>6, GoalServed
  <2>5. ASSUME c.at # query.to PROVE OnTheWay(c)
    <3>1. c.at = y.to /\ c.ready = c.arr
      BY <1>4
    <3>2. Leads(StationNode(c.at), c.start, c.arr, c.rides)
      BY <2>3, <3>1 DEF Leads
    <3>3. c.at \in 1..net.stations
      BY <2>1, <3>1
    <3>4. FootNode(c.at) \in FootNodes(net) => Leads(FootNode(c.at), c.start, c.arr, c.rides)
      BY <2>2, <2>5, <3>2, <3>3, FootFromStation
    <3> QED BY <3>1, <3>2, <3>4 DEF OnTheWay
  <2> QED BY <1>4, <2>4, <2>5 DEF Covered
<1> QED BY <1>5, <1>6

LEMMA BeginsLeads ==
  ASSUME Settled, NEW v \in Nodes(net), v.station = Origin(net, query), NEW t \in Nat,
         [node |-> v, time |-> t] \in StartsIn(interval.begin, interval.end)
  PROVE  Leads(v, t, t, 0)
<1>1. PICK l : l = Label(NoAddress, v, None, t, t, 0)
  OBVIOUS
<1>2. l.node = v /\ l.start = t /\ l.now = t /\ l.transfers = 0
  BY <1>1 DEF Label
<1>3. GoodLabel(l)
  BY <1>2 DEF GoodLabel
<1>4. Filtered(l) <=> ~Room(v, t, t, 0)
  BY <1>2, <1>3, RoomIs, SettledIs
<1>5. Begins([node |-> v, time |-> t])
  BY SettledIs
<1>6. Filtered(l) \/ ServedAt(v, t, t, 0)
  BY <1>1, <1>5 DEF Begins
<1> QED BY <1>4, <1>6 DEF Leads

LEMMA TrainIsFound ==
  ASSUME IsNetwork(net), DifferentMinutes(net), NEW x \in Rides(net),
         NEW u \in Nat, u <= x.dep, x.dep <= u + MaxTravelTime
  PROVE  LET g == GetConnection(Row(net, x.route, x.enter), u)
         IN g # None /\ g.dep \in Nat /\ u <= g.dep /\ g.dep <= x.dep
<1>1. PICK r \in DOMAIN net.routes : \E i, j \in DOMAIN net.routes[r].stops : \E D, A :
           IsRide(net, x, r, i, j, D, A)
  BY RideIs
<1>2. PICK i, j \in DOMAIN net.routes[r].stops : \E D, A : IsRide(net, x, r, i, j, D, A)
  BY <1>1
<1>3. /\ x.route = r /\ x.enter = i /\ i \in Sections(net, r) /\ \E A : RunsAs(net, r, i, x.dep, A)
  <2>1. i \in Nat /\ j \in Nat
    <3>1. DOMAIN net.routes[r].stops = 1..Len(net.routes[r].stops) /\ Len(net.routes[r].stops) \in Nat
      BY RouteIs
    <3> QED BY <3>1
  <2> QED BY <1>2, <2>1 DEF IsRide
<1> DEFINE S == SectionsOf(net, r, i)
           row == Row(net, r, i)
           g == GetConnection(row, u)
<1>4. IsRow(row, S)
  BY <1>3, RowIs
<1>5. PICK c \in S : \E f \in c.days :
        IsSection(c) /\ c.valid /\ f \in Nat /\ f <= LastDay /\ On(c, f).dep = x.dep
  BY <1>3 DEF RunsAs
<1>6. PICK f \in c.days :
        IsSection(c) /\ c.valid /\ f \in Nat /\ f <= LastDay /\ On(c, f).dep = x.dep
  BY <1>5
<1>7. Runs(c, f, u) /\ On(c, f).dep <= u + MaxTravelTime
  BY <1>6 DEF Runs, On
<1>8. /\ g = None \/ \E y \in S : \E d \in y.days : Runs(y, d, u) /\ g = On(y, d)
      /\ \A y \in S : \A d \in y.days :
            Runs(y, d, u) /\ On(y, d).dep <= u + MaxTravelTime => g # None /\ g.dep <= On(y, d).dep
  BY <1>4, GetConnectionIs
<1> HIDE DEF g
<1>9. g # None /\ g.dep <= x.dep
  BY <1>6, <1>7, <1>8
<1>10. PICK y \in S : \E d \in y.days : Runs(y, d, u) /\ g = On(y, d)
  BY <1>8, <1>9
<1>11. PICK d \in y.days : Runs(y, d, u) /\ g = On(y, d)
  BY <1>10
<1>12. g.dep \in Nat /\ u <= g.dep
  <2>1. IsSection(y) /\ d \in Nat
    BY <1>4 DEF IsRow, IsSection
  <2> QED BY <1>11, <2>1, OnIs DEF Runs, On
<1> QED BY <1>3, <1>9, <1>12 DEF g

LEMMA PretripBegins ==
  ASSUME Settled, query.kind = "pretrip", NEW x \in Rides(net), MayEnter(net, x), x.from = query.from,
         interval.begin <= x.dep, x.dep <= interval.end, NoGap(net, query, interval, x.dep)
  PROVE  Leads(RouteNode(net, x.route, x.enter), x.dep, x.dep, 0)
<1>1. Prepared /\ IsNetwork(net) /\ DifferentMinutes(net) /\ edges = Edges(net)
      /\ interval.begin \in Nat /\ interval.end \in Nat
  BY SettledIs DEF Prepared
<1>2. PICK r \in DOMAIN net.routes : \E i, j \in DOMAIN net.routes[r].stops : \E D, A :
           IsRide(net, x, r, i, j, D, A)
  BY <1>1, RideIs
<1>3. PICK i, j \in DOMAIN net.routes[r].stops : \E D, A : IsRide(net, x, r, i, j, D, A)
  BY <1>2
<1>4. PICK D, A : IsRide(net, x, r, i, j, D, A)
  BY <1>3
<1>5. i \in Nat /\ j \in Nat
  <2>1. DOMAIN net.routes[r].stops = 1..Len(net.routes[r].stops) /\ Len(net.routes[r].stops) \in Nat
    BY <1>1, RouteIs
  <2> QED BY <2>1
<1>6. /\ i < j /\ x.route = r /\ x.enter = i /\ x.from = net.routes[r].stops[i] /\ x.dep = D[i]
      /\ i \in Sections(net, r) /\ RunsAs(net, r, i, D[i], A[i + 1]) /\ D[i] \in Nat
  BY <1>4, <1>5 DEF IsRide
<1>7. net.routes[r].enter[i] /\ net.routes[r].stops[i] = query.from
  BY <1>6 DEF MayEnter
<1> DEFINE w == RouteNode(net, r, i)
           row == Row(net, r, i)
           a == query.from
<1>8. w \in Nodes(net) /\ w.station = a /\ w.kind = "route" /\ ToSet(edges[w]) = StopEdges(net, r, i)
      /\ a \in 1..net.stations
  BY <1>7, StopNode
<1>9. w \in StartStops
  <2>1. <<r, i>> \in StopsAt(net, a)
    BY <1>1, <1>7, StopsAre DEF StopsAt
  <2>2. BoardEdge(net, r, i) \in StationEdges(net, a)
    BY <2>1 DEF StationEdges
  <2>3. BoardEdge(net, r, i) \in ToSet(edges[StationNode(a)])
    BY <1>8, <2>2, StationIs
  <2>4. BoardEdge(net, r, i).type = "FOOT" /\ BoardEdge(net, r, i).to = w
    BY <1>7 DEF BoardEdge, Edge
  <2> HIDE DEF w
  <2> QED BY <1>8, <2>3, <2>4 DEF StartStops
<1>10. PICK k \in DOMAIN edges[w] : edges[w][k].type = "ROUTE" /\ edges[w][k].row = row
  <2>1. RideEdge(net, r, i) \in StopEdges(net, r, i)
    BY <1>6 DEF StopEdges
  <2>2. RideEdge(net, r, i).type = "ROUTE" /\ RideEdge(net, r, i).row = row
    BY DEF RideEdge, Edge
  <2>3. RideEdge(net, r, i) \in ToSet(edges[w])
    BY <1>8, <2>1
  <2> HIDE DEF w, row
  <2> QED BY <2>2, <2>3 DEF ToSet
<1>11. \A u \in interval.begin..x.dep : GetConnection(row, u) # None
  <2> SUFFICES ASSUME NEW u \in interval.begin..x.dep PROVE GetConnection(row, u) # None
    OBVIOUS
  <2>1. PICK y \in Rides(net) : /\ y.route = r /\ y.enter = i
                               /\ u <= y.dep /\ y.dep <= u + MaxTravelTime
    BY <1>6 DEF NoGap
  <2>2. u \in Nat
    BY <1>1, <1>6
  <2> QED BY <1>1, <2>1, <2>2, TrainIsFound
<1>12. x.dep \in interval.begin..interval.end
  BY <1>1, <1>6
<1> HIDE DEF w, row
<1>13. x.dep \in DeparturesIn(w, interval.begin, interval.end)
  <2>1. x.dep \in Nat /\ x.dep <= x.dep + MaxTravelTime /\ Row(net, x.route, x.enter) = row
    BY <1>6, GraphIs DEF row
  <2>2. GetConnection(row, x.dep).dep = x.dep
    BY <1>1, <2>1, TrainIsFound
  <2> QED BY <1>10, <1>11, <1>12, <2>2 DEF DeparturesIn
<1>14. [node |-> w, time |-> x.dep] \in StartsIn(interval.begin, interval.end)
  BY <1>9, <1>13 DEF StartsIn
<1>15. w.station = Origin(net, query)
  BY <1>1, <1>8, PretripQuery
<1>16. Leads(w, x.dep, x.dep, 0)
  BY <1>6, <1>8, <1>14, <1>15, BeginsLeads
<1> QED BY <1>6, <1>16 DEF w
LEMMA PretripStartsCovered ==
  ASSUME Settled, query.kind = "pretrip", NEW p \in Starts(net, query, interval, Onward),
         NoGap(net, query, interval, p.start)
  PROVE  Covered(p)
<1>1. Prepared /\ IsNetwork(net)
  BY SettledIs
<1>2. PICK x \in Onward : /\ MayEnter(net, x) /\ x.from = query.from
                          /\ interval.begin <= x.dep /\ x.dep <= interval.end
                          /\ p = After(net, x.dep, x, 1)
  BY DEF Starts
<1>3. x \in Rides(net) /\ ~ComesBack(query, x)
  BY DEF Onward
<1>4. x.dep \in Nat /\ x.dep <= x.dep
  BY <1>1, <1>3, RideTimes
<1>5. Leads(RouteNode(net, x.route, x.enter), x.dep, x.dep, 0)
  BY <1>2, <1>3, PretripBegins DEF After, Position
<1>6. 0 \in Nat /\ 0 + 1 = 1
  OBVIOUS
<1>7. Covered(After(net, x.dep, x, 0 + 1))
  BY <1>3, <1>4, <1>5, <1>6, RidesOn
<1> QED BY <1>2, <1>6, <1>7

LEMMA OntripBegins ==
  ASSUME Settled, query.kind # "pretrip"
  PROVE  Leads(OntripNode, interval.begin, interval.begin, 0)
<1>1. Prepared /\ interval.begin \in Nat
  BY SettledIs
<1>2. OntripNode \in Nodes(net) /\ OntripNode.station = Origin(net, query)
  BY <1>1, OntripNodeIs
<1>3. [node |-> OntripNode, time |-> interval.begin] \in StartsIn(interval.begin, interval.end)
  BY DEF StartsIn
<1> QED BY <1>1, <1>2, <1>3, BeginsLeads

LEMMA StationStartsCovered ==
  ASSUME Settled, query.kind = "station", NEW p \in Starts(net, query, interval, Onward)
  PROVE  Covered(p)
<1>1. Prepared /\ IsNetwork(net) /\ interval.begin \in Nat
  BY SettledIs
<1> DEFINE t == interval.begin
           a == query.from
<1>2. p = [start |-> t, at |-> a, arr |-> t, ready |-> t, rides |-> 0]
  BY DEF Starts, Position
<1>3. a \in 1..net.stations /\ a # query.to
  BY <1>1, PretripQuery
<1>4. p \in Positions(net) /\ p.start = t /\ p.at = a /\ p.arr = t /\ p.ready = t /\ p.rides = 0
  BY <1>1, <1>2, <1>3 DEF Positions
<1>5. Leads(StationNode(a), t, t, 0)
  BY OntripBegins DEF OntripNode
<1>6. 0 \in Nat
  OBVIOUS
<1>7. FootNode(a) \in FootNodes(net) => Leads(FootNode(a), t, t, 0)
  BY <1>1, <1>3, <1>5, <1>6, FootFromStation
<1>8. OnTheWay(p)
  BY <1>4, <1>5, <1>7 DEF OnTheWay
<1> QED BY <1>3, <1>4, <1>8 DEF Covered

LEMMA TrainStartsCovered ==
  ASSUME Settled, query.kind = "train", NEW p \in Starts(net, query, interval, Onward)
  PROVE  Covered(p)
<1>1. Prepared /\ IsNetwork(net) /\ interval.begin \in Nat
  BY SettledIs
<1> DEFINE t == interval.begin
           r == query.route
           i == query.stop
           a == net.routes[r].stops[i]
           v == RouteNode(net, r, i)
<1>2. /\ r \in DOMAIN net.routes /\ i \in DOMAIN net.routes[r].stops
      /\ Origin(net, query) = a /\ a # query.to /\ a \in 1..net.stations
  BY <1>1 DEF Prepared, IsQuery, Origin
<1>3. v \in Nodes(net) /\ v.station = a
  BY <1>2, StopNode
<1>4. Leads(v, t, t, 0)
  BY OntripBegins DEF OntripNode
<1>5. lb.travel[a] \in Nat /\ lb.transfers[a] \in Nat /\ MaxTravelTime \in Nat /\ MaxTransfers \in Nat
  BY <1>1, <1>2, RoomAt
<1>6. \/ \E x \in Onward : /\ x.route = r /\ x.enter = i /\ t <= x.dep /\ p = After(net, t, x, 1)
      \/ /\ net.routes[r].leave[i]
         /\ p = Position(t, a, t + (IF a = query.to THEN 0 ELSE net.transfer[a]), t + net.transfer[a], 1)
  BY DEF Starts
<1>7. ASSUME NEW x \in Onward, x.route = r, x.enter = i, t <= x.dep, p = After(net, t, x, 1)
      PROVE  Covered(p)
  <2>1. x \in Rides(net) /\ ~ComesBack(query, x)
    BY DEF Onward
  <2>2. x.dep \in Nat
    BY <1>1, <2>1, RideTimes
  <2>3. Leads(v, t, x.dep, 0)
    <3>1. SUFFICES ASSUME Room(v, t, x.dep, 0) PROVE ServedAt(v, t, x.dep, 0)
      BY DEF Leads
    <3>2. (x.dep - t) + lb.travel[a] <= MaxTravelTime /\ 0 + lb.transfers[LbNode(v)] <= MaxTransfers
      BY <1>3, <3>1 DEF Room
    <3> HIDE DEF t, a, v
    <3>3. (t - t) + lb.travel[a] <= MaxTravelTime
      BY <1>1, <1>5, <1>7, <2>2, <3>2 DEF t
    <3>4. Room(v, t, t, 0)
      BY <1>3, <3>2, <3>3 DEF Room
    <3>5. ServedAt(v, t, t, 0) /\ t \in Nat /\ 0 \in Nat
      BY <1>1, <1>4, <3>4 DEF Leads, t
    <3>6. t <= x.dep /\ t <= t /\ 0 <= 0
      BY <1>7, <3>5
    <3> HIDE DEF r, i
    <3> QED BY <1>1, <1>3, <2>2, <3>5, <3>6, ServedLater
  <2>4. 0 \in Nat /\ 0 + 1 = 1
    OBVIOUS
  <2>5. Leads(RouteNode(net, x.route, x.enter), t, x.dep, 0)
    BY <1>7, <2>3
  <2> HIDE DEF t
  <2>6. t \in Nat
    BY <1>1 DEF t
  <2>7. Covered(After(net, t, x, 0 + 1))
    BY <1>7, <2>1, <2>4, <2>5, <2>6, RidesOn
  <2> QED BY <1>7, <2>4, <2>7
<1>8. ASSUME net.routes[r].leave[i],
             p = Position(t, a, t + (IF a = query.to THEN 0 ELSE net.transfer[a]), t + net.transfer[a], 1)
      PROVE  Covered(p)
  <2>1. net.transfer[a] \in Nat
    BY <1>1, <1>2 DEF IsNetwork
  <2> DEFINE u == t + net.transfer[a]
  <2>2. u \in Nat /\ t <= u /\ 0 + 1 = 1 /\ 0 \in Nat /\ 1 \in Nat /\ t \in Nat
    BY <1>1, <2>1
  <2>3. p = [start |-> t, at |-> a, arr |-> u, ready |-> u, rides |-> 1]
    BY <1>2, <1>8 DEF Position
  <2> HIDE DEF u
  <2>4. p \in Positions(net) /\ p.start = t /\ p.at = a /\ p.arr = u /\ p.ready = u /\ p.rides = 1
    BY <1>2, <2>2, <2>3 DEF Positions
  <2>5. Leads(StationNode(a), t, u, 1)
    <3>1. SUFFICES ASSUME Room(StationNode(a), t, u, 1) PROVE ServedAt(StationNode(a), t, u, 1)
      BY DEF Leads
    <3>2. u - t + lb.travel[a] <= MaxTravelTime /\ 1 + lb.transfers[a] <= MaxTransfers
      BY <1>2, <2>2, <3>1, RoomAt
    <3>3. lb.transfers[LbNode(v)] \in Nat /\ lb.transfers[LbNode(v)] <= 1 + lb.transfers[a]
      BY <1>2, <1>8, LeaveBounds, Zenon
    <3>4. Room(v, t, t, 0)
      <4>1. (t - t) + lb.travel[a] <= MaxTravelTime /\ 0 + lb.transfers[LbNode(v)] <= MaxTransfers
        <5> HIDE DEF t, a, v
        <5> QED BY <1>5, <2>2, <3>2, <3>3
      <4> QED BY <1>3, <4>1 DEF Room
    <3>5. ServedAt(v, t, t, 0)
      BY <1>4, <3>4 DEF Leads
    <3>6. u = t + (IF net.routes[r].stops[i] = query.to THEN 0 ELSE net.transfer[net.routes[r].stops[i]])
      BY <1>2 DEF u
    <3>7. Room(StationNode(net.routes[r].stops[i]), t, u, 0 + 1) /\ ServedAt(RouteNode(net, r, i), t, t, 0)
      BY <2>2, <3>1, <3>5
    <3>8. ServedAt(StationNode(net.routes[r].stops[i]), t, u, 0 + 1)
      <4> HIDE DEF t
      <4> QED BY <1>2, <1>8, <2>2, <3>6, <3>7, ExitStep, Zenon
    <3> QED BY <2>2, <3>8
  <2>6. FootNode(a) \in FootNodes(net) => Leads(FootNode(a), t, u, 1)
    BY <1>2, <2>2, <2>5, FootFromStation
  <2>7. OnTheWay(p)
    BY <2>4, <2>5, <2>6 DEF OnTheWay
  <2> QED BY <1>2, <2>4, <2>7 DEF Covered
<1> QED BY <1>6, <1>7, <1>8

LEMMA StaysInTime ==
  ASSUME Settled, NEW p, Covered(p), NEW c \in Boarded(net, p, Onward) \cup Walked(net, p)
  PROVE  InTime(c.start, c.arr)
<1>1. Prepared /\ IsNetwork(net)
  BY SettledIs
<1>2. CASE c \in Boarded(net, p, Onward)
  <2>1. PICK x \in Onward : InTime(p.start, x.arr) /\ c = After(net, p.start, x, p.rides + 1)
    BY <1>2 DEF Boarded
  <2> QED BY <2>1 DEF After, Position
<1>3. CASE c \in Walked(net, p)
  <2>1. PICK y \in net.walks : InTime(p.start, p.arr + y.time)
                               /\ c = Position(p.start, y.to, p.arr + y.time, p.arr + y.time, p.rides)
    BY <1>3 DEF Walked
  <2> QED BY <2>1 DEF Position
<1> QED BY <1>2, <1>3

LEMMA BeginsInTime ==
  ASSUME Settled, NEW p \in Starts(net, query, interval, Onward), p.at = query.to
  PROVE  InTime(p.start, p.arr)
<1>1. Prepared /\ IsNetwork(net)
  BY SettledIs
<1>2. /\ query.kind \in {"pretrip", "station", "train"}
      /\ Origin(net, query) # query.to
  BY <1>1 DEF Prepared, IsQuery
<1>3. CASE query.kind = "pretrip"
  <2>1. PICK x \in Onward : InTime(x.dep, x.arr) /\ p = After(net, x.dep, x, 1)
    BY <1>3 DEF Starts
  <2> QED BY <2>1 DEF After, Position
<1>4. CASE query.kind = "station"
  BY <1>2, <1>4 DEF Starts, Position, Origin
<1>5. CASE query.kind = "train"
  <2> DEFINE t == interval.begin
             r == query.route
             i == query.stop
             a == net.routes[r].stops[i]
  <2>1. \/ \E x \in Onward : InTime(t, x.arr) /\ p = After(net, t, x, 1)
        \/ p = Position(t, a, t + (IF a = query.to THEN 0 ELSE net.transfer[a]), t + net.transfer[a], 1)
    BY <1>5 DEF Starts
  <2>2. a # query.to
    BY <1>2, <1>5 DEF Origin
  <2> HIDE DEF a
  <2> QED BY <2>1, <2>2 DEF After, Position
<1> QED BY <1>2, <1>3, <1>4, <1>5

LEMMA StartsArePositions ==
  ASSUME NEW n, NEW q, NEW iv, IsNetwork(n), IsQuery(n, q), iv.begin \in Nat, NEW p \in Starts(n, q, iv, Rides(n))
  PROVE  p \in Positions(n)
<1>1. Origin(n, q) \in 1..n.stations /\ q.kind \in {"pretrip", "station", "train"}
  BY DEF IsQuery
<1>2. CASE q.kind = "pretrip"
  <2>1. PICK x \in Rides(n) : p = After(n, x.dep, x, 1)
    BY <1>2 DEF Starts
  <2>2. x.dep \in Nat /\ x.dep <= x.dep /\ 1 \in Nat
    BY <1>1, RideTimes
  <2> QED BY <1>1, <2>1, <2>2, AfterIs
<1>3. CASE q.kind = "station"
  <2>1. p = Position(iv.begin, q.from, iv.begin, iv.begin, 0)
    BY <1>3 DEF Starts
  <2>2. q.from \in 1..n.stations
    BY <1>1, <1>3 DEF Origin
  <2> QED BY <1>1, <2>1, <2>2 DEF Positions, Position
<1>4. CASE q.kind = "train"
  <2> DEFINE s == n.routes[q.route].stops[q.stop]
             t == iv.begin
             c == n.transfer[s]
  <2>1. s \in 1..n.stations /\ c \in Nat
    BY <1>1, <1>4 DEF Origin, IsNetwork
  <2>2. CASE \E x \in Rides(n) : t <= x.dep /\ p = After(n, t, x, 1)
    BY <1>1, <2>2, AfterIs
  <2>3. CASE p = Position(t, s, t + (IF s = q.to THEN 0 ELSE c), t + c, 1)
    <3> HIDE DEF s, c
    <3> QED BY <1>1, <2>1, <2>3 DEF Positions, Position
  <2>4. (\E x \in Rides(n) : t <= x.dep /\ p = After(n, t, x, 1))
        \/ p = Position(t, s, t + (IF s = q.to THEN 0 ELSE c), t + c, 1)
    BY <1>4 DEF Starts
  <2> QED BY <2>2, <2>3, <2>4
<1> QED BY <1>1, <1>2, <1>3, <1>4

LEMMA StepsArePositions ==
  ASSUME NEW n, IsNetwork(n), NEW p \in Positions(n)
  PROVE  Boarded(n, p, Rides(n)) \cup Walked(n, p) \subseteq Positions(n)
<1>1. p.start \in Nat /\ p.arr \in Nat /\ p.ready \in Nat /\ p.rides \in Nat
      /\ p.start <= p.arr /\ p.arr <= p.ready
  BY DEF Positions
<1>2. ASSUME NEW c \in Boarded(n, p, Rides(n)) PROVE c \in Positions(n)
  <2>1. PICK x \in Rides(n) : p.ready <= x.dep /\ c = After(n, p.start, x, p.rides + 1)
    BY DEF Boarded
  <2>2. x.dep \in Nat
    BY RideTimes
  <2>3. p.start <= x.dep /\ p.rides + 1 \in Nat
    BY <1>1, <2>1, <2>2
  <2> QED BY <1>1, <2>1, <2>3, AfterIs
<1>3. ASSUME NEW c \in Walked(n, p) PROVE c \in Positions(n)
  BY <1>3, WalkIs DEF Walked
<1> QED BY <1>2, <1>3

LEMMA SettledComplete ==
  ASSUME Settled
  PROVE  \A j \in OnwardJourneys(net, query, interval) :
           NoGap(net, query, interval, j.start) => Times(j) /\ \E r \in Answers : AtLeastAsGood(r, j)
<1>1. Prepared
  BY SettledIs
<1>2. query.kind \in {"pretrip", "station", "train"}
  BY <1>1 DEF Prepared, IsQuery
<1> DEFINE Good(p) == Covered(p) /\ (p.at = query.to => InTime(p.start, p.arr))
           P == {p \in Positions(net) : NoGap(net, query, interval, p.start) => Good(p)}
<1>3. /\ \A p : p \in P <=> p \in Positions(net) /\ (NoGap(net, query, interval, p.start) => Good(p))
      /\ IsNetwork(net) /\ IsQuery(net, query) /\ interval.begin \in Nat
  BY SettledIs DEF Prepared
<1> HIDE DEF P
<1>4. Starts(net, query, interval, Onward) \subseteq P
  <2> SUFFICES ASSUME NEW p \in Starts(net, query, interval, Onward) PROVE p \in P
    OBVIOUS
  <2>1. p \in Starts(net, query, interval, Rides(net))
    BY <1>2 DEF Starts, Onward
  <2>2. p \in Positions(net)
    BY <1>3, <2>1, StartsArePositions
  <2> QED BY <1>2, <1>3, <2>2, PretripStartsCovered, StationStartsCovered, TrainStartsCovered, BeginsInTime
<1>5. \A p \in P : Boarded(net, p, Onward) \cup Walked(net, p) \subseteq P
  <2> SUFFICES ASSUME NEW p \in P, NEW c \in Boarded(net, p, Onward) \cup Walked(net, p) PROVE c \in P
    OBVIOUS
  <2>1. c \in Boarded(net, p, Rides(net)) \cup Walked(net, p)
    BY DEF Boarded, Onward
  <2>2. c \in Positions(net)
    BY <1>3, <2>1, StepsArePositions
  <2>3. c.start = p.start
    BY DEF Boarded, Walked, After, Position
  <2>4. Good(p) => Good(c)
    BY BoardedCovered, WalkedCovered, StaysInTime
  <2> QED BY <1>3, <2>2, <2>3, <2>4
<1>6. OnwardJourneys(net, query, interval) = JourneysOn(net, query, interval, Onward)
  BY DEF OnwardJourneys, Onward
<1>7. Keeps(net, query, interval, Onward, P)
  BY <1>4, <1>5 DEF Keeps
<1> SUFFICES ASSUME NEW j \in JourneysOn(net, query, interval, Onward),
                    NoGap(net, query, interval, j.start)
             PROVE  Times(j) /\ \E r \in Answers : AtLeastAsGood(r, j)
  BY <1>6
<1>8. PICK p \in P : p.at = query.to /\ p.rides <= MaxTransfers
                     /\ j = [start |-> p.start, now |-> p.arr, transfers |-> p.rides]
  <2>1. EndsIn(query, j, P)
    BY <1>7, JourneysWithin
  <2> QED BY <2>1 DEF EndsIn
<1>9. AnsweredAt(Goal, p.start, p.arr, p.rides)
  BY <1>3, <1>8 DEF Covered, Arrived
<1>10. lb.transfers[LbNode(Goal)] = 0 /\ p.rides \in Nat /\ p.start \in Nat /\ p.arr \in Nat
  BY <1>1, <1>3, LbIs DEF Covered, Positions
<1>11. PICK r \in Answers : p.start <= r.start /\ r.now <= p.arr /\ r.transfers <= p.rides
  BY <1>9, <1>10 DEF AnsweredAt
<1> QED BY <1>8, <1>10, <1>11 DEF AtLeastAsGood, Times

(* Pruning loses nothing, for every timetable in which no train overtakes  *)
(* another one of its route, every query and every allocator: when a       *)
(* round of the search is over, every onward journey of the interval has a *)
(* result as good, or one filter_results erased before, unless it starts   *)
(* behind a gap of its route.                                              *)
THEOREM SearchCompleteHolds == Spec => []SearchComplete
<1>1. IInv /\ CInv => SearchComplete
  <2> SUFFICES ASSUME IInv, CInv, SearchOver
               PROVE  \A j \in OnwardJourneys(net, query, interval) :
                        NoGap(net, query, interval, j.start) => \E r \in Answers : AtLeastAsGood(r, j)
    BY DEF SearchComplete, Answers
  <2>1. Settled
    BY DEF Settled
  <2> QED BY <2>1, SettledComplete
<1>2. Init => IInv /\ CInv
  BY InitIInv, InitCInv
<1>3. (IInv /\ CInv) /\ [Next]_vars => (IInv /\ CInv)'
  BY NextIInv, NextCInv
<1> QED BY <1>1, <1>2, <1>3, PTL DEF Spec
----------------------------------------------------------------------------
(* What filter_results may erase                                           *)

LEMMA QuickStill ==
  ASSUME NEW a, NEW b, NEW c, Times(a), Times(b), Times(c), AsQuick(b, c),
         AsQuick(a, b) \/ AtLeastAsGood(a, b)
  PROVE  AsQuick(a, c)
BY DEF Times, AsQuick, AtLeastAsGood

LEMMA QuickAtAll ==
  ASSUME NEW a, Times(a)
  PROVE  AsQuick(a, a)
BY DEF Times, AsQuick

LEMMA ResultIs ==
  ASSUME TimePasses(net), IInv, CInv, NEW r \in results
  PROVE  /\ GoodLabel(LabelAt(r)) /\ LabelAt(r).node = Goal
         /\ Times(AsJourney(LabelAt(r))) /\ AsJourney(LabelAt(r)) \in Found
         /\ LabelAt(r).start < LabelAt(r).now
<1>1. Prepared /\ GoodLabel(LabelAt(r)) /\ LabelAt(r).node = Goal
  BY InUse DEF CInv, Places
<1>2. Goal.station # Origin(net, query)
  BY <1>1, LbIs DEF Prepared, IsQuery
<1> QED BY <1>1, <1>2 DEF GoodLabel, Times, AsJourney, Found

(* Alpha dominance compares no other way than the travel times do.         *)
LEMMA DominatesQuicker ==
  ASSUME TimePasses(net), IInv, CInv, NEW a \in results, NEW b \in results, DominatesPostSearch(LabelAt(a), LabelAt(b))
  PROVE  AsQuick(AsJourney(LabelAt(a)), AsJourney(LabelAt(b)))
<1> DEFINE k == LabelAt(a)
           l == LabelAt(b)
           ta == k.now - k.start
           tb == l.now - l.start
           D == Distant(k, l)
<1>1. Prepared /\ GoodLabel(k) /\ k.node = Goal /\ GoodLabel(l) /\ l.node = Goal
      /\ k.start < k.now /\ l.start < l.now
  BY ResultIs DEF CInv
<1>2. /\ k.now \in Nat /\ k.start \in Nat /\ k.transfers \in Nat
      /\ l.now \in Nat /\ l.start \in Nat /\ l.transfers \in Nat
  BY <1>1 DEF GoodLabel
<1>3. D \in Nat
  <2> DEFINE d(x) == IF x < 0 THEN -x ELSE x
             S == {d(k.start - l.start), d(k.now - l.now)}
  <2>1. S \in SUBSET Nat /\ S # {}
    BY <1>2
  <2>2. D = Min(S)
    BY DEF Distant
  <2> HIDE DEF S, D
  <2>3. Min(S) \in S
    BY <2>1, MinIs
  <2> QED BY <2>1, <2>2, <2>3
<1>4. k.transfers <= l.transfers
  <2>1. lb.transfers[LbNode(Goal)] = 0
    BY <1>1, LbIs
  <2>2. k.transfers + 0 <= l.transfers + 0
    BY <1>1, <2>1 DEF DominatesPostSearch, TransfersLb
  <2> QED BY <1>2, <2>2
<1>5. ta \in Nat /\ tb \in Nat /\ tb > 0
  BY <1>1, <1>2
<1>6. 2 * ta * tb + ta * D <= 2 * tb * tb
  BY <1>5 DEF DominatesPostSearch, TravelTime
<1>7. ta <= tb
  <2> HIDE DEF ta, tb, D
  <2> SUFFICES ASSUME ta > tb PROVE FALSE
    BY <1>5
  <2>1. ta * D \in Nat
    BY <1>3, <1>5
  <2>2. ta - tb \in Nat /\ ta - tb > 0 /\ (ta - tb) * tb > 0
    BY <1>5
  <2>3. ta * tb - tb * tb > 0
    <3>1. (ta - tb) * tb = ta * tb - tb * tb
      BY <1>5
    <3> QED BY <2>2, <3>1
  <2>4. ta * tb \in Nat /\ tb * tb \in Nat
    BY <1>5
  <2>5. 2 * ta * tb = 2 * (ta * tb) /\ 2 * tb * tb = 2 * (tb * tb)
    BY <1>5
  <2> QED BY <1>6, <2>1, <2>3, <2>4, <2>5
<1> QED BY <1>4, <1>7 DEF AsQuick, AsJourney

LEMMA BeatenStays ==
  ASSUME IInv, CInv, QInv, ResultsImprove, dropped' = dropped
  PROVE  Beaten'
<1> SUFFICES ASSUME NEW d \in dropped PROVE \E k \in Found' : AsQuick(k, d)
  BY DEF Beaten
<1>1. PICK r \in Found : AsQuick(r, d)
  BY DEF QInv, Beaten
<1>2. PICK k \in Found' : Times(k) /\ AtLeastAsGood(k, r)
  BY DEF ResultsImprove
<1>3. Times(r) /\ Times(d)
  <2>1. r \in Answers /\ IInv /\ Places
    BY DEF Answers, CInv
  <2> QED BY <2>1, TimesOf DEF Places, Times
<1>4. AsQuick(k, d)
  BY <1>1, <1>2, <1>3, QuickStill
<1> QED BY <1>4

LEMMA EraseQuick == TimePasses(net) /\ IInv /\ CInv /\ QInv /\ Erase => QInv'
<1> SUFFICES ASSUME TimePasses(net), IInv, CInv, QInv, Erase PROVE QInv'
  OBVIOUS
<1>1. PICK a, b \in results : /\ a # b /\ DominatesPostSearch(LabelAt(a), LabelAt(b))
                              /\ results' = results \ {b}
                              /\ dropped' = dropped \cup {LabelAt(b)}
  BY DEF Erase, LabelAt
<1>2. UNCHANGED <<problem, interval, pc, mem>>
  BY DEF Erase
<1> DEFINE j(r) == AsJourney(LabelAt(r))
<1>3. Found' = {j(r) : r \in results'}
  BY <1>2 DEF Found, LabelAt
<1>4. AsQuick(j(a), j(b)) /\ Times(j(a)) /\ Times(j(b)) /\ j(a) \in Found' /\ GoodLabel(LabelAt(b))
  <2>1. a \in results'
    BY <1>1
  <2> QED BY <1>1, <1>3, <2>1, DominatesQuicker, ResultIs
<1>5. \A r \in Found : \E k \in Found' : Times(k) /\ Times(r) /\ AsQuick(k, r)
  <2> SUFFICES ASSUME NEW r \in results PROVE \E k \in Found' : Times(k) /\ Times(j(r)) /\ AsQuick(k, j(r))
    BY DEF Found
  <2>1. CASE r = b
    BY <1>4, <2>1
  <2>2. CASE r # b
    <3>1. j(r) \in Found'
      BY <1>1, <1>3, <2>2
    <3>2. Times(j(r))
      BY ResultIs
    <3>3. AsQuick(j(r), j(r))
      BY <3>2, QuickAtAll
    <3> QED BY <3>1, <3>2, <3>3
  <2> QED BY <2>1, <2>2
<1>6. Beaten'
  <2> SUFFICES ASSUME NEW d \in dropped' PROVE \E k \in Found' : AsQuick(k, d)
    BY DEF Beaten
  <2>1. CASE d \in dropped
    <3>1. PICK r \in Found : AsQuick(r, d)
      BY <2>1 DEF QInv, Beaten
    <3>2. PICK k \in Found' : Times(k) /\ Times(r) /\ AsQuick(k, r)
      BY <1>5
    <3>3. Times(d)
      BY <2>1 DEF CInv, Places, Times
    <3>4. AsQuick(k, d)
      BY <3>1, <3>2, <3>3, QuickStill
    <3> QED BY <3>4
  <2>2. CASE d = LabelAt(b)
    <3>1. AsQuick(j(a), d)
      BY <1>4, <2>2 DEF AsQuick, AsJourney
    <3> QED BY <1>4, <3>1
  <2> QED BY <1>1, <2>1, <2>2
<1>7. Answers \subseteq Answers'
  <2>1. \A r \in results : j(r) \in Answers'
    <3> SUFFICES ASSUME NEW r \in results PROVE j(r) \in Answers'
      OBVIOUS
    <3>1. CASE r = b
      BY <1>1, <3>1 DEF Answers
    <3>2. CASE r # b
      BY <1>1, <1>3, <3>2 DEF Answers
    <3> QED BY <3>1, <3>2
  <2>2. \A d \in dropped : AsJourney(d) \in Answers'
    BY <1>1 DEF Answers
  <2> QED BY <2>1, <2>2 DEF Answers, Found
<1>8. Covering'
  BY <1>2, <1>7 DEF QInv, Covering, problem
<1> QED BY <1>6, <1>8 DEF QInv

LEMMA WidenedLast ==
  ASSUME CInv, MaxIntervalReached
  PROVE  Widened = interval
<1>1. /\ interval = Interval(interval.begin, interval.end)
      /\ interval.begin \in ScheduleBegin..ScheduleEnd /\ interval.end \in ScheduleBegin..ScheduleEnd
  BY DEF CInv, Clocks
<1>2. ScheduleBegin \in Nat /\ ScheduleEnd \in Nat /\ Extension \in Nat
  BY RoutingAssumption
<1>3. query.earlier => MapToInterval(interval.begin - Extension) = interval.begin
  <2> SUFFICES ASSUME interval.begin = ScheduleBegin
               PROVE  MapToInterval(interval.begin - Extension) = interval.begin
    BY DEF MaxIntervalReached
  <2>1. interval.begin - Extension \in Int /\ interval.begin - Extension <= ScheduleBegin
    BY <1>2
  <2> QED BY <2>1, MapIs
<1>4. query.later => MapToInterval(interval.end + Extension) = interval.end
  <2> SUFFICES ASSUME interval.end = ScheduleEnd
               PROVE  MapToInterval(interval.end + Extension) = interval.end
    BY DEF MaxIntervalReached
  <2>1. interval.end + Extension \in Int /\ ScheduleEnd <= interval.end + Extension
    BY <1>2
  <2> QED BY <2>1, MapIs
<1> QED BY <1>1, <1>3, <1>4 DEF Widened

LEMMA NextQInv == TimePasses(net) /\ IInv /\ IInv' /\ CInv /\ QInv /\ [Next]_vars => QInv'
<1> SUFFICES ASSUME TimePasses(net), IInv, IInv', CInv, QInv, [Next]_vars PROVE QInv'
  OBVIOUS
<1>1. CASE AddStart \/ Pop \/ NoLabel \/ AddResult \/ AddLabelToNode \/ Useless
  <2>1. ResultsImprove
    BY <1>1, AddStartKeeps, PopKeeps, NoLabelKeeps, AddResultKeeps, AddLabelToNodeKeeps, UselessKeeps
  <2>2. dropped' = dropped /\ pc' \in {"start", "search"}
    BY <1>1 DEF AddStart, Pop, NoLabel, AddResult, AddLabelToNode, Useless, Relaxing
  <2>3. Beaten'
    BY <2>1, <2>2, BeatenStays
  <2>4. Covering'
    BY <2>2 DEF Covering
  <2> QED BY <2>3, <2>4 DEF QInv
<1>2. CASE Erase
  BY <1>2, EraseQuick
<1>3. CASE StartsAdded \/ SearchEnds \/ FilterEnds \/ Extend \/ Finish \/ UNCHANGED vars
  <2>1. UNCHANGED <<problem, mem, results, dropped>>
    BY <1>3 DEF StartsAdded, SearchEnds, FilterEnds, Extend, Finish, vars
  <2>2. Found' = Found /\ Answers' = Answers
    BY <2>1 DEF Found, Answers, LabelAt
  <2>3. Beaten'
    BY <2>1, <2>2 DEF QInv, Beaten
  <2>4. ASSUME StartsAdded PROVE Covering'
    BY <2>4 DEF StartsAdded, Covering
  <2>5. ASSUME SearchEnds PROVE Covering'
    <3>1. Settled /\ interval' = interval /\ net' = net /\ query' = query
      BY <2>5 DEF SearchEnds, Settled, SearchOver, problem
    <3>2. \A j \in OnwardJourneys(net, query, interval) :
            NoGap(net, query, interval, j.start) => Times(j) /\ \E r \in Answers : AtLeastAsGood(r, j)
      BY <3>1, SettledComplete
    <3> QED BY <2>2, <3>1, <3>2 DEF Covering
  <2>6. ASSUME Extend PROVE Covering'
    <3>1. pc' = "done" => MaxIntervalReached
      BY <2>6 DEF Extend
    <3>2. pc' = "done" => interval' = interval /\ pc = "extend" /\ net' = net /\ query' = query
      BY <2>1, <2>6, <3>1, WidenedLast DEF Extend, problem
    <3>3. pc' = "done" \/ pc' = "start"
      BY <2>6 DEF Extend
    <3> QED BY <2>2, <3>2, <3>3 DEF QInv, Covering
  <2>7. ASSUME FilterEnds \/ Finish \/ UNCHANGED vars PROVE Covering'
    <3>1. interval' = interval /\ net' = net /\ query' = query
      BY <2>7 DEF FilterEnds, Finish, vars, problem
    <3>2. pc' \in {"filter", "extend", "done"} => pc \in {"filter", "extend", "done"}
      BY <2>7 DEF FilterEnds, Finish, vars
    <3> QED BY <2>2, <3>1, <3>2 DEF QInv, Covering
  <2>8. Covering'
    BY <1>3, <2>4, <2>5, <2>6, <2>7
  <2> QED BY <2>3, <2>8 DEF QInv
<1> QED BY <1>1, <1>2, <1>3 DEF Next, Step, Done

LEMMA TimetableStays == [Next]_vars => net' = net
<1> SUFFICES ASSUME [Next]_vars PROVE net' = net
  OBVIOUS
<1>1. CASE AddStart
  BY <1>1 DEF AddStart, problem
<1>2. CASE StartsAdded \/ Pop \/ SearchEnds
  BY <1>2 DEF StartsAdded, Pop, SearchEnds, problem
<1>3. CASE NoLabel \/ AddResult
  BY <1>3 DEF NoLabel, AddResult, Relaxing, problem
<1>4. CASE AddLabelToNode \/ Useless
  BY <1>4 DEF AddLabelToNode, Useless, Relaxing, problem
<1>5. CASE Erase \/ FilterEnds \/ Finish \/ UNCHANGED vars
  BY <1>5 DEF Erase, FilterEnds, Finish, vars, problem
<1>6. CASE Extend
  BY <1>6 DEF Extend, problem
<1> QED BY <1>1, <1>2, <1>3, <1>4, <1>5, <1>6 DEF Next, Step, Done

(* The answer leaves nothing quicker out, in however many steps, and in    *)
(* whatever order, filter_results has thinned it out and the interval has  *)
(* grown; alpha dominance divides by the travel time, so none may be zero.  *)
THEOREM AnswerAsQuickHolds ==
  ASSUME \A s \in Scenarios : TimePasses(s.net)
  PROVE  Spec => []AnswerAsQuick
<1>1. IInv /\ CInv /\ QInv => AnswerAsQuick
  <2> SUFFICES ASSUME IInv, CInv, QInv, pc = "done", NEW j \in OnwardJourneys(net, query, interval),
                      NoGap(net, query, interval, j.start)
               PROVE  \E r \in Found : r.now - r.start <= j.now - j.start /\ r.transfers <= j.transfers
    BY DEF AnswerAsQuick
  <2>1. PICK r \in Answers : Times(j) /\ AtLeastAsGood(r, j)
    BY DEF QInv, Covering
  <2>2. Times(r) /\ AsQuick(r, j)
    <3>1. Times(r)
      BY TimesOf DEF CInv
    <3> QED BY <2>1, <3>1 DEF Times, AsQuick, AtLeastAsGood
  <2>3. CASE r \in Found
    BY <2>2, <2>3 DEF AsQuick
  <2>4. CASE \E d \in dropped : r = AsJourney(d)
    <3>1. PICK d \in dropped : r = AsJourney(d)
      BY <2>4
    <3>2. PICK k \in Found : AsQuick(k, d)
      BY DEF QInv, Beaten
    <3>3. AsQuick(k, r)
      BY <3>1, <3>2 DEF AsQuick, AsJourney
    <3>4. k \in Answers
      BY DEF Answers
    <3>5. Times(k)
      BY <3>4, TimesOf DEF CInv
    <3>6. AsQuick(k, j)
      BY <2>1, <2>2, <3>3, <3>5, QuickStill
    <3> QED BY <3>6 DEF AsQuick
  <2> QED BY <2>3, <2>4 DEF Answers
<1>2. Init => TimePasses(net) /\ IInv /\ CInv /\ QInv
  <2>1. Init => QInv
    BY DEF Init, QInv, Beaten, Covering
  <2>2. Init => TimePasses(net)
    BY DEF Init
  <2> QED BY <2>1, <2>2, InitIInv, InitCInv
<1>3. TimePasses(net) /\ IInv /\ CInv /\ QInv /\ [Next]_vars => (TimePasses(net) /\ IInv /\ CInv /\ QInv)'
  <2>1. [Next]_vars => net' = net
    BY TimetableStays
  <2>2. TimePasses(net) /\ [Next]_vars => TimePasses(net)'
    BY <2>1
  <2> QED BY <2>2, NextIInv, NextCInv, NextQInv
<1> QED BY <1>1, <1>2, <1>3, PTL DEF Spec
----------------------------------------------------------------------------
(* Where journeys get to                                                   *)

LEMMA ReachFacts ==
  ASSUME NEW n, NEW q, NEW iv, World(n, q, iv)
  PROVE  LET f == Reach(n, q, iv, Rides(n)) IN
         /\ f[1] = Starts(n, q, iv, Rides(n))
         /\ \A k \in 2..Legs : f[k] = Further(n, Rides(n), f[k - 1])
         /\ \A k \in 1..Legs : f[k] \subseteq Positions(n)
<1>1. Starts(n, q, iv, Rides(n)) \subseteq Positions(n)
  BY StartsArePositions DEF World
<1>2. \A p \in Positions(n) : Boarded(n, p, Rides(n)) \cup Walked(n, p) \subseteq Positions(n)
  BY StepsArePositions DEF World
<1> QED BY <1>1, <1>2, ReachIs

LEMMA ReachedIs ==
  ASSUME NEW n, NEW q, NEW iv, World(n, q, iv), NEW p, Reached(n, q, iv, p)
  PROVE  /\ p \in Positions(n) /\ p.start \in Nat /\ p.arr \in Nat /\ p.ready \in Nat /\ p.rides \in Nat
         /\ p.start <= p.arr /\ p.arr <= p.ready /\ p.at \in 1..n.stations
<1>1. p \in Positions(n)
  BY ReachFacts DEF Reached
<1> QED BY <1>1 DEF Positions

LEMMA StartReached ==
  ASSUME NEW n, NEW q, NEW iv, World(n, q, iv), NEW p \in Starts(n, q, iv, Rides(n))
  PROVE  Reached(n, q, iv, p)
<1>1. p.arr \in Nat /\ p.start \in Nat /\ p.start <= p.arr
  BY StartsArePositions DEF World, Positions
<1>2. 1 \in 1..Legs
  BY LegsAssumption
<1>3. p \in Reach(n, q, iv, Rides(n))[1]
  BY ReachFacts
<1>4. 1 <= 1 + (p.arr - p.start)
  BY <1>1
<1> QED BY <1>2, <1>3, <1>4 DEF Reached

(* One step on takes a minute at least.                                    *)
LEMMA StepReached ==
  ASSUME NEW n, NEW q, NEW iv, World(n, q, iv), NEW p, Reached(n, q, iv, p),
         NEW c \in Boarded(n, p, Rides(n)) \cup Walked(n, p),
         c.start = p.start, p.arr < c.arr, InTime(p.start, c.arr)
  PROVE  Reached(n, q, iv, c)
<1> DEFINE f == Reach(n, q, iv, Rides(n))
<1>1. PICK k \in 1..Legs : k <= 1 + (p.arr - p.start) /\ p \in f[k]
  BY DEF Reached
<1>2. Legs \in Nat /\ MaxTravelTime \in Nat /\ MaxTravelTime < Legs
  BY LegsAssumption, GraphIs DEF World
<1>3. c \in Positions(n) /\ p \in Positions(n)
  BY ReachedIs, StepsArePositions DEF World
<1>4. p.start \in Nat /\ p.arr \in Nat /\ c.arr \in Nat
  BY <1>3 DEF Positions
<1>5. c.arr - p.start <= MaxTravelTime
  BY DEF InTime
<1>6. k + 1 <= 1 + (c.arr - c.start)
  BY <1>1, <1>4
<1>7. k + 1 \in 2..Legs /\ k + 1 \in 1..Legs /\ (k + 1) - 1 = k
  BY <1>1, <1>2, <1>4, <1>5
<1>8. f[k + 1] = Further(n, Rides(n), f[k])
  BY <1>7, ReachFacts
<1> HIDE DEF f
<1>9. c \in f[k + 1]
  BY <1>1, <1>8 DEF Further
<1> QED BY <1>6, <1>7, <1>9 DEF Reached, f

LEMMA RideReached ==
  ASSUME NEW n, NEW q, NEW iv, World(n, q, iv), NEW p, Reached(n, q, iv, p), NEW x \in Rides(n),
         MayEnter(n, x), x.from = p.at, p.ready <= x.dep, InTime(p.start, x.arr)
  PROVE  Reached(n, q, iv, After(n, p.start, x, p.rides + 1))
<1> DEFINE c == After(n, p.start, x, p.rides + 1)
<1>1. IsNetwork(n) /\ x.dep \in Nat /\ x.arr \in Nat /\ x.dep < x.arr
  BY RideTimes DEF World
<1>2. p.start \in Nat /\ p.arr \in Nat /\ p.ready \in Nat /\ p.rides \in Nat /\ p.start <= p.arr /\ p.arr <= p.ready
  BY ReachedIs
<1>3. p.start <= x.dep /\ p.rides + 1 \in Nat /\ p.arr < x.arr
  BY <1>1, <1>2
<1>4. c.start = p.start /\ c.arr = x.arr
  BY <1>1, <1>2, <1>3, AfterIs
<1>5. c \in Boarded(n, p, Rides(n))
  BY DEF Boarded
<1> HIDE DEF c
<1>6. Reached(n, q, iv, c)
  BY <1>3, <1>4, <1>5, StepReached
<1> QED BY <1>6 DEF c

LEMMA WalkReached ==
  ASSUME NEW n, NEW q, NEW iv, World(n, q, iv), NEW p, Reached(n, q, iv, p), NEW w \in n.walks,
         w.from = p.at, InTime(p.start, p.arr + w.time)
  PROVE  Reached(n, q, iv, Position(p.start, w.to, p.arr + w.time, p.arr + w.time, p.rides))
<1> DEFINE c == Position(p.start, w.to, p.arr + w.time, p.arr + w.time, p.rides)
<1>1. IsNetwork(n) /\ w.time # 0
  BY DEF World, TimePasses
<1>2. p \in Positions(n) /\ p.arr \in Nat
  BY ReachedIs
<1>3. c.start = p.start /\ c.arr = p.arr + w.time /\ w.time \in Nat
  BY <1>1, <1>2, WalkIs
<1>4. c \in Walked(n, p)
  BY DEF Walked
<1> HIDE DEF c
<1>5. p.arr < c.arr
  BY <1>1, <1>2, <1>3
<1>6. Reached(n, q, iv, c)
  BY <1>3, <1>4, <1>5, StepReached
<1> QED BY <1>6 DEF c

(* What is reached from an interval is reached from a wider one.           *)
LEMMA ReachedWider ==
  ASSUME NEW n, NEW q, NEW iv, NEW jv, World(n, q, iv), World(n, q, jv), q.kind = "pretrip",
         jv.begin <= iv.begin, iv.end <= jv.end, NEW p, Reached(n, q, iv, p)
  PROVE  Reached(n, q, jv, p)
<1> DEFINE f == Reach(n, q, iv, Rides(n))
           g == Reach(n, q, jv, Rides(n))
           P == {k \in 1..Legs : f[k] \subseteq g[k]}
<1>1. iv.begin \in Nat /\ iv.end \in Nat /\ jv.begin \in Nat /\ jv.end \in Nat /\ IsNetwork(n)
      /\ Legs \in Nat /\ Legs # 0
  BY LegsAssumption DEF World
<1>2. Starts(n, q, iv, Rides(n)) \subseteq Starts(n, q, jv, Rides(n))
  <2> SUFFICES ASSUME NEW c \in Starts(n, q, iv, Rides(n)) PROVE c \in Starts(n, q, jv, Rides(n))
    OBVIOUS
  <2>1. PICK x \in Rides(n) : /\ MayEnter(n, x) /\ x.from = q.from
                              /\ iv.begin <= x.dep /\ x.dep <= iv.end
                              /\ InTime(x.dep, x.arr) /\ c = After(n, x.dep, x, 1)
    BY DEF Starts
  <2>2. x.dep \in Nat
    BY <1>1, RideTimes
  <2>3. jv.begin <= x.dep /\ x.dep <= jv.end
    BY <1>1, <2>1, <2>2
  <2> QED BY <2>1, <2>3 DEF Starts
<1>3. 1 \in P
  BY <1>1, <1>2, ReachFacts
<1>4. ASSUME NEW k \in 1..(Legs - 1), k \in P PROVE k + 1 \in P
  <2>1. k + 1 \in 2..Legs /\ k + 1 \in 1..Legs /\ (k + 1) - 1 = k
    BY <1>1
  <2>2. f[k + 1] = Further(n, Rides(n), f[k]) /\ g[k + 1] = Further(n, Rides(n), g[k])
    BY <2>1, ReachFacts
  <2>3. f[k] \subseteq g[k]
    BY <1>4
  <2> HIDE DEF f, g
  <2>4. f[k + 1] \subseteq g[k + 1]
    BY <2>2, <2>3 DEF Further
  <2> QED BY <2>1, <2>4
<1>5. \A k \in 1..Legs : k \in P
  <2> HIDE DEF P
  <2>1. 1 \in Nat
    OBVIOUS
  <2> QED BY <1>1, <1>3, <1>4, <2>1, Climb
<1> QED BY <1>5 DEF Reached

(* What ends at the destination is a journey.                              *)
LEMMA ReachedJourney ==
  ASSUME NEW n, NEW q, NEW iv, World(n, q, iv), NEW p, Reached(n, q, iv, p),
         p.at = q.to, p.rides <= MaxTransfers
  PROVE  [start |-> p.start, now |-> p.arr, transfers |-> p.rides] \in Journeys(n, q, iv)
<1> DEFINE f == Reach(n, q, iv, Rides(n))
           P == {k \in 1..Legs : p \in f[k]}
<1>1. PICK j \in 1..Legs : j \in P
  BY DEF Reached
<1>2. Legs \in Nat
  BY LegsAssumption
<1>3. ASSUME NEW k \in j..(Legs - 1), k \in P PROVE k + 1 \in P
  <2>1. k + 1 \in 2..Legs /\ k + 1 \in 1..Legs /\ (k + 1) - 1 = k
    BY <1>1, <1>2
  <2>2. f[k + 1] = Further(n, Rides(n), f[k])
    BY <2>1, ReachFacts
  <2>3. p \in f[k]
    BY <1>3
  <2> HIDE DEF f
  <2> QED BY <2>1, <2>2, <2>3 DEF Further
<1>4. Legs \in P
  <2> HIDE DEF P
  <2>1. \A k \in j..Legs : k \in P
    BY <1>1, <1>2, <1>3, Climb
  <2> QED BY <1>1, <1>2, <2>1
<1>5. p \in f[Legs]
  BY <1>4
<1>6. Journeys(n, q, iv) =
        {[start |-> c.start, now |-> c.arr, transfers |-> c.rides] :
           c \in {x \in f[Legs] : x.at = q.to /\ x.rides <= MaxTransfers}}
  BY DEF Journeys, JourneysOn, Reach, Further
<1> HIDE DEF f
<1> QED BY <1>5, <1>6
----------------------------------------------------------------------------
(* Trains of a route, on the days they run                                 *)

LEMMA TrainTimes ==
  ASSUME NEW n, IsNetwork(n), NEW r \in DOMAIN n.routes, NEW i \in Sections(n, r),
         NEW u, NEW f, RunsOn(n, r, u, f)
  PROVE  /\ DepartsOn(n, r, u, f, i) \in Nat /\ ArrivesOn(n, r, u, f, i + 1) \in Nat
         /\ i + 1 \in Sections(n, r) => ArrivesOn(n, r, u, f, i + 1) <= DepartsOn(n, r, u, f, i + 1)
<1> DEFINE trip == n.routes[r].trips[u]
           a == Departure(trip, i)
           b == Arrival(trip, i + 1)
           c == Departure(trip, i + 1)
           g == f * Day
<1>1. u \in DOMAIN n.routes[r].trips /\ f \in trip.days
  BY DEF RunsOn
<1>2. a \in Nat /\ b \in Nat /\ (i + 1 \in Sections(n, r) => b <= c) /\ f \in Nat
  BY <1>1, TripTimes
<1>3. i + 1 \in Sections(n, r) => c \in Nat
  BY <1>1, TripTimes
<1>4. g \in Nat
  BY <1>2, GraphIs
<1>5. /\ DepartsOn(n, r, u, f, i) = g + a /\ ArrivesOn(n, r, u, f, i + 1) = g + b
      /\ DepartsOn(n, r, u, f, i + 1) = g + c
  BY DEF DepartsOn, ArrivesOn
<1> HIDE DEF a, b, c, g
<1> QED BY <1>2, <1>3, <1>4, <1>5

(* What get_connection finds is the section of a train that runs.          *)
LEMMA TrainFound ==
  ASSUME NEW n, IsNetwork(n), DifferentMinutes(n), NEW r \in DOMAIN n.routes,
         NEW i \in Sections(n, r), NEW t \in Nat, NEW c, c = GetConnection(Row(n, r, i), t), c # None
  PROVE  /\ c.dep \in Nat /\ c.arr \in Nat /\ t <= c.dep /\ c.dep <= c.arr /\ c.dep <= t + MaxTravelTime
         /\ \E u, f : RunsOn(n, r, u, f) /\ c.dep = DepartsOn(n, r, u, f, i)
                      /\ c.arr = ArrivesOn(n, r, u, f, i + 1)
<1>1. IsRow(Row(n, r, i), SectionsOf(n, r, i))
  BY RowIs
<1>2. PICK e \in SectionsOf(n, r, i) : \E d \in e.days : Runs(e, d, t) /\ c = On(e, d)
  BY <1>1, GetConnectionIs
<1>3. PICK d \in e.days : Runs(e, d, t) /\ c = On(e, d)
  BY <1>2
<1>4. c.dep <= t + MaxTravelTime
  BY <1>1, GetConnectionIs
<1>5. PICK u \in DOMAIN n.routes[r].trips : e = SectionOf(n.routes[r].trips[u], i)
  BY DEF SectionsOf
<1> DEFINE trip == n.routes[r].trips[u]
           off  == Departure(trip, i) \div Day
<1>6. /\ IsSection(e) /\ e.valid = trip.valid /\ off \in Nat /\ e.days = {f + off : f \in trip.days}
      /\ \A f \in trip.days :
           /\ (f + off) * Day + e.dep = f * Day + Departure(trip, i)
           /\ (f + off) * Day + e.arr = f * Day + Arrival(trip, i + 1)
  BY <1>5, SectionIs
<1>7. PICK f \in trip.days : d = f + off
  BY <1>6
<1>8. RunsOn(n, r, u, f)
  BY <1>3, <1>6 DEF RunsOn, Runs
<1>9. d \in Nat
  BY <1>6 DEF IsSection
<1>10. c.dep = d * Day + e.dep /\ c.arr = d * Day + e.arr
  BY <1>3 DEF On
<1>11. c.dep = DepartsOn(n, r, u, f, i) /\ c.arr = ArrivesOn(n, r, u, f, i + 1)
  BY <1>6, <1>7, <1>10 DEF DepartsOn, ArrivesOn
<1>12. c.dep \in Nat /\ c.arr \in Nat /\ c.dep <= c.arr
  BY <1>3, <1>6, <1>9, OnIs
<1>13. t <= c.dep
  BY <1>3, <1>10 DEF Runs
<1> QED BY <1>4, <1>8, <1>11, <1>12, <1>13

(* A train that may still be caught is not missed for a later one.         *)
LEMMA TrainNotMissed ==
  ASSUME NEW n, IsNetwork(n), DifferentMinutes(n), NEW r \in DOMAIN n.routes,
         NEW i \in Sections(n, r), NEW t \in Nat, NEW c, c = GetConnection(Row(n, r, i), t), c # None,
         NEW u, NEW f, RunsOn(n, r, u, f), t <= DepartsOn(n, r, u, f, i)
  PROVE  c.dep <= DepartsOn(n, r, u, f, i)
<1>1. IsRow(Row(n, r, i), SectionsOf(n, r, i))
  BY RowIs
<1> DEFINE trip == n.routes[r].trips[u]
           off  == Departure(trip, i) \div Day
           e    == SectionOf(trip, i)
           d    == f + off
<1>2. u \in DOMAIN n.routes[r].trips /\ f \in trip.days /\ trip.valid
  BY DEF RunsOn
<1>3. /\ e.valid = trip.valid /\ off \in Nat /\ e \in SectionsOf(n, r, i)
      /\ d \in e.days /\ d <= LastDay /\ d * Day + e.dep = f * Day + Departure(trip, i)
  <2>1. PICK x : x = e
    OBVIOUS
  <2>2. /\ x.valid = trip.valid /\ off \in Nat /\ x \in SectionsOf(n, r, i)
        /\ \A g \in trip.days :
             /\ g + off \in x.days /\ g + off <= LastDay
             /\ (g + off) * Day + x.dep = g * Day + Departure(trip, i)
    <3>1. /\ IsSection(x) /\ x.valid = trip.valid /\ off \in Nat
          /\ x \in SectionsOf(n, r, i)
          /\ x.days = {g + off : g \in trip.days}
          /\ \A g \in trip.days :
               /\ g + off \in x.days /\ g + off <= LastDay
               /\ (g + off) * Day + x.dep = g * Day + Departure(trip, i)
               /\ (g + off) * Day + x.arr = g * Day + Arrival(trip, i + 1)
      <4>1. PICK w \in DOMAIN n.routes[r].trips : w = u
        BY <1>2
      <4>2. x = SectionOf(n.routes[r].trips[w], i)
        BY <2>1, <4>1
      <4> HIDE DEF e, trip, off, d
      <4> QED BY <4>1, <4>2, SectionIs DEF trip, off
    <3> HIDE DEF off, trip
    <3> QED BY <3>1
  <2>3. d \in x.days /\ d <= LastDay /\ d * Day + x.dep = f * Day + Departure(trip, i)
    BY <1>2, <2>2
  <2> HIDE DEF e, d, off, trip
  <2> QED BY <2>1, <2>2, <2>3
<1> HIDE DEF e, d, off, trip
<1>4. d * Day + e.dep = DepartsOn(n, r, u, f, i) /\ On(e, d).dep = d * Day + e.dep
  BY <1>3 DEF DepartsOn, On, trip
<1>5. Runs(e, d, t)
  BY <1>2, <1>3, <1>4 DEF Runs
<1>6. CASE On(e, d).dep <= t + MaxTravelTime
  BY <1>1, <1>3, <1>4, <1>5, <1>6, GetConnectionIs
<1>7. CASE ~(On(e, d).dep <= t + MaxTravelTime)
  <2>1. c.dep \in Nat /\ c.dep <= t + MaxTravelTime
    BY TrainFound
  <2>2. DepartsOn(n, r, u, f, i) \in Nat /\ t + MaxTravelTime \in Nat
    BY TrainTimes, GraphIs
  <2> QED BY <1>4, <1>7, <2>1, <2>2
<1> QED BY <1>6, <1>7

(* Who stays in a train leaves with it.                                    *)
LEMMA StaysAboard ==
  ASSUME NEW n, IsNetwork(n), DifferentMinutes(n), StandAlone(n), NEW r \in DOMAIN n.routes,
         NEW i \in Sections(n, r), i # 1, NEW u, NEW f, RunsOn(n, r, u, f),
         NEW c, c = GetConnection(Row(n, r, i), ArrivesOn(n, r, u, f, i)), c # None
  PROVE  c.arr = ArrivesOn(n, r, u, f, i + 1)
<1> DEFINE t == ArrivesOn(n, r, u, f, i)
<1>1. i - 1 \in Sections(n, r) /\ (i - 1) + 1 = i
  BY RouteIs DEF Sections
<1>2. t \in Nat /\ t <= DepartsOn(n, r, u, f, i)
  BY <1>1, TrainTimes
<1>3. c.dep <= DepartsOn(n, r, u, f, i)
  BY <1>2, TrainNotMissed
<1>4. t <= c.dep
  BY <1>2, TrainFound
<1>5. PICK v, g : RunsOn(n, r, v, g) /\ c.dep = DepartsOn(n, r, v, g, i) /\ c.arr = ArrivesOn(n, r, v, g, i + 1)
  BY <1>2, TrainFound
<1>6. i \in Sections(n, r) \ {1}
  OBVIOUS
<1>7. u = v /\ f = g
  BY <1>3, <1>4, <1>5, <1>6 DEF StandAlone, RunsOn, DepartsOn, ArrivesOn
<1> QED BY <1>5, <1>7

(* Who has boarded a train may leave it at a later stop.                   *)
LEMMA RideExists ==
  ASSUME NEW n, IsNetwork(n), NEW r \in DOMAIN n.routes, NEW u, NEW f, RunsOn(n, r, u, f),
         NEW i \in DOMAIN n.routes[r].stops, NEW j \in DOMAIN n.routes[r].stops, i < j,
         n.routes[r].leave[j]
  PROVE  \E y \in Rides(n) :
           /\ y.route = r /\ y.enter = i /\ y.to = n.routes[r].stops[j]
           /\ y.dep = DepartsOn(n, r, u, f, i) /\ y.arr = ArrivesOn(n, r, u, f, j)
<1> DEFINE stops == n.routes[r].stops
           trip == n.routes[r].trips[u]
           y == [route |-> r, enter |-> i, exit |-> j, from |-> stops[i], to |-> stops[j],
                 dep |-> f * Day + Departure(trip, i), arr |-> f * Day + Arrival(trip, j)]
<1>1. u \in DOMAIN n.routes[r].trips /\ f \in trip.days /\ trip.valid
  BY DEF RunsOn
<1>2. <<i, j>> \in {q \in (DOMAIN stops) \X (DOMAIN stops) : q[1] < q[2] /\ n.routes[r].leave[q[2]]}
  OBVIOUS
<1>3. f \in IF trip.valid THEN trip.days ELSE {}
  BY <1>1
<1>4. y \in RidesOf(n, r, u)
  <2>1. \E p \in {q \in (DOMAIN stops) \X (DOMAIN stops) : q[1] < q[2] /\ n.routes[r].leave[q[2]]} :
          \E d \in IF trip.valid THEN trip.days ELSE {} :
            y = [route |-> r, enter |-> p[1], exit |-> p[2], from |-> stops[p[1]], to |-> stops[p[2]],
                 dep |-> d * Day + Departure(trip, p[1]), arr |-> d * Day + Arrival(trip, p[2])]
    <3>1. <<i, j>>[1] = i /\ <<i, j>>[2] = j
      OBVIOUS
    <3> QED BY <1>2, <1>3, <3>1
  <2> QED BY <2>1 DEF RidesOf
<1> HIDE DEF y
<1>5. y \in Rides(n)
  BY <1>1, <1>4 DEF Rides
<1> QED BY <1>5 DEF y, DepartsOn, ArrivesOn

LEMMA RideFrom ==
  ASSUME NEW n, IsNetwork(n), NEW y \in Rides(n)
  PROVE  /\ y.enter \in Sections(n, y.route) /\ y.from = n.routes[y.route].stops[y.enter]
         /\ y.dep # None.dep
<1>1. PICK r \in DOMAIN n.routes : \E i, j \in DOMAIN n.routes[r].stops : \E D, A :
           IsRide(n, y, r, i, j, D, A)
  BY RideIs
<1>2. PICK i, j \in DOMAIN n.routes[r].stops : \E D, A : IsRide(n, y, r, i, j, D, A)
  BY <1>1
<1>3. PICK D, A : IsRide(n, y, r, i, j, D, A)
  BY <1>2
<1>4. i \in Nat /\ j \in Nat
  BY RouteIs
<1>5. i < j
  BY <1>3 DEF IsRide
<1>6. i \in i..(j - 1)
  BY <1>4, <1>5
<1>7. i \in Sections(n, r) /\ y.route = r /\ y.enter = i /\ y.from = n.routes[r].stops[i]
  BY <1>3, <1>6 DEF IsRide
<1>8. y.dep \in Nat /\ None.dep = -1
  BY RideTimes DEF None
<1> QED BY <1>7, <1>8
----------------------------------------------------------------------------
(* What a label says of the journeys                                       *)

LEMMA BoardHere ==
  ASSUME NEW n, NEW q, NEW iv, World(n, q, iv), DifferentMinutes(n),
         NEW r \in DOMAIN n.routes, NEW i \in DOMAIN n.routes[r].stops, n.routes[r].enter[i],
         NEW s, NEW t \in Nat, NEW x, Ready(n, q, iv, n.routes[r].stops[i], s, t, x)
  PROVE  OnPlatform(n, q, iv, r, i, s, t, x)
<1>1. IsNetwork(n)
  BY DEF World
<1>2. PICK p : Reached(n, q, iv, p) /\ p.at = n.routes[r].stops[i] /\ p.start = s /\ p.ready = t /\ p.rides = x
  BY DEF Ready
<1>3. SUFFICES ASSUME NEW y \in Rides(n), y.route = r, y.enter = i,
                      y.dep = GetConnection(Row(n, r, i), t).dep, InTime(s, y.arr)
               PROVE  Reached(n, q, iv, After(n, s, y, x + 1))
  BY DEF OnPlatform, MayRide
<1>4. y.enter \in Sections(n, y.route) /\ y.from = n.routes[y.route].stops[y.enter] /\ y.dep # None.dep
  BY <1>1, RideFrom
<1>5. PICK c : c = GetConnection(Row(n, r, i), t)
  OBVIOUS
<1>6. i \in Sections(n, r) /\ c # None
  BY <1>3, <1>4, <1>5
<1>7. t <= c.dep
  BY <1>1, <1>5, <1>6, TrainFound
<1>8. MayEnter(n, y)
  BY <1>3 DEF MayEnter
<1> QED BY <1>2, <1>3, <1>4, <1>5, <1>7, <1>8, RideReached

LEMMA LeaveHere ==
  ASSUME NEW n, NEW q, NEW iv, World(n, q, iv),
         NEW r \in DOMAIN n.routes, NEW j \in DOMAIN n.routes[r].stops, n.routes[r].leave[j],
         NEW s, NEW t, NEW x, OnTrain(n, q, iv, r, j, s, t, x), InTime(s, t),
         NEW a, a = n.routes[r].stops[j]
  PROVE  There(n, q, iv, a, s, t, x + 1) /\ Ready(n, q, iv, a, s, t + n.transfer[a], x + 1)
<1>1. IsNetwork(n)
  BY DEF World
<1>2. PICK u, f : \E i \in 1..(j - 1) :
        /\ RunsOn(n, r, u, f) /\ t = ArrivesOn(n, r, u, f, j)
        /\ MayRide(n, q, iv, r, i, DepartsOn(n, r, u, f, i), s, x)
  BY DEF OnTrain
<1>3. PICK i \in 1..(j - 1) :
        /\ RunsOn(n, r, u, f) /\ t = ArrivesOn(n, r, u, f, j)
        /\ MayRide(n, q, iv, r, i, DepartsOn(n, r, u, f, i), s, x)
  BY <1>2
<1>4. i \in DOMAIN n.routes[r].stops /\ i < j
  <2>1. DOMAIN n.routes[r].stops = 1..Len(n.routes[r].stops) /\ Len(n.routes[r].stops) \in Nat
    BY <1>1, RouteIs
  <2> QED BY <2>1
<1>5. PICK y \in Rides(n) : /\ y.route = r /\ y.enter = i /\ y.to = a
                            /\ y.dep = DepartsOn(n, r, u, f, i) /\ y.arr = t
  BY <1>1, <1>3, <1>4, RideExists
<1>6. PICK p : p = After(n, s, y, x + 1)
  OBVIOUS
<1>7. Reached(n, q, iv, p)
  BY <1>3, <1>5, <1>6 DEF MayRide
<1>8. p.start = s /\ p.at = a /\ p.arr = t /\ p.ready = t + n.transfer[a] /\ p.rides = x + 1
  BY <1>5, <1>6 DEF After, Position
<1> QED BY <1>7, <1>8 DEF There, Ready

LEMMA RideOn ==
  ASSUME NEW n, NEW q, NEW iv, World(n, q, iv), DifferentMinutes(n), StandAlone(n),
         NEW r \in DOMAIN n.routes, NEW i \in Sections(n, r), NEW s, NEW t \in Nat, NEW x,
         OnPlatform(n, q, iv, r, i, s, t, x) \/ OnTrain(n, q, iv, r, i, s, t, x),
         NEW c, c = GetConnection(Row(n, r, i), t), c # None
  PROVE  OnTrain(n, q, iv, r, i + 1, s, c.arr, x)
<1>1. IsNetwork(n) /\ i \in Nat /\ i # 0 /\ (i + 1) - 1 = i
  BY RouteIs DEF World, Sections
<1>2. CASE OnPlatform(n, q, iv, r, i, s, t, x)
  <2>1. PICK u, f : /\ RunsOn(n, r, u, f) /\ c.dep = DepartsOn(n, r, u, f, i)
                    /\ c.arr = ArrivesOn(n, r, u, f, i + 1)
    BY <1>1, TrainFound
  <2>2. MayRide(n, q, iv, r, i, DepartsOn(n, r, u, f, i), s, x)
    BY <1>2, <2>1 DEF OnPlatform
  <2>3. i \in 1..((i + 1) - 1)
    BY <1>1
  <2> QED BY <2>1, <2>2, <2>3 DEF OnTrain
<1>3. CASE OnTrain(n, q, iv, r, i, s, t, x)
  <2>1. PICK u, f : \E k \in 1..(i - 1) :
          /\ RunsOn(n, r, u, f) /\ t = ArrivesOn(n, r, u, f, i)
          /\ MayRide(n, q, iv, r, k, DepartsOn(n, r, u, f, k), s, x)
    BY <1>3 DEF OnTrain
  <2>2. PICK k \in 1..(i - 1) :
          /\ RunsOn(n, r, u, f) /\ t = ArrivesOn(n, r, u, f, i)
          /\ MayRide(n, q, iv, r, k, DepartsOn(n, r, u, f, k), s, x)
    BY <2>1
  <2>3. i # 1 /\ k \in 1..((i + 1) - 1)
    BY <1>1, <2>2
  <2>4. c = GetConnection(Row(n, r, i), ArrivesOn(n, r, u, f, i))
    BY <2>2
  <2>5. c.arr = ArrivesOn(n, r, u, f, i + 1)
    BY <1>1, <2>2, <2>3, <2>4, StaysAboard
  <2> QED BY <2>2, <2>3, <2>5 DEF OnTrain
<1> QED BY <1>2, <1>3

LEMMA WalkTo ==
  ASSUME NEW n, NEW q, NEW iv, World(n, q, iv), NEW w \in n.walks,
         NEW s, NEW t, NEW x, There(n, q, iv, w.from, s, t, x), InTime(s, t + w.time)
  PROVE  There(n, q, iv, w.to, s, t + w.time, x) /\ Ready(n, q, iv, w.to, s, t + w.time, x)
<1>1. PICK p : Reached(n, q, iv, p) /\ p.at = w.from /\ p.start = s /\ p.arr = t /\ p.rides = x
  BY DEF There
<1>2. PICK c : c = Position(p.start, w.to, p.arr + w.time, p.arr + w.time, p.rides)
  OBVIOUS
<1>3. Reached(n, q, iv, c)
  BY <1>1, <1>2, WalkReached
<1>4. c.start = s /\ c.at = w.to /\ c.arr = t + w.time /\ c.ready = t + w.time /\ c.rides = x
  BY <1>1, <1>2 DEF Position
<1> QED BY <1>3, <1>4 DEF There, Ready

LEMMA ThereWider ==
  ASSUME NEW n, NEW q, NEW iv, NEW jv, World(n, q, iv), World(n, q, jv), q.kind = "pretrip",
         jv.begin <= iv.begin, iv.end <= jv.end,
         NEW a, NEW s, NEW t, NEW x, There(n, q, iv, a, s, t, x)
  PROVE  There(n, q, jv, a, s, t, x)
BY ReachedWider DEF There

LEMMA PretripStartFits ==
  ASSUME Prepared, World(net, query, interval), query.kind = "pretrip",
         NEW s \in MayStartIn(interval.begin, interval.end),
         NEW l, l.node = s.node, l.start = s.time, l.now = s.time, l.transfers = 0, l.train = None,
         l.pred # NoAddress
  PROVE  Fits(net, query, interval, l) /\ l.node.kind # "station"
<1>1. IsNetwork(net) /\ DifferentMinutes(net) /\ edges = Edges(net)
      /\ interval.begin \in Nat /\ interval.end \in Nat
  BY DEF Prepared, World
<1>2. PICK v : v = s.node
  OBVIOUS
<1>3. PICK t : t = s.time
  OBVIOUS
<1>4. PICK e \in ToSet(edges[StationNode(query.from)]) : e.type = "FOOT" /\ e.to.kind = "route" /\ v = e.to
  BY <1>2 DEF MayStartIn, StartStops
<1>5. query.from \in 1..net.stations
  BY PretripQuery
<1>6. e \in StationEdges(net, query.from)
  BY <1>1, <1>5, EdgesAt
<1>7. e # ToFootEdge(query.from)
  BY <1>4 DEF ToFootEdge, Edge, FootNode
<1>8. PICK p \in StopsAt(net, query.from) : e = BoardEdge(net, p[1], p[2])
  BY <1>6, <1>7 DEF StationEdges
<1>9. PICK r, i : r = p[1] /\ i = p[2]
  OBVIOUS
<1>10. /\ r \in DOMAIN net.routes /\ i \in DOMAIN net.routes[r].stops
       /\ net.routes[r].stops[i] = query.from
  BY <1>1, <1>8, <1>9, StopsAre DEF StopsAt
<1>11. net.routes[r].enter[i] /\ v = RouteNode(net, r, i)
  BY <1>4, <1>8, <1>9 DEF BoardEdge, Edge
<1>12. v.kind = "route" /\ v.route = r /\ v.stop = i
  BY <1>11 DEF RouteNode
<1>13. t \in interval.begin..interval.end
  BY <1>3 DEF MayStartIn
<1>14. PICK row : /\ row \in {edges[v][k].row : k \in {j \in DOMAIN edges[v] : edges[v][j].type = "ROUTE"}}
                  /\ GetConnection(row, t) # None /\ GetConnection(row, t).dep = t
  BY <1>2, <1>3 DEF MayStartIn, DepartureAt
<1>15. row = Row(net, r, i)
  <2>1. PICK f \in ToSet(edges[v]) : f.type = "ROUTE" /\ row = f.row
    BY <1>14 DEF ToSet
  <2>2. f \in StopEdges(net, r, i)
    BY <1>1, <1>10, <1>11, <2>1, EdgesAt
  <2>3. f # ExitEdge(net, r, i) /\ f # WalkOffEdge(net, r, i)
    BY <2>1 DEF ExitEdge, WalkOffEdge, Edge
  <2>4. f = RideEdge(net, r, i)
    BY <2>2, <2>3 DEF StopEdges
  <2> QED BY <2>1, <2>4 DEF RideEdge, Edge
<1>16. ASSUME NEW y \in Rides(net), y.route = r, y.enter = i, y.dep = t, InTime(t, y.arr)
       PROVE  Reached(net, query, interval, After(net, t, y, 0 + 1))
  <2>1. y.from = query.from
    BY <1>1, <1>10, <1>16, RideFrom
  <2>2. MayEnter(net, y)
    BY <1>11, <1>16 DEF MayEnter
  <2>3. interval.begin <= y.dep /\ y.dep <= interval.end
    BY <1>13, <1>16
  <2>4. After(net, y.dep, y, 1) \in Starts(net, query, interval, Rides(net))
    BY <1>16, <2>1, <2>2, <2>3 DEF Starts
  <2>5. 0 + 1 = 1
    OBVIOUS
  <2>6. Reached(net, query, interval, After(net, y.dep, y, 1))
    BY <2>4, StartReached
  <2> QED BY <1>16, <2>5, <2>6
<1>17. OnPlatform(net, query, interval, r, i, t, t, 0)
  BY <1>14, <1>15, <1>16 DEF OnPlatform, MayRide
<1> QED BY <1>2, <1>3, <1>12, <1>17 DEF Fits

LEMMA StationStartFits ==
  ASSUME Prepared, World(net, query, interval), query.kind = "station",
         NEW l, l.node = OntripNode, l.start = interval.begin, l.now = interval.begin,
         l.transfers = 0
  PROVE  Fits(net, query, interval, l) /\ IsHere(l)
<1> DEFINE b == interval.begin
           a == query.from
<1>1. l.node.kind = "station" /\ l.node.station = a
  BY DEF OntripNode, StationNode
<1>2. PICK p : p = Position(b, a, b, b, 0)
  OBVIOUS
<1>3. p \in Starts(net, query, interval, Rides(net))
  BY <1>2 DEF Starts
<1>4. Reached(net, query, interval, p)
  BY <1>3, StartReached
<1>5. p.at = a /\ p.start = b /\ p.arr = b /\ p.ready = b /\ p.rides = 0
  BY <1>2 DEF Position
<1> HIDE DEF a, b
<1>6. Ready(net, query, interval, a, b, b, 0) /\ There(net, query, interval, a, b, b, 0)
  BY <1>4, <1>5 DEF Ready, There
<1> QED BY <1>1, <1>6 DEF Fits, IsHere, b

LEMMA TrainStartFits ==
  ASSUME Prepared, World(net, query, interval), query.kind = "train",
         NEW l, l.node = OntripNode, l.start = interval.begin, l.now = interval.begin,
         l.transfers = 0, l.train = None
  PROVE  Fits(net, query, interval, l) /\ l.node.kind # "station"
<1> DEFINE b == interval.begin
           r == query.route
           i == query.stop
<1>1. /\ IsNetwork(net) /\ DifferentMinutes(net) /\ b \in Nat
      /\ r \in DOMAIN net.routes /\ i \in DOMAIN net.routes[r].stops
  BY DEF Prepared, World, IsQuery
<1>2. l.node.kind = "route" /\ l.node.route = r /\ l.node.stop = i
  BY DEF OntripNode, RouteNode
<1>3. ASSUME NEW y \in Rides(net), y.route = r, y.enter = i,
             y.dep = GetConnection(Row(net, r, i), b).dep, InTime(b, y.arr)
      PROVE  Reached(net, query, interval, After(net, b, y, 0 + 1))
  <2>1. y.enter \in Sections(net, y.route) /\ y.dep # None.dep
    BY <1>1, RideFrom
  <2>2. PICK c : c = GetConnection(Row(net, r, i), b)
    OBVIOUS
  <2>3. i \in Sections(net, r) /\ c # None
    BY <1>3, <2>1, <2>2
  <2>4. b <= y.dep
    BY <1>1, <1>3, <2>2, <2>3, TrainFound
  <2>5. After(net, b, y, 1) \in Starts(net, query, interval, Rides(net))
    BY <1>3, <2>4, Zenon DEF Starts
  <2>6. 0 + 1 = 1
    OBVIOUS
  <2>7. Reached(net, query, interval, After(net, b, y, 1))
    BY <2>5, StartReached
  <2> QED BY <2>6, <2>7
<1>4. OnPlatform(net, query, interval, r, i, b, b, 0)
  BY <1>3 DEF OnPlatform, MayRide
<1> QED BY <1>2, <1>4 DEF Fits

(* Who leaves the train the query names, at its first stop.                *)
LEMMA LeavesAtOnce ==
  ASSUME Prepared, World(net, query, interval), query.kind = "train",
         net.routes[query.route].leave[query.stop],
         NEW a, a = net.routes[query.route].stops[query.stop], NEW b, b = interval.begin
  PROVE  /\ There(net, query, interval, a, b, b + net.transfer[a], 1)
         /\ Ready(net, query, interval, a, b, b + net.transfer[a], 1)
<1>1. a # query.to
  BY DEF Prepared, IsQuery, Origin
<1>2. PICK p : p = Position(b, a, b + (IF a = query.to THEN 0 ELSE net.transfer[a]), b + net.transfer[a], 1)
  OBVIOUS
<1>3. p \in Starts(net, query, interval, Rides(net))
  BY <1>2, Zenon DEF Starts
<1>4. Reached(net, query, interval, p)
  BY <1>3, StartReached
<1>5. p.at = a /\ p.start = b /\ p.arr = b + net.transfer[a] /\ p.ready = b + net.transfer[a] /\ p.rides = 1
  BY <1>1, <1>2 DEF Position
<1> QED BY <1>4, <1>5, Zenon DEF There, Ready
----------------------------------------------------------------------------
(* The labels that wait, and the one being expanded                        *)

LEMMA MadeInTime ==
  ASSUME Prepared, NEW l, NEW e, NEW m, Made(l, e, m)
  PROVE  /\ m.node = Goal => m.transfers <= MaxTransfers
         /\ InTime(m.start, m.now)
         /\ l.start \in Nat /\ l.now \in Nat /\ l.transfers \in Nat
<1>1. GoodLabel(m) /\ GoodLabel(l) /\ ~Filtered(m)
  BY DEF Made
<1>2. Room(m.node, m.start, m.now, m.transfers)
  BY <1>1, RoomIs
<1>3. lb.travel[m.node.station] \in Nat
  BY <1>1, LbIs DEF GoodLabel
<1>4. (m.now - m.start) + lb.travel[m.node.station] <= MaxTravelTime
  BY <1>2 DEF Room
<1>5. m.now - m.start <= MaxTravelTime
  BY <1>1, <1>3, <1>4, GraphIs DEF GoodLabel
<1>6. m.node = Goal => m.transfers <= MaxTransfers
  <2>1. lb.transfers[LbNode(Goal)] = 0
    BY LbIs
  <2> QED BY <1>1, <1>2, <2>1 DEF Room, GoodLabel
<1> QED BY <1>1, <1>5, <1>6 DEF GoodLabel, InTime

LEMMA FromStationFits ==
  ASSUME Prepared, World(net, query, interval), NEW l, NEW e, NEW m, Made(l, e, m),
         NEW E, SoundIn(E, l), l.node.kind = "station",
         ~DominatedByResults(m), \A b \in kept : LabelAt(b).node = m.node => ~Dominates(LabelAt(b), m),
         IInv, Places
  PROVE  Fits(net, query, interval, m) /\ m.node.kind # "station"
<1>1. IsNetwork(net) /\ DifferentMinutes(net) /\ edges = Edges(net)
  BY DEF Prepared
<1>2. GoodLabel(l) /\ e \in ToSet(edges[l.node]) /\ EdgeCost(e, l.now, l.train).valid
  BY DEF Made
<1>3. PICK a \in 1..net.stations : l.node = StationNode(a)
  <2>1. l.node \in Nodes(net)
    BY <1>2 DEF GoodLabel
  <2>2. \A s, r, i : FootNode(s).kind = "foot" /\ RouteNode(net, r, i).kind = "route"
    BY DEF FootNode, RouteNode
  <2> QED BY <1>1, <2>1, <2>2, NodesAre
<1>4. e \in StationEdges(net, a) /\ l.node.station = a
  BY <1>1, <1>2, <1>3, EdgesAt DEF StationNode
<1>5. l.start \in Nat /\ l.now \in Nat /\ l.transfers \in Nat
  BY MadeInTime
<1>6. Ready(net, query, interval, a, l.start, l.now, l.transfers)
  BY <1>4 DEF SoundIn, Fits
<1>7. CASE e # ToFootEdge(a)
  <2>1. PICK p \in StopsAt(net, a) : e = BoardEdge(net, p[1], p[2])
    BY <1>4, <1>7 DEF StationEdges
  <2>2. PICK r, i : r = p[1] /\ i = p[2]
    OBVIOUS
  <2>3. r \in DOMAIN net.routes /\ i \in DOMAIN net.routes[r].stops /\ net.routes[r].stops[i] = a
    BY <1>1, <2>1, <2>2, StopsAre DEF StopsAt
  <2>4. e.type = "FOOT" /\ net.routes[r].enter[i]
    <3>1. e.type = IF net.routes[r].enter[i] THEN "FOOT" ELSE "INVALID"
      BY <2>1, <2>2 DEF BoardEdge, Edge
    <3>2. e.type # "INVALID"
      BY <1>2 DEF EdgeCost, NoEdge
    <3> QED BY <3>1, <3>2
  <2>5. e.to = RouteNode(net, r, i) /\ e.time = 0 /\ e.transfer = FALSE
    BY <2>1, <2>2 DEF BoardEdge, Edge
  <2>6. EdgeCost(e, l.now, l.train) = [valid |-> TRUE, time |-> 0, transfer |-> FALSE, train |-> None]
    BY <2>4, <2>5 DEF EdgeCost
  <2>7. m.node = RouteNode(net, r, i) /\ m.train = None /\ m.start = l.start /\ m.pred # NoAddress
        /\ m.now = l.now + 0 /\ m.transfers = l.transfers + 0
    BY <2>5, <2>6 DEF Made
  <2>8. OnPlatform(net, query, interval, r, i, l.start, l.now, l.transfers)
    BY <1>1, <1>5, <1>6, <2>3, <2>4, BoardHere
  <2>9. m.node.kind = "route" /\ m.node.route = r /\ m.node.stop = i
    BY <2>7 DEF RouteNode
  <2>10. m.now = l.now /\ m.transfers = l.transfers
    BY <1>5, <2>7
  <2> QED BY <2>7, <2>8, <2>9, <2>10 DEF Fits
<1>8. CASE e = ToFootEdge(a)
  <2>1. FootNode(a) \in FootNodes(net) /\ e.to = FootNode(a) /\ e.type = "FWD" /\ e.time = 0 /\ e.transfer = FALSE
    <3>1. \A p : e # BoardEdge(net, p[1], p[2])
      BY <1>8 DEF ToFootEdge, BoardEdge, Edge
    <3> QED BY <1>4, <1>8, <3>1 DEF StationEdges, ToFootEdge, Edge
  <2>2. EdgeCost(e, l.now, l.train) = [valid |-> TRUE, time |-> 0, transfer |-> FALSE, train |-> None]
    BY <2>1 DEF EdgeCost
  <2>3. m.node = FootNode(a) /\ m.start = l.start /\ m.now = l.now + 0 /\ m.transfers = l.transfers + 0 /\ GoodLabel(m)
    BY <2>1, <2>2 DEF Made
  <2>4. m.node.kind = "foot" /\ m.node.station = a /\ m.now = l.now /\ m.transfers = l.transfers
    BY <1>5, <2>3 DEF FootNode
  <2>5. ~KeptAt(FootNode(a), l.start, l.now, l.transfers)
    <3> SUFFICES ASSUME NEW b \in kept, LabelAt(b).node = FootNode(a), l.start <= LabelAt(b).start,
                        LabelAt(b).now <= l.now, LabelAt(b).transfers <= l.transfers
                 PROVE  FALSE
      BY DEF KeptAt
    <3>1. PICK k : k = LabelAt(b)
      OBVIOUS
    <3>2. GoodLabel(k) /\ k.node = m.node
      BY <2>3, <3>1, InUse DEF Places
    <3>3. lb.travel[m.node.station] \in Nat /\ lb.transfers[LbNode(m.node)] \in Nat
      BY <2>3, LbIs DEF GoodLabel
    <3>4. Dominates(k, m)
      BY <2>3, <2>4, <3>1, <3>2, <3>3
         DEF Dominates, Comparable, TravelTimeLb, TravelTime, TransfersLb, GoodLabel
    <3> QED BY <2>3, <3>1, <3>4
  <2>6. ~ResultAt(FootNode(a), l.start, l.now, l.transfers)
    <3> SUFFICES ASSUME NEW j \in Found, l.start <= j.start, j.now <= l.now,
                        j.transfers <= l.transfers + lb.transfers[LbNode(FootNode(a))]
                 PROVE  FALSE
      BY DEF ResultAt
    <3>1. PICK b \in results : j = AsJourney(LabelAt(b))
      BY DEF Found
    <3>2. PICK k : k = LabelAt(b)
      OBVIOUS
    <3>3. GoodLabel(k) /\ k.node = Goal /\ j.start = k.start /\ j.now = k.now /\ j.transfers = k.transfers
      BY <3>1, <3>2, InUse DEF Places, AsJourney
    <3>4. lb.travel[m.node.station] \in Nat /\ lb.transfers[LbNode(m.node)] \in Nat
          /\ lb.travel[Goal.station] = 0 /\ lb.transfers[LbNode(Goal)] = 0
      BY <2>3, LbIs DEF GoodLabel
    <3>5. Dominates(k, m)
      BY <2>3, <2>4, <3>3, <3>4
         DEF Dominates, Comparable, TravelTimeLb, TravelTime, TransfersLb, GoodLabel
    <3> QED BY <3>2, <3>5 DEF DominatedByResults, LabelAt
  <2>7. ~Pending(E, l)
    BY DEF Pending, Made
  <2>8. IsHere(l)
    BY <1>4, <2>1, <2>5, <2>6, <2>7 DEF SoundIn, Provided
  <2> QED BY <1>4, <2>3, <2>4, <2>8 DEF Fits, IsHere
<1> QED BY <1>7, <1>8

LEMMA FromFootFits ==
  ASSUME Prepared, World(net, query, interval), NEW l, NEW e, NEW m, Made(l, e, m),
         NEW E, SoundIn(E, l), l.node.kind = "foot"
  PROVE  Fits(net, query, interval, m) /\ IsHere(m)
<1>1. IsNetwork(net) /\ edges = Edges(net)
  BY DEF Prepared
<1>2. GoodLabel(l) /\ e \in ToSet(edges[l.node])
  BY DEF Made
<1>3. PICK a \in 1..net.stations : l.node = FootNode(a) /\ FootNode(a) \in FootNodes(net)
  <2>1. l.node \in Nodes(net)
    BY <1>2 DEF GoodLabel
  <2> QED BY <1>1, <2>1, NodesAre DEF StationNode, RouteNode
<1>4. e \in FootEdges(net, a) /\ l.node.station = a
  BY <1>1, <1>2, <1>3, EdgesAt DEF FootNode
<1>5. PICK w \in net.walks : w.from = a /\ e = WalkEdge(w)
  BY <1>4 DEF FootEdges
<1>6. e.from.station = a /\ e.to = StationNode(w.to) /\ e.type = "FWD" /\ e.time = w.time /\ e.transfer = FALSE
  BY <1>5 DEF WalkEdge, Edge, FootNode
<1>7. EdgeCost(e, l.now, l.train) = [valid |-> TRUE, time |-> w.time, transfer |-> FALSE, train |-> None]
  BY <1>6 DEF EdgeCost
<1>8. ~(e.from.station = query.to /\ e.to = StationNode(query.to))
  BY <1>1, <1>5, <1>6 DEF IsNetwork, StationNode
<1>9. /\ m.node = StationNode(w.to) /\ m.start = l.start /\ m.now = l.now + w.time
      /\ m.transfers = l.transfers + 0
  BY <1>6, <1>7, <1>8 DEF Made
<1>10. l.transfers \in Nat /\ InTime(m.start, m.now)
  BY MadeInTime
<1>11. m.transfers = l.transfers /\ InTime(l.start, l.now + w.time)
  BY <1>9, <1>10
<1>12. There(net, query, interval, w.from, l.start, l.now, l.transfers)
  BY <1>4, <1>5, <1>3 DEF SoundIn, Fits
<1>13. /\ There(net, query, interval, w.to, l.start, l.now + w.time, l.transfers)
       /\ Ready(net, query, interval, w.to, l.start, l.now + w.time, l.transfers)
  BY <1>11, <1>12, WalkTo
<1>14. m.node.kind = "station" /\ m.node.station = w.to
  BY <1>9 DEF StationNode
<1> QED BY <1>9, <1>11, <1>13, <1>14 DEF Fits, IsHere

LEMMA AtStop ==
  ASSUME Prepared, NEW l, GoodLabel(l), l.node.kind = "route"
  PROVE  \E r \in DOMAIN net.routes : \E j \in DOMAIN net.routes[r].stops : l.node = RouteNode(net, r, j)
<1>1. IsNetwork(net) /\ l.node \in Nodes(net)
  BY DEF Prepared, GoodLabel
<1>2. \A s : StationNode(s).kind = "station" /\ FootNode(s).kind = "foot"
  BY DEF StationNode, FootNode
<1> QED BY <1>1, <1>2, NodesAre

(* Who waits for a train at a stop has come from its station or begins     *)
(* there; who sits in one has come along the route.                        *)
LEMMA CameFrom ==
  ASSUME Prepared, NEW l, GoodLabel(l), OriginOf(l), l.node.kind = "route",
         l.pred # NoAddress, LabelAt(l.pred).node \in Nodes(net)
  PROVE  IF l.train = None THEN LabelAt(l.pred).node = StationNode(l.node.station)
                           ELSE LabelAt(l.pred).node.kind = "route"
<1>1. PICK p : p = LabelAt(l.pred)
  OBVIOUS
<1>2. (PretripStart(l) /\ p.node = StationNode(query.from)) \/ StepFrom(p, l)
  BY <1>1 DEF OriginOf
<1>3. CASE PretripStart(l) /\ p.node = StationNode(query.from)
  BY <1>1, <1>3 DEF PretripStart
<1>4. CASE StepFrom(p, l)
  <2>1. PICK e \in ToSet(edges[p.node]) : e.to = l.node /\ (l.train = None <=> e.type # "ROUTE")
    BY <1>4 DEF StepFrom
  <2>2. IsEdge(net, p.node, e)
    BY <1>1, <2>1, EdgeIs DEF Prepared
  <2>3. CASE l.train = None
    BY <1>1, <2>1, <2>2, <2>3 DEF IsEdge
  <2>4. CASE l.train # None
    <3>1. AlongRoute(net, p.node, e)
      BY <2>1, <2>2, <2>4 DEF IsEdge
    <3>2. p.node.kind = "route"
      BY <3>1 DEF AlongRoute, RouteNode
    <3> QED BY <1>1, <2>4, <3>2
  <2> QED BY <2>3, <2>4
<1> QED BY <1>2, <1>3, <1>4

LEMMA FromTrainFits ==
  ASSUME Prepared, World(net, query, interval), StandAlone(net), NEW l, NEW e, NEW m, Made(l, e, m),
         Fits(net, query, interval, l), NEW r \in DOMAIN net.routes, NEW j \in Sections(net, r),
         l.node = RouteNode(net, r, j), e = RideEdge(net, r, j)
  PROVE  Fits(net, query, interval, m) /\ m.node.kind # "station"
<1>1. DifferentMinutes(net) /\ l.now \in Nat /\ l.transfers \in Nat
  BY MadeInTime DEF Prepared
<1>2. e.type = "ROUTE" /\ e.row = Row(net, r, j) /\ e.to = RouteNode(net, r, j + 1)
  BY DEF RideEdge, Edge
<1>3. PICK c : c = GetConnection(Row(net, r, j), l.now)
  OBVIOUS
<1>4. EdgeCost(e, l.now, l.train) =
        IF c = None THEN NoEdge
        ELSE [valid |-> TRUE, time |-> c.arr - l.now, transfer |-> FALSE, train |-> c]
  BY <1>2, <1>3 DEF EdgeCost
<1>5. c # None
  BY <1>4 DEF Made, NoEdge
<1>6. EdgeCost(e, l.now, l.train) =
        [valid |-> TRUE, time |-> c.arr - l.now, transfer |-> FALSE, train |-> c]
  BY <1>4, <1>5
<1>7. e.to # StationNode(query.to)
  BY <1>2 DEF RouteNode, StationNode
<1>8. /\ m.node = RouteNode(net, r, j + 1) /\ m.train = c /\ m.start = l.start
      /\ m.now = l.now + (c.arr - l.now) /\ m.transfers = l.transfers + 0
  BY <1>2, <1>6, <1>7 DEF Made
<1>9. c.arr \in Nat
  BY <1>1, <1>3, <1>5, TrainFound DEF World
<1>10. m.now = c.arr /\ m.transfers = l.transfers
  BY <1>1, <1>8, <1>9
<1>11. /\ l.node.kind = "route" /\ l.node.route = r /\ l.node.stop = j
       /\ m.node.kind = "route" /\ m.node.route = r /\ m.node.stop = j + 1
  BY <1>8 DEF RouteNode
<1>12. \/ OnPlatform(net, query, interval, r, j, l.start, l.now, l.transfers)
       \/ OnTrain(net, query, interval, r, j, l.start, l.now, l.transfers)
  BY <1>11 DEF Fits
<1>13. OnTrain(net, query, interval, r, j + 1, l.start, c.arr, l.transfers)
  BY <1>1, <1>3, <1>5, <1>12, RideOn
<1> QED BY <1>5, <1>8, <1>10, <1>11, <1>13 DEF Fits

LEMMA Alighted ==
  ASSUME Prepared, World(net, query, interval), NEW l, Fits(net, query, interval, l),
         NEW r \in DOMAIN net.routes, NEW j \in DOMAIN net.routes[r].stops,
         l.node = RouteNode(net, r, j), net.routes[r].leave[j], l.train # None,
         InTime(l.start, l.now), NEW a, a = net.routes[r].stops[j]
  PROVE  /\ There(net, query, interval, a, l.start, l.now, l.transfers + 1)
         /\ Ready(net, query, interval, a, l.start, l.now + net.transfer[a], l.transfers + 1)
<1>1. l.node.kind = "route" /\ l.node.route = r /\ l.node.stop = j
  BY DEF RouteNode
<1>2. OnTrain(net, query, interval, r, j, l.start, l.now, l.transfers)
  BY <1>1 DEF Fits
<1> QED BY <1>2, LeaveHere

LEMMA WalkOffFits ==
  ASSUME Prepared, World(net, query, interval), NEW l, NEW e, NEW m, Made(l, e, m),
         Fits(net, query, interval, l), NEW r \in DOMAIN net.routes,
         NEW j \in DOMAIN net.routes[r].stops, l.node = RouteNode(net, r, j),
         net.routes[r].leave[j], e = WalkOffEdge(net, r, j)
  PROVE  Fits(net, query, interval, m) /\ m.node.kind # "station"
<1>1. PICK a : a = net.routes[r].stops[j]
  OBVIOUS
<1>2. e.type = "AFTER_TRAIN_FWD" /\ e.to = FootNode(a) /\ e.time = 0 /\ e.transfer = TRUE
  BY <1>1 DEF WalkOffEdge, Edge
<1>3. l.train # None
  BY <1>2 DEF Made, EdgeCost, NoEdge
<1>4. EdgeCost(e, l.now, l.train) = [valid |-> TRUE, time |-> 0, transfer |-> TRUE, train |-> None]
  BY <1>2, <1>3 DEF EdgeCost
<1>5. /\ m.node = FootNode(a) /\ m.start = l.start /\ m.now = l.now + 0 /\ m.transfers = l.transfers + 1
  BY <1>2, <1>4 DEF Made
<1>6. m.now = l.now /\ InTime(l.start, l.now)
  BY <1>5, MadeInTime
<1>7. m.node.kind = "foot" /\ m.node.station = a
  BY <1>5 DEF FootNode
<1>8. There(net, query, interval, a, l.start, l.now, l.transfers + 1)
  BY <1>1, <1>3, <1>6, Alighted
<1> QED BY <1>5, <1>6, <1>7, <1>8 DEF Fits

LEMMA ExitFits ==
  ASSUME Prepared, World(net, query, interval), NEW l, NEW e, NEW m, Made(l, e, m),
         Fits(net, query, interval, l), NEW r \in DOMAIN net.routes,
         NEW j \in DOMAIN net.routes[r].stops, l.node = RouteNode(net, r, j), e = ExitEdge(net, r, j),
         NEW a, a = net.routes[r].stops[j]
  PROVE  /\ net.routes[r].leave[j] /\ m.node = StationNode(a) /\ m.start = l.start
         /\ m.transfers = l.transfers + 1 /\ net.transfer[a] \in Nat
         /\ \/ IsHere(m) /\ (m.node # Goal => Fits(net, query, interval, m))
            \/ /\ l.train # None /\ m.node # Goal
               /\ Fits(net, query, interval, m) /\ m.now = l.now + net.transfer[a]
<1>1. /\ e.type = IF net.routes[r].leave[j] THEN "FOOT" ELSE "INVALID"
      /\ e.to = StationNode(a) /\ e.time = net.transfer[a] /\ e.transfer = TRUE
      /\ e.from.station = a
  BY DEF ExitEdge, Edge, RouteNode
<1>2. net.routes[r].leave[j] /\ e.type = "FOOT"
  <2>1. e.type # "INVALID"
    BY DEF Made, EdgeCost, NoEdge
  <2> QED BY <1>1, <2>1
<1>3. EdgeCost(e, l.now, l.train) = [valid |-> TRUE, time |-> net.transfer[a], transfer |-> TRUE, train |-> None]
  BY <1>1, <1>2 DEF EdgeCost
<1>4. /\ m.node = StationNode(a) /\ m.start = l.start
      /\ m.now = l.now + (IF e.from.station = query.to /\ e.to = StationNode(query.to) THEN 0 ELSE net.transfer[a])
      /\ m.transfers = l.transfers + 1
  BY <1>1, <1>3 DEF Made
<1>5. m.now = l.now + (IF a = query.to THEN 0 ELSE net.transfer[a])
  BY <1>1, <1>4 DEF StationNode
<1>6. IsNetwork(net) /\ a \in 1..net.stations /\ net.transfer[a] \in Nat
  <2>1. IsNetwork(net)
    BY DEF Prepared
  <2>2. RouteNode(net, r, j).station \in 1..net.stations
    BY LbIs DEF Made, GoodLabel
  <2>3. a \in 1..net.stations
    BY <2>2 DEF RouteNode
  <2> QED BY <2>1, <2>3 DEF IsNetwork
<1>7. /\ l.start \in Nat /\ l.now \in Nat /\ l.transfers \in Nat /\ InTime(m.start, m.now)
  BY MadeInTime
<1>8. m.node.kind = "station" /\ m.node.station = a
  BY <1>4 DEF StationNode
<1>9. CASE l.train # None
  <2>1. MaxTravelTime \in Nat
    BY GraphIs
  <2>2. InTime(l.start, l.now)
    BY <1>4, <1>5, <1>6, <1>7, <2>1 DEF InTime
  <2>3. /\ There(net, query, interval, a, l.start, l.now, l.transfers + 1)
        /\ Ready(net, query, interval, a, l.start, l.now + net.transfer[a], l.transfers + 1)
    BY <1>2, <1>9, <2>2, Alighted
  <2>4. CASE a = query.to
    <3>1. m.now = l.now /\ m.node = Goal
      BY <1>4, <1>5, <1>7, <2>4 DEF Goal
    <3> QED BY <1>2, <1>4, <1>6, <1>8, <2>3, <3>1 DEF IsHere
  <2>5. CASE a # query.to
    <3>1. m.now = l.now + net.transfer[a]
      BY <1>5, <2>5
    <3>2. Fits(net, query, interval, m)
      BY <1>4, <1>8, <2>3, <3>1 DEF Fits
    <3>3. m.node # Goal
      BY <1>4, <2>5 DEF Goal, StationNode
    <3> QED BY <1>2, <1>4, <1>6, <1>9, <3>1, <3>2, <3>3
  <2> QED BY <2>4, <2>5
<1>10. CASE l.train = None
  <2>1. l.node.kind = "route" /\ l.node.station = a
    BY DEF RouteNode
  <2>2. l.pred = NoAddress
    <3> SUFFICES ASSUME l.pred # NoAddress PROVE FALSE
      OBVIOUS
    <3>1. LabelAt(l.pred).node = StationNode(a)
      BY <1>10, <2>1, CameFrom DEF Made
    <3> QED BY <1>1, <3>1 DEF Made
  <2>3. l.start = interval.begin /\ l.now = interval.begin /\ l.transfers = 0
    BY <1>10, <2>1, <2>2 DEF Fits
  <2>4. query.kind = "train" /\ l.node = RouteNode(net, query.route, query.stop)
    <3>1. l.node # StationNode(query.from)
      BY <2>1 DEF StationNode
    <3> QED BY <2>2, <3>1 DEF Made, OriginOf, OntripNode
  <2>5. r = query.route /\ j = query.stop
    <3>1. l.node.route = r /\ l.node.stop = j
      BY DEF RouteNode
    <3>2. l.node.route = query.route /\ l.node.stop = query.stop
      BY <2>4 DEF RouteNode
    <3> QED BY <3>1, <3>2
  <2>6. a # query.to
    <3>1. Origin(net, query) # query.to
      BY DEF Prepared, IsQuery
    <3> QED BY <2>4, <2>5, <3>1 DEF Origin
  <2>7. /\ There(net, query, interval, a, interval.begin, interval.begin + net.transfer[a], 1)
        /\ Ready(net, query, interval, a, interval.begin, interval.begin + net.transfer[a], 1)
    BY <1>2, <2>4, <2>5, LeavesAtOnce
  <2>8. m.now = interval.begin + net.transfer[a] /\ m.transfers = 1 /\ m.start = interval.begin
    BY <1>4, <1>5, <2>3, <2>6
  <2>9. Fits(net, query, interval, m) /\ IsHere(m)
    BY <1>8, <2>7, <2>8 DEF Fits, IsHere
  <2> QED BY <1>2, <1>4, <1>6, <2>9
<1> QED BY <1>9, <1>10

(* Who has paid for the transfer will find the foot node served: the edge  *)
(* to it comes after the one to the station.                               *)
LEMMA ExitProvided ==
  ASSUME Prepared, NEW l, NEW e, NEW m, Made(l, e, m), NEW r \in DOMAIN net.routes,
         NEW j \in DOMAIN net.routes[r].stops, l.node = RouteNode(net, r, j), net.routes[r].leave[j],
         NEW a, a = net.routes[r].stops[j], net.transfer[a] \in Nat, l.train # None,
         m.node = StationNode(a), m.start = l.start, m.now = l.now + net.transfer[a],
         m.transfers = l.transfers + 1,
         NEW E, \A f \in ToSet(edges[l.node]) : f.to.kind # "station" => f \in E
  PROVE  Provided(E, m)
<1>1. SUFFICES ASSUME FootNode(m.node.station) \in FootNodes(net) PROVE Pending(E, m)
  BY DEF Provided
<1>2. m.node.station = a
  BY DEF StationNode
<1>3. PICK w : w = WalkOffEdge(net, r, j)
  OBVIOUS
<1>4. w.type = "AFTER_TRAIN_FWD" /\ w.to = FootNode(a) /\ w.time = 0 /\ w.transfer = TRUE
  BY <1>3 DEF WalkOffEdge, Edge
<1>5. w \in ToSet(edges[l.node])
  <2>1. w \in StopEdges(net, r, j)
    BY <1>1, <1>2, <1>3 DEF StopEdges
  <2> QED BY <2>1, EdgesAt DEF Prepared
<1>6. w \in E /\ w.to # StationNode(query.to)
  BY <1>4, <1>5 DEF FootNode, StationNode
<1>7. l = LabelAt(at) /\ GoodLabel(l) /\ l.node # Goal /\ l.node.kind = "route" /\ OriginOf(l)
  BY DEF Made, RouteNode
<1>8. EdgeCost(w, l.now, l.train) = [valid |-> TRUE, time |-> 0, transfer |-> TRUE, train |-> None]
  BY <1>4 DEF EdgeCost
<1>9. CostAlong(LabelAt(at), w).valid
  BY <1>7, <1>8 DEF CostAlong
<1>10. PICK k : k = Along(at, w)
  OBVIOUS
<1>11. GoodLabel(k) /\ k.node = FootNode(a)
  BY <1>4, <1>5, <1>7, <1>9, <1>10, AlongIs
<1>12. k.start = l.start /\ k.now = l.now + 0 /\ k.transfers = l.transfers + 1
  BY <1>6, <1>7, <1>8, <1>10 DEF Along, CostAlong, Label, LabelAt
<1>13. l.now \in Nat /\ l.start \in Nat /\ l.transfers \in Nat
  BY MadeInTime
<1>14. k.now = l.now /\ k.now <= m.now /\ k.transfers = m.transfers /\ k.start = m.start
  BY <1>12, <1>13
<1>15. ~Filtered(k)
  <2>1. Room(m.node, m.start, m.now, m.transfers)
    BY RoomIs DEF Made
  <2>2. lb.travel[a] \in Nat /\ m.now \in Nat /\ m.start \in Nat /\ MaxTravelTime \in Nat
    BY <1>2, LbIs, GraphIs DEF Made, GoodLabel
  <2>3. k.node.station = a /\ LbNode(k.node) = LbNode(m.node)
    BY <1>11 DEF FootNode, StationNode, LbNode
  <2>4. Room(k.node, k.start, k.now, k.transfers)
    BY <1>2, <1>13, <1>14, <2>1, <2>2, <2>3 DEF Room
  <2> QED BY <1>11, <2>4, RoomIs
<1>16. l.pred # NoAddress => w.to # LabelAt(l.pred).node
  <2> SUFFICES ASSUME l.pred # NoAddress PROVE w.to # LabelAt(l.pred).node
    OBVIOUS
  <2>1. LabelAt(l.pred).node.kind = "route"
    BY <1>7, CameFrom DEF Made
  <2> QED BY <1>4, <2>1 DEF FootNode
<1>17. Creates(at, w)
  BY <1>7, <1>9, <1>10, <1>15, <1>16 DEF Creates, LabelAt
<1>18. AtLeastAsGood(k, m)
  BY <1>13, <1>14 DEF AtLeastAsGood
<1> QED BY <1>2, <1>4, <1>6, <1>7, <1>10, <1>17, <1>18 DEF Pending
----------------------------------------------------------------------------
(* What is known of a label, from step to step                             *)

LEMMA WorldIs ==
  ASSUME Prepared, Clocks, Sensible
  PROVE  World(net, query, interval)
BY RoutingAssumption DEF Prepared, Clocks, Sensible, World

LEMMA KeptStays ==
  ASSUME IInv, Places, KeptImprove, NEW v, NEW s \in Nat, NEW t \in Nat, NEW x \in Nat, KeptAt(v, s, t, x)
  PROVE  KeptAt(v, s, t, x)'
<1>1. PICK b \in kept : /\ LabelAt(b).node = v /\ s <= LabelAt(b).start
                        /\ LabelAt(b).now <= t /\ LabelAt(b).transfers <= x
  BY DEF KeptAt
<1>2. PICK c \in kept' : /\ Times(LabelAt(c)') /\ LabelAt(c)'.node = LabelAt(b).node
                         /\ AtLeastAsGood(LabelAt(c)', LabelAt(b))
  BY DEF KeptImprove
<1>3. Times(LabelAt(b))
  BY InUse, TimesOf
<1>4. /\ LabelAt(c)'.node = v /\ s <= LabelAt(c)'.start
      /\ LabelAt(c)'.now <= t /\ LabelAt(c)'.transfers <= x
  BY <1>1, <1>2, <1>3 DEF Times, AtLeastAsGood
<1> QED BY <1>2, <1>4 DEF KeptAt

LEMMA ResultStays ==
  ASSUME IInv, Places, Prepared, UNCHANGED <<net, lb>>, ResultsImprove,
         NEW v \in Nodes(net), NEW s \in Nat, NEW t \in Nat, NEW x \in Nat, ResultAt(v, s, t, x)
  PROVE  ResultAt(v, s, t, x)'
<1> DEFINE h == lb.transfers[LbNode(v)]
<1>1. h \in Nat /\ h' = h
  BY LbIs DEF LbNode
<1>2. PICK j \in Found : s <= j.start /\ j.now <= t /\ j.transfers <= x + h
  BY DEF ResultAt
<1>3. PICK k \in Found' : Times(k) /\ AtLeastAsGood(k, j)
  BY DEF ResultsImprove
<1>4. Times(j)
  BY TimesOf DEF Answers
<1> HIDE DEF h
<1>5. s <= k.start /\ k.now <= t /\ k.transfers <= x + h
  BY <1>1, <1>2, <1>3, <1>4 DEF Times, AtLeastAsGood
<1> QED BY <1>1, <1>3, <1>5 DEF ResultAt, h

LEMMA ByResult ==
  ASSUME IInv, CInv, NEW l, GoodLabel(l), DominatedByResults(l)
  PROVE  ResultAt(l.node, l.start, l.now, l.transfers)
<1>1. PICK r \in results : Dominates(LabelAt(r), l)
  BY DEF DominatedByResults, LabelAt
<1>2. Prepared /\ GoodLabel(LabelAt(r)) /\ LabelAt(r).node = Goal
  BY InUse DEF CInv, Places
<1> DEFINE j == AsJourney(LabelAt(r))
<1>3. j \in Found
  BY DEF Found
<1>4. j.start = LabelAt(r).start /\ j.now = LabelAt(r).now /\ j.transfers = LabelAt(r).transfers
  BY DEF AsJourney
<1> HIDE DEF j
<1> QED BY <1>1, <1>2, <1>3, <1>4, DominatesIs DEF ResultAt

(* What the label at work would create, it would still create.             *)
LEMMA CreatesStill ==
  ASSUME IInv, IInv', CInv, UNCHANGED <<problem, at>>, at # NoAddress, Lasting, NEW e, Creates(at, e)
  PROVE  Creates(at, e)' /\ Along(at, e)' = Along(at, e) /\ LabelAt(at)'.node = LabelAt(at).node
<1>1. net' = net /\ query' = query /\ edges' = edges /\ lb' = lb
  BY DEF problem
<1>2. PICK a : a = at
  OBVIOUS
<1>3. a \in LiveIn(mem) /\ a \in LiveIn(mem') /\ a = at'
  <2>1. Alive(mem', Queued', results', kept', at')
    BY DEF IInv
  <2> QED BY <1>2, <2>1, AliveUse, InUse
<1>4. PICK l : l = LabelAt(a)
  OBVIOUS
<1>5. PICK k : k = LabelAt(a)'
  OBVIOUS
<1>6. /\ k.pred = l.pred /\ k.node = l.node /\ k.train = l.train /\ k.start = l.start
      /\ k.now = l.now /\ k.transfers = l.transfers
  BY <1>3, <1>4, <1>5 DEF Lasting, Like
<1>7. PICK p : p = l.pred
  OBVIOUS
<1>8. ASSUME p # NoAddress PROVE LabelAt(p)'.node = LabelAt(p).node
  <2>1. p \in LiveIn(mem)
    BY <1>3, <1>4, <1>7, <1>8, InUse
  <2>2. p \in LiveIn(mem')
    <3>1. Alive(mem', Queued', results', kept', at')
      BY DEF IInv
    <3>2. mem'.label[a].pred = p
      BY <1>5, <1>6, <1>7 DEF LabelAt
    <3> QED BY <1>3, <1>8, <3>1, <3>2, AliveUse
  <2> QED BY <2>1, <2>2 DEF Lasting, Like
<1>9. Along(a, e)' = Along(a, e)
  BY <1>1, <1>4, <1>5, <1>6 DEF Along, CostAlong, LabelAt, Label
<1>10. CostAlong(LabelAt(a), e)' = CostAlong(LabelAt(a), e)
  BY <1>4, <1>5, <1>6 DEF CostAlong
<1>11. Filtered(Along(a, e))' = Filtered(Along(a, e))
  <2>1. PICK m : m = Along(a, e)
    OBVIOUS
  <2>2. Filtered(m)' = Filtered(m)
    BY <1>1 DEF Filtered, TravelTimeLb, TravelTime, TransfersLb, LbNode
  <2> QED BY <1>9, <2>1, <2>2 DEF Filtered, TravelTimeLb, TravelTime, TransfersLb, LbNode
<1>12. Creates(a, e)
  BY <1>2
<1>13. p # NoAddress => e.to # mem'.label[p].node
  BY <1>4, <1>7, <1>8, <1>12 DEF Creates, LabelAt
<1>14. CostAlong(LabelAt(a), e)'.valid /\ ~Filtered(Along(a, e))'
  BY <1>10, <1>11, <1>12 DEF Creates, LabelAt
<1>15. Creates(a, e)'
  BY <1>5, <1>6, <1>7, <1>13, <1>14 DEF Creates, LabelAt
<1>16. Creates(at, e)' /\ Along(at, e)' = Along(at, e)
  BY <1>2, <1>3, <1>9, <1>15 DEF Creates, Along, CostAlong, LabelAt, Label
<1> QED BY <1>2, <1>3, <1>4, <1>5, <1>6, <1>16

LEMMA ResultLater ==
  ASSUME IInv, Places, Prepared, NEW v \in Nodes(net), NEW m, Times(m), NEW l, Times(l),
         AtLeastAsGood(m, l), ResultAt(v, m.start, m.now, m.transfers)
  PROVE  ResultAt(v, l.start, l.now, l.transfers)
<1> DEFINE h == lb.transfers[LbNode(v)]
<1>1. h \in Nat
  BY LbIs
<1>2. PICK j \in Found : m.start <= j.start /\ j.now <= m.now /\ j.transfers <= m.transfers + h
  BY DEF ResultAt
<1>3. Times(j)
  BY TimesOf DEF Answers
<1> HIDE DEF h
<1>4. l.start <= j.start /\ j.now <= l.now /\ j.transfers <= l.transfers + h
  BY <1>1, <1>2, <1>3 DEF Times, AtLeastAsGood
<1> QED BY <1>4 DEF ResultAt, h

LEMMA KeptLater ==
  ASSUME IInv', Places', NEW v, NEW m, Times(m), NEW l, Times(l),
         AtLeastAsGood(m, l), KeptAt(v, m.start, m.now, m.transfers)'
  PROVE  KeptAt(v, l.start, l.now, l.transfers)'
<1>1. PICK b \in kept' : /\ LabelAt(b)'.node = v /\ m.start <= LabelAt(b)'.start
                         /\ LabelAt(b)'.now <= m.now /\ LabelAt(b)'.transfers <= m.transfers
  BY DEF KeptAt
<1>2. b \in LiveIn(mem')
  <2>1. Alive(mem', Queued', results', kept', at')
    BY DEF IInv
  <2> QED BY <2>1, AliveUse
<1>3. GoodLabel(LabelAt(b))'
  BY <1>2 DEF Places
<1>4. LabelAt(b)'.start \in Nat /\ LabelAt(b)'.now \in Nat /\ LabelAt(b)'.transfers \in Nat
  BY <1>3 DEF GoodLabel
<1>5. /\ l.start <= LabelAt(b)'.start /\ LabelAt(b)'.now <= l.now
      /\ LabelAt(b)'.transfers <= l.transfers
  BY <1>1, <1>4 DEF Times, AtLeastAsGood
<1> QED BY <1>1, <1>5 DEF KeptAt

LEMMA PendingStays ==
  ASSUME IInv, IInv', CInv, CInv', Relaxing, Lasting, ResultsImprove, Grows,
         NEW l, Times(l), NEW f, f = FootNode(l.node.station), f \in FootNodes(net),
         Pending(ToSet(todo), l)
  PROVE  \/ KeptAt(f, l.start, l.now, l.transfers)'
         \/ ResultAt(f, l.start, l.now, l.transfers)'
         \/ Pending(ToSet(todo), l)'
<1>1. PICK e \in ToSet(todo) : /\ LabelAt(at).node.kind = "route" /\ Creates(at, e)
                               /\ e.to = f /\ AtLeastAsGood(Along(at, e), l)
  BY DEF Pending
<1>2. UNCHANGED <<problem, at>> /\ at # NoAddress /\ ToSet(todo) = {Head(todo)} \cup ToSet(todo')
  BY AtWork DEF Relaxing
<1>3. Prepared /\ Places /\ Places'
  BY DEF CInv
<1>4. f \in Nodes(net) /\ l.start \in Nat /\ l.now \in Nat /\ l.transfers \in Nat
  BY <1>3, NodesAre DEF Prepared, Times
<1>5. CASE e \in ToSet(todo')
  <2>1. Creates(at, e)' /\ Along(at, e)' = Along(at, e) /\ LabelAt(at)'.node = LabelAt(at).node
    BY <1>1, <1>2, CreatesStill
  <2>2. AtLeastAsGood(Along(at, e), l)'
    BY <1>1, <2>1 DEF AtLeastAsGood
  <2>3. Pending(ToSet(todo), l)'
    BY <1>1, <1>5, <2>1, <2>2 DEF Pending
  <2> QED BY <2>3
<1>6. CASE e = Head(todo)
  <2>1. PICK m : m = NewLabel
    OBVIOUS
  <2>2. Creates(at, Head(todo)) /\ GoodLabel(m) /\ m.node = f
    BY <1>1, <1>6, <2>1, AtWork
  <2>3. ~AtGoal
    BY <1>1, <1>6 DEF AtGoal, FootNode, StationNode
  <2>4. AtLeastAsGood(m, l)
    BY <1>1, <1>6, <2>1 DEF NewLabel
  <2>5. Times(m)
    BY <2>2 DEF GoodLabel, Times
  <2>6. CASE DominatedByResults(NewLabel)
    <3>1. ResultAt(f, m.start, m.now, m.transfers)
      BY <2>1, <2>2, <2>6, ByResult
    <3>2. ResultAt(f, l.start, l.now, l.transfers)
      BY <1>3, <1>4, <2>4, <2>5, <3>1, ResultLater
    <3>3. UNCHANGED <<net, lb>>
      BY <1>2 DEF problem
    <3> QED BY <1>3, <1>4, <3>2, <3>3, ResultStays
  <2>7. CASE KeptAt(m.node, m.start, m.now, m.transfers)'
    <3>1. KeptAt(f, m.start, m.now, m.transfers)'
      BY <2>2, <2>7
    <3> QED BY <1>3, <2>4, <2>5, <3>1, KeptLater
  <2> QED BY <2>1, <2>2, <2>3, <2>6, <2>7 DEF Grows
<1> QED BY <1>1, <1>2, <1>5, <1>6

(* What was sound stays so, if what is pending is done in the end.         *)
LEMMA SoundStays ==
  ASSUME IInv, IInv', CInv, UNCHANGED <<problem, interval>>, Lasting, ResultsImprove,
         NEW l, Times(l), NEW E, SoundIn(E, l),
         \A f : f = FootNode(l.node.station) /\ f \in FootNodes(net) /\ Pending(E, l) =>
                  \/ KeptAt(f, l.start, l.now, l.transfers)'
                  \/ ResultAt(f, l.start, l.now, l.transfers)'
                  \/ Pending(ToSet(todo), l)'
  PROVE  SoundIn(ToSet(todo), l)'
<1>1. net' = net /\ query' = query /\ lb' = lb /\ interval' = interval /\ Prepared /\ Places
  BY DEF problem, CInv
<1>2. Fits(net', query', interval', l)
  BY <1>1 DEF SoundIn
<1>3. ASSUME l.node.kind = "station", ~IsHere(l) PROVE Provided(ToSet(todo), l)'
  <2>1. PICK f : f = FootNode(l.node.station)
    OBVIOUS
  <2>2. SUFFICES ASSUME f \in FootNodes(net)
                 PROVE  \/ KeptAt(f, l.start, l.now, l.transfers)'
                        \/ ResultAt(f, l.start, l.now, l.transfers)'
                        \/ Pending(ToSet(todo), l)'
    BY <1>1, <2>1 DEF Provided
  <2>3. \/ KeptAt(f, l.start, l.now, l.transfers)
        \/ ResultAt(f, l.start, l.now, l.transfers)
        \/ Pending(E, l)
    BY <1>3, <2>1, <2>2 DEF SoundIn, Provided
  <2>4. f \in Nodes(net) /\ l.start \in Nat /\ l.now \in Nat /\ l.transfers \in Nat
    BY <1>1, <2>2, NodesAre DEF Prepared, Times
  <2> QED BY <1>1, <2>1, <2>2, <2>3, <2>4, KeptStays, ResultStays DEF Lasting
<1>4. ASSUME l.node.kind = "station", IsHere(l) PROVE IsHere(l)'
  BY <1>1, <1>4 DEF IsHere
<1> QED BY <1>2, <1>3, <1>4 DEF SoundIn

LEMMA SoundLike ==
  ASSUME NEW l, NEW k, Like(l, k)
  PROVE  /\ \A E : SoundIn(E, l) => SoundIn(E, k)
         /\ \A n, q, iv : Fits(n, q, iv, l) => Fits(n, q, iv, k)
         /\ IsHere(l) => IsHere(k)
<1>1. /\ k.pred = l.pred /\ k.node = l.node /\ k.train = l.train /\ k.start = l.start
      /\ k.now = l.now /\ k.transfers = l.transfers
  BY DEF Like
<1>2. \A n, q, iv : Fits(n, q, iv, l) => Fits(n, q, iv, k)
  BY <1>1 DEF Fits
<1>3. IsHere(l) => IsHere(k)
  BY <1>1 DEF IsHere
<1>4. ASSUME NEW E PROVE Provided(E, l) => Provided(E, k)
  <2>1. Pending(E, l) => Pending(E, k)
    BY <1>1 DEF Pending, AtLeastAsGood
  <2> QED BY <1>1, <2>1 DEF Provided
<1> QED BY <1>1, <1>2, <1>3, <1>4 DEF SoundIn

LEMMA EndedStays ==
  ASSUME UNCHANGED <<net, query, interval>>, NEW r, Like(LabelAt(r), LabelAt(r)'), Ended(r)
  PROVE  Ended(r)'
<1>1. PICK l : l = LabelAt(r)
  OBVIOUS
<1>2. PICK k : k = LabelAt(r)'
  OBVIOUS
<1>3. IsHere(l) /\ l.transfers <= MaxTransfers /\ Like(l, k)
  BY <1>1, <1>2 DEF Ended
<1>4. IsHere(k) /\ k.transfers <= MaxTransfers
  BY <1>3, SoundLike DEF Like
<1>5. IsHere(k)'
  BY <1>4 DEF IsHere
<1> QED BY <1>2, <1>4, <1>5 DEF Ended

LEMMA StartsStay ==
  ASSUME UNCHANGED problem, NEW b, NEW e
  PROVE  MayStartIn(b, e)' = MayStartIn(b, e)
<1>1. net' = net /\ query' = query /\ edges' = edges
  BY DEF problem
<1>2. StartStops' = StartStops /\ OntripNode' = OntripNode
  BY <1>1 DEF StartStops, OntripNode
<1>3. \A v, t : DepartureAt(v, t)' = DepartureAt(v, t)
  BY <1>1 DEF DepartureAt
<1> QED BY <1>1, <1>2, <1>3 DEF MayStartIn

LEMMA StepSound ==
  ASSUME IInv, IInv', CInv, JInv, UNCHANGED <<problem, interval>>, Lasting, ResultsImprove,
         \A l : Times(l) /\ SoundIn(ToSet(todo), l) => SoundIn(ToSet(todo), l)',
         \A a \in Queued' \ Queued : Sound(a)', \A r \in results' \ results : Ended(r)',
         at' = at \/ at' \in Queued, ToSet(starts') \subseteq ToSet(starts), ExitFirst',
         pc' \notin {"filter", "extend"}
  PROVE  JInv'
<1>1. /\ Queued' \cup results' \subseteq LiveIn(mem') /\ (at' # NoAddress => at' \in LiveIn(mem'))
      /\ Queued \cup results \subseteq LiveIn(mem) /\ (at # NoAddress => at \in LiveIn(mem))
  <2>1. Alive(mem', Queued', results', kept', at')
    BY DEF IInv
  <2> QED BY <2>1, AliveUse, InUse
<1>2. ASSUME NEW a \in LiveIn(mem) \cap LiveIn(mem'), Sound(a) PROVE Sound(a)'
  <2>1. PICK l : l = LabelAt(a)
    OBVIOUS
  <2>2. PICK k : k = LabelAt(a)'
    OBVIOUS
  <2>3. Like(l, k) /\ SoundIn(ToSet(todo), l)
    BY <1>2, <2>1, <2>2 DEF Lasting, Sound
  <2>4. Times(l)
    BY <2>1, TimesOf DEF CInv
  <2>5. Times(k)
    BY <2>3, <2>4 DEF Like, Times
  <2>6. SoundIn(ToSet(todo), k)
    <3>1. PICK E : E = ToSet(todo)
      OBVIOUS
    <3> QED BY <2>3, <3>1, SoundLike
  <2>7. SoundIn(ToSet(todo), k)'
    BY <2>5, <2>6
  <2> QED BY <2>2, <2>7 DEF Sound
<1>3. ASSUME NEW a \in Queued' PROVE Sound(a)'
  <2>1. CASE a \in Queued
    BY <1>1, <1>2, <1>3, <2>1 DEF JInv
  <2> QED BY <1>3, <2>1
<1>4. ASSUME NEW a, a = at', a # NoAddress PROVE Sound(a)'
  <2>1. a = at \/ a \in Queued
    BY <1>4
  <2>2. a \in LiveIn(mem) /\ Sound(a)
    BY <1>1, <1>4, <2>1 DEF JInv
  <2> QED BY <1>1, <1>2, <1>4, <2>2
<1>5. ASSUME NEW r \in results' PROVE Ended(r)'
  <2>1. CASE r \in results
    <3>1. Like(LabelAt(r), LabelAt(r)')
      BY <1>1, <1>5, <2>1 DEF Lasting
    <3>2. UNCHANGED <<net, query, interval>> /\ Ended(r)
      BY <2>1 DEF problem, JInv
    <3> QED BY <3>1, <3>2, EndedStays
  <2> QED BY <1>5, <2>1
<1>6. ToSet(starts') \subseteq MayStartIn(interval.begin, interval.end)'
  <2>1. PICK b, e : b = interval.begin /\ e = interval.end
    OBVIOUS
  <2>2. MayStartIn(b, e)' = MayStartIn(b, e)
    BY StartsStay
  <2>3. ToSet(starts') \subseteq MayStartIn(b, e) /\ b = interval'.begin /\ e = interval'.end
    BY <2>1 DEF JInv
  <2> QED BY <2>2, <2>3 DEF MayStartIn, DepartureAt
<1> QED BY <1>3, <1>4, <1>5, <1>6 DEF JInv

LEMMA ExitEdgeFirst ==
  ASSUME NEW n, IsNetwork(n), NEW r \in DOMAIN n.routes, NEW i \in DOMAIN n.routes[r].stops,
         NEW s, s = Edges(n)[RouteNode(n, r, i)]
  PROVE  \A e \in ToSet(Tail(s)) : e.to.kind # "station"
<1> DEFINE v == RouteNode(n, r, i)
           here == n.routes[r].stops[i]
           x == ExitEdge(n, r, i)
           b == IF i < Len(n.routes[r].stops) THEN <<RideEdge(n, r, i)>> ELSE <<>>
           c == IF n.routes[r].leave[i] /\ FootNode(here) \in FootNodes(n)
                THEN <<WalkOffEdge(n, r, i)>> ELSE <<>>
           F == {RideEdge(n, r, i), WalkOffEdge(n, r, i)}
<1>1. s = (<<x>> \o b) \o c
  <2>1. v \in Nodes(n) /\ v.kind = "route" /\ v.route = r /\ v.stop = i
    BY NodesAre DEF RouteNode
  <2>2. s = EdgesOfStop(n, r, i)
    BY <2>1 DEF Edges
  <2> QED BY <2>2, Zenon DEF EdgesOfStop, ExitEdge, RideEdge, WalkOffEdge, RouteNode
<1>2. b \in Seq(F) /\ c \in Seq(F)
  <2> DEFINE p == RideEdge(n, r, i)
             q == WalkOffEdge(n, r, i)
  <2>1. b = <<p>> \/ b = <<>>
    OBVIOUS
  <2>2. c = <<q>> \/ c = <<>>
    OBVIOUS
  <2>3. F = {p, q}
    OBVIOUS
  <2> HIDE DEF b, c, p, q, F
  <2>4. <<p>> \in Seq(F) /\ <<q>> \in Seq(F) /\ <<>> \in Seq(F)
    BY <2>3
  <2> QED BY <2>1, <2>2, <2>4
<1>3. \A e \in F : e.to.kind # "station"
  BY DEF RideEdge, WalkOffEdge, Edge, RouteNode, FootNode
<1> HIDE DEF x, b, c, F
<1>4. Tail(s) = b \o c
  BY <1>1, <1>2
<1>5. ToSet(b \o c) \subseteq F
  <2>1. b \o c \in Seq(F)
    BY <1>2
  <2> QED BY <2>1, ToSetSeq
<1> QED BY <1>3, <1>4, <1>5

LEMMA ExitStaysFirst ==
  ASSUME IInv, IInv', CInv, JInv, UNCHANGED problem, Lasting,
         \/ UNCHANGED <<at, todo>>
         \/ at' = at /\ Relaxing
         \/ \E a \in Queued : at' = a /\ todo' = edges[LabelAt(a).node]
  PROVE  ExitFirst'
<1>1. SUFFICES ASSUME NEW a, a = at', a # NoAddress, LabelAt(a)'.node.kind = "route"
               PROVE  \/ todo' = edges'[LabelAt(a)'.node]
                      \/ \A e \in ToSet(todo') : e.to.kind # "station"
  BY DEF ExitFirst
<1>2. edges' = edges /\ Prepared /\ Places /\ ExitFirst
  BY DEF problem, CInv, JInv
<1>3. a = at \/ a \in Queued
  BY <1>1 DEF Relaxing
<1>4. a \in LiveIn(mem) /\ a \in LiveIn(mem')
  <2>1. Alive(mem', Queued', results', kept', at')
    BY DEF IInv
  <2> QED BY <1>1, <1>3, <2>1, AliveUse, InUse
<1>5. PICK v : v = LabelAt(a).node
  OBVIOUS
<1>6. LabelAt(a)'.node = v /\ v.kind = "route" /\ GoodLabel(LabelAt(a))
  BY <1>1, <1>2, <1>4, <1>5 DEF Lasting, Like, Places
<1>7. CASE UNCHANGED <<at, todo>>
  BY <1>1, <1>2, <1>5, <1>6, <1>7 DEF ExitFirst
<1>8. CASE at' = at /\ Relaxing
  <2>1. ToSet(todo') \subseteq ToSet(todo) /\ todo' = Tail(todo)
    BY <1>8, AtWork DEF Relaxing
  <2>2. CASE todo = edges[v]
    <3>1. PICK r \in DOMAIN net.routes : \E i \in DOMAIN net.routes[r].stops : v = RouteNode(net, r, i)
      BY <1>2, <1>5, <1>6, AtStop
    <3>2. PICK i \in DOMAIN net.routes[r].stops : v = RouteNode(net, r, i)
      BY <3>1
    <3>3. todo = Edges(net)[RouteNode(net, r, i)] /\ IsNetwork(net)
      BY <1>2, <2>2, <3>2 DEF Prepared
    <3>4. PICK s : s = todo
      OBVIOUS
    <3>5. \A e \in ToSet(Tail(s)) : e.to.kind # "station"
      BY <3>3, <3>4, ExitEdgeFirst
    <3> QED BY <2>1, <3>4, <3>5
  <2>3. CASE \A e \in ToSet(todo) : e.to.kind # "station"
    BY <2>1, <2>3
  <2> QED BY <1>1, <1>2, <1>5, <1>6, <1>8, <2>2, <2>3 DEF ExitFirst
<1>9. CASE \E b \in Queued : at' = b /\ todo' = edges[LabelAt(b).node]
  BY <1>1, <1>2, <1>5, <1>6, <1>9
<1> QED BY <1>7, <1>8, <1>9

LEMMA MadeIs ==
  ASSUME IInv, CInv, Relaxing, Creates(at, Head(todo)),
         NEW l, l = LabelAt(at), NEW e, e = Head(todo), NEW m, m = NewLabel
  PROVE  Made(l, e, m)
<1> DEFINE cost == EdgeCost(e, l.now, l.train)
           free == e.from.station = query.to /\ e.to = StationNode(query.to)
<1>1. /\ at # NoAddress /\ at \in LiveIn(mem) /\ l.node # Goal /\ e \in ToSet(edges[l.node])
      /\ m.pred = at /\ GoodLabel(m) /\ m.node = e.to
  BY AtWork
<1>2. GoodLabel(l) /\ OriginOf(l)
  BY <1>1 DEF CInv, Places, Origins, OriginOf
<1>3. ASSUME l.pred # NoAddress PROVE LabelAt(l.pred).node \in Nodes(net) /\ e.to # LabelAt(l.pred).node
  <2>1. l.pred \in LiveIn(mem)
    BY <1>1, <1>3, InUse
  <2>2. LabelAt(l.pred).node \in Nodes(net)
    BY <2>1, TimesOf DEF CInv
  <2> QED BY <1>3, <2>2 DEF Creates, LabelAt
<1>4. cost.valid /\ ~Filtered(m)
  BY DEF Creates, CostAlong, LabelAt, NewLabel
<1>5. /\ m.train = cost.train /\ m.start = l.start
      /\ m.now = l.now + (IF free THEN 0 ELSE cost.time)
      /\ m.transfers = l.transfers + (IF cost.transfer THEN 1 ELSE 0)
  BY DEF NewLabel, Along, CostAlong, Label, LabelAt
<1> QED BY <1>1, <1>2, <1>3, <1>4, <1>5 DEF Made

LEMMA NewSound ==
  ASSUME IInv, CInv, JInv, Sensible, Relaxing, Creates(at, Head(todo)), NEW m, m = NewLabel,
         NEW E, E = ToSet(todo')
  PROVE  /\ m.node = Goal => IsHere(m) /\ m.transfers <= MaxTransfers
         /\ /\ m.node # Goal /\ ~DominatedByResults(m)
            /\ \A b \in kept : LabelAt(b).node = m.node => ~Dominates(LabelAt(b), m)
            => SoundIn(E, m)
<1>1. PICK l : l = LabelAt(at)
  OBVIOUS
<1>2. PICK e : e = Head(todo)
  OBVIOUS
<1>3. Made(l, e, m)
  BY <1>1, <1>2, MadeIs
<1>4. Prepared /\ World(net, query, interval) /\ StandAlone(net) /\ Places
  BY WorldIs DEF CInv, Sensible
<1>5. PICK E0 : E0 = ToSet(todo)
  OBVIOUS
<1>6. at # NoAddress /\ at \in LiveIn(mem) /\ E0 = {e} \cup E
  BY <1>2, <1>5, AtWork
<1>7. SoundIn(E0, l)
  <2>1. PICK a : a = at
    OBVIOUS
  <2>2. Sound(a)
    BY <1>6, <2>1 DEF JInv
  <2> QED BY <1>1, <1>5, <2>1, <2>2 DEF Sound
<1>8. Fits(net, query, interval, l) /\ GoodLabel(l) /\ e \in ToSet(edges[l.node])
  BY <1>3, <1>7 DEF SoundIn, Made
<1>9. m.node = Goal => m.transfers <= MaxTransfers
  BY <1>3, <1>4, MadeInTime
<1>10. Goal.kind = "station"
  BY DEF Goal, StationNode
<1>11. CASE l.node.kind = "station"
  <2>1. ASSUME ~DominatedByResults(m), \A b \in kept : LabelAt(b).node = m.node => ~Dominates(LabelAt(b), m)
        PROVE  SoundIn(E, m)
    BY <1>3, <1>4, <1>7, <1>11, <2>1, FromStationFits DEF SoundIn
  <2>2. m.node # Goal
    <3>1. \E a \in 1..net.stations : l.node = StationNode(a)
      <4>1. \A s, r, i : FootNode(s).kind = "foot" /\ RouteNode(net, r, i).kind = "route"
        BY DEF FootNode, RouteNode
      <4> QED BY <1>4, <1>8, <1>11, <4>1, NodesAre DEF Prepared, GoodLabel
    <3>2. PICK a \in 1..net.stations : l.node = StationNode(a)
      BY <3>1
    <3>3. e \in StationEdges(net, a)
      BY <1>4, <1>8, <3>2, EdgesAt DEF Prepared
    <3>4. e.to.kind # "station"
      BY <3>3 DEF StationEdges, BoardEdge, ToFootEdge, Edge, RouteNode, FootNode
    <3> QED BY <1>3, <1>10, <3>4 DEF Made
  <2> QED BY <2>1, <2>2
<1>12. CASE l.node.kind = "foot"
  <2>1. Fits(net, query, interval, m) /\ IsHere(m)
    BY <1>3, <1>4, <1>7, <1>12, FromFootFits
  <2> QED BY <1>9, <2>1 DEF SoundIn
<1>13. CASE l.node.kind = "route"
  <2>1. PICK r \in DOMAIN net.routes : \E j \in DOMAIN net.routes[r].stops : l.node = RouteNode(net, r, j)
    BY <1>4, <1>8, <1>13, AtStop
  <2>2. PICK j \in DOMAIN net.routes[r].stops : l.node = RouteNode(net, r, j)
    BY <2>1
  <2>3. e \in StopEdges(net, r, j)
    BY <1>4, <1>8, <2>2, EdgesAt DEF Prepared
  <2>4. CASE j \in Sections(net, r) /\ e = RideEdge(net, r, j)
    <3>1. Fits(net, query, interval, m) /\ m.node.kind # "station"
      BY <1>3, <1>4, <1>8, <2>2, <2>4, FromTrainFits
    <3> QED BY <1>10, <3>1 DEF SoundIn
  <2>5. CASE net.routes[r].leave[j] /\ e = WalkOffEdge(net, r, j)
    <3>1. Fits(net, query, interval, m) /\ m.node.kind # "station"
      BY <1>3, <1>4, <1>8, <2>2, <2>5, WalkOffFits
    <3> QED BY <1>10, <3>1 DEF SoundIn
  <2>6. CASE e = ExitEdge(net, r, j)
    <3>1. PICK a : a = net.routes[r].stops[j]
      OBVIOUS
    <3>2. /\ net.routes[r].leave[j] /\ m.node = StationNode(a) /\ m.start = l.start
          /\ m.transfers = l.transfers + 1 /\ net.transfer[a] \in Nat
          /\ \/ IsHere(m) /\ (m.node # Goal => Fits(net, query, interval, m))
             \/ /\ l.train # None /\ m.node # Goal
                /\ Fits(net, query, interval, m) /\ m.now = l.now + net.transfer[a]
      BY <1>3, <1>4, <1>8, <2>2, <2>6, <3>1, ExitFits
    <3>3. CASE IsHere(m) /\ (m.node # Goal => Fits(net, query, interval, m))
      BY <1>9, <3>3 DEF SoundIn
    <3>4. CASE /\ l.train # None /\ m.node # Goal
               /\ Fits(net, query, interval, m) /\ m.now = l.now + net.transfer[a]
      <4>1. e.to.kind = "station"
        BY <2>6 DEF ExitEdge, Edge, StationNode
      <4>2. \A f \in ToSet(edges[l.node]) : f.to.kind # "station" => f \in E
        <5>1. E0 = ToSet(edges[l.node])
          <6>1. todo = edges[l.node]
            BY <1>1, <1>5, <1>6, <1>13, <4>1 DEF JInv, ExitFirst
          <6> QED BY <1>5, <6>1
        <5> QED BY <1>6, <4>1, <5>1
      <4>3. Provided(E, m)
        BY <1>3, <1>4, <2>2, <3>1, <3>2, <3>4, <4>2, ExitProvided
      <4> QED BY <3>4, <4>3 DEF SoundIn
    <3> QED BY <3>2, <3>3, <3>4
  <2> QED BY <2>3, <2>4, <2>5, <2>6 DEF StopEdges
<1>14. l.node.kind \in {"station", "foot", "route"}
  <2>1. \A s, r, i : /\ StationNode(s).kind = "station" /\ FootNode(s).kind = "foot"
                     /\ RouteNode(net, r, i).kind = "route"
    BY DEF StationNode, FootNode, RouteNode
  <2> QED BY <1>4, <1>8, <2>1, NodesAre DEF Prepared, GoodLabel
<1> QED BY <1>11, <1>12, <1>13, <1>14

LEMMA RelaxSound ==
  ASSUME IInv, IInv', CInv, CInv', JInv, Sensible, Relaxing, Lasting, ResultsImprove, Grows
  PROVE  JInv'
<1>1. UNCHANGED <<problem, interval, starts, at>> /\ pc' = "search"
  BY DEF Relaxing
<1>2. at # NoAddress /\ ToSet(todo) = {Head(todo)} \cup ToSet(todo')
  BY AtWork
<1>3. ASSUME NEW l, Times(l), SoundIn(ToSet(todo), l) PROVE SoundIn(ToSet(todo), l)'
  <2>1. PICK E : E = ToSet(todo)
    OBVIOUS
  <2>2. ASSUME NEW f, f = FootNode(l.node.station), f \in FootNodes(net), Pending(E, l)
        PROVE  \/ KeptAt(f, l.start, l.now, l.transfers)'
               \/ ResultAt(f, l.start, l.now, l.transfers)'
               \/ Pending(ToSet(todo), l)'
    BY <1>3, <2>1, <2>2, PendingStays
  <2> QED BY <1>1, <1>3, <2>1, <2>2, SoundStays
<1>4. PICK m : m = NewLabel
  OBVIOUS
<1>5. PICK E : E = ToSet(todo')
  OBVIOUS
<1>6. ASSUME NEW a \in Queued' \ Queued PROVE Sound(a)'
  <2>1. /\ Creates(at, Head(todo)) /\ ~AtGoal /\ Like(m, LabelAt(a)') /\ ~DominatedByResults(m)
        /\ \A b \in kept : LabelAt(b).node = m.node => ~Dominates(LabelAt(b), m)
    BY <1>4, <1>6 DEF Grows
  <2>2. GoodLabel(m) /\ m.node # Goal
    BY <1>4, <2>1, AtWork DEF AtGoal, Goal
  <2>3. SoundIn(E, m)
    BY <1>4, <1>5, <2>1, <2>2, NewSound
  <2>4. PICK k : k = LabelAt(a)'
    OBVIOUS
  <2>5. SoundIn(E, k) /\ Times(k)
    <3>1. SoundIn(E, k)
      BY <2>1, <2>3, <2>4, SoundLike
    <3> QED BY <2>1, <2>2, <2>4, <3>1 DEF Like, GoodLabel, Times
  <2>6. ASSUME NEW f, f = FootNode(k.node.station), Pending(E, k) PROVE Pending(ToSet(todo), k)'
    <3>1. PICK e \in E : /\ LabelAt(at).node.kind = "route" /\ Creates(at, e)
                         /\ e.to = FootNode(k.node.station) /\ AtLeastAsGood(Along(at, e), k)
      BY <2>6 DEF Pending
    <3>2. Creates(at, e)' /\ Along(at, e)' = Along(at, e) /\ LabelAt(at)'.node = LabelAt(at).node
      BY <1>1, <1>2, <3>1, CreatesStill
    <3>3. AtLeastAsGood(Along(at, e), k)'
      BY <3>1, <3>2 DEF AtLeastAsGood
    <3> QED BY <1>5, <3>1, <3>2, <3>3 DEF Pending
  <2>7. SoundIn(ToSet(todo), k)'
    BY <1>1, <2>5, <2>6, SoundStays
  <2> QED BY <2>4, <2>7 DEF Sound
<1>7. ASSUME NEW r \in results' \ results PROVE Ended(r)'
  <2>1. Creates(at, Head(todo)) /\ AtGoal /\ Like(m, LabelAt(r)')
    BY <1>4, <1>7 DEF Grows
  <2>2. m.node = Goal
    BY <1>4, <2>1, AtWork DEF AtGoal, Goal
  <2>3. IsHere(m) /\ m.transfers <= MaxTransfers
    BY <1>4, <1>5, <2>1, <2>2, NewSound
  <2>4. PICK k : k = LabelAt(r)'
    OBVIOUS
  <2>5. IsHere(k) /\ k.transfers <= MaxTransfers
    BY <2>1, <2>3, <2>4, SoundLike DEF Like
  <2>6. net' = net /\ query' = query /\ interval' = interval
    BY <1>1 DEF problem
  <2>7. IsHere(k)'
    BY <2>5, <2>6 DEF IsHere
  <2> QED BY <2>4, <2>5, <2>7 DEF Ended
<1>8. ExitFirst'
  BY <1>1, ExitStaysFirst
<1> QED BY <1>1, <1>3, <1>6, <1>7, <1>8, StepSound

LEMMA PopSound ==
  ASSUME IInv, IInv', CInv, JInv, Pop, Lasting, ResultsImprove, Popped
  PROVE  JInv'
<1>1. UNCHANGED <<problem, interval, starts, results>> /\ pc' = "search" /\ todo = <<>>
  BY DEF Pop
<1>2. PICK a \in Queued :
        /\ Queued' = Queued \ {a}
        /\ UNCHANGED <<at, todo>> \/ (at' = a /\ todo' = edges[LabelAt(a).node])
  BY DEF Popped
<1>3. ASSUME NEW l, Times(l), SoundIn(ToSet(todo), l) PROVE SoundIn(ToSet(todo), l)'
  <2>1. PICK E : E = ToSet(todo)
    OBVIOUS
  <2>2. ~Pending(E, l)
    BY <1>1, <2>1, ToSetEmpty DEF Pending
  <2> QED BY <1>1, <1>3, <2>1, <2>2, SoundStays
<1>4. ExitFirst'
  BY <1>1, <1>2, ExitStaysFirst
<1>5. at' = at \/ at' \in Queued
  BY <1>2
<1> QED BY <1>1, <1>2, <1>3, <1>4, <1>5, StepSound

LEMMA StartFits ==
  ASSUME Prepared, World(net, query, interval), NEW s \in MayStartIn(interval.begin, interval.end),
         NEW l, l.node = s.node, l.start = s.time, l.now = s.time, l.transfers = 0, l.train = None,
         query.kind = "pretrip" /\ l.node.kind = "route" => l.pred # NoAddress, NEW E
  PROVE  SoundIn(E, l)
<1>1. CASE query.kind = "pretrip"
  <2>1. s.node.kind = "route"
    <3>1. s.node \in StartStops
      BY <1>1 DEF MayStartIn
    <3> QED BY <3>1 DEF StartStops
  <2>2. l.pred # NoAddress
    BY <1>1, <2>1
  <2>3. Fits(net, query, interval, l) /\ l.node.kind # "station"
    BY <1>1, <2>2, PretripStartFits
  <2> QED BY <2>3 DEF SoundIn
<1>2. CASE query.kind # "pretrip"
  <2>1. l.node = OntripNode /\ l.start = interval.begin /\ l.now = interval.begin
    BY <1>2 DEF MayStartIn
  <2>2. query.kind = "station" \/ query.kind = "train"
    BY <1>2 DEF Prepared, IsQuery
  <2>3. CASE query.kind = "station"
    <3>1. Fits(net, query, interval, l) /\ IsHere(l)
      BY <2>1, <2>3, StationStartFits
    <3> QED BY <3>1 DEF SoundIn
  <2>4. CASE query.kind = "train"
    <3>1. Fits(net, query, interval, l) /\ l.node.kind # "station"
      BY <2>1, <2>4, TrainStartFits
    <3> QED BY <3>1 DEF SoundIn
  <2> QED BY <2>2, <2>3, <2>4
<1> QED BY <1>1, <1>2

LEMMA StartSound ==
  ASSUME IInv, IInv', CInv, CInv', JInv, Sensible, AddStart, Lasting, ResultsImprove, Started
  PROVE  JInv'
<1>1. /\ UNCHANGED <<problem, interval, results, at, todo>> /\ pc' = "start"
      /\ starts # <<>> /\ starts' = Tail(starts)
  BY DEF AddStart
<1>2. Prepared /\ Clocks /\ Places /\ World(net, query, interval)
  BY WorldIs DEF CInv
<1>3. Head(starts) \in ToSet(starts) /\ ToSet(starts') \subseteq ToSet(starts)
  BY <1>1, <1>2, HeadAndTail DEF Clocks
<1>4. ASSUME NEW E, E = ToSet(todo), NEW l, Times(l), SoundIn(E, l) PROVE SoundIn(ToSet(todo), l)'
  <2>1. ASSUME NEW f, Pending(E, l) PROVE Pending(ToSet(todo), l)'
    <3>1. PICK e \in E : /\ LabelAt(at).node.kind = "route" /\ Creates(at, e)
                         /\ e.to = FootNode(l.node.station) /\ AtLeastAsGood(Along(at, e), l)
      BY <2>1 DEF Pending
    <3>2. at # NoAddress
      BY <1>4, <3>1, ToSetEmpty DEF IInv
    <3>3. Creates(at, e)' /\ Along(at, e)' = Along(at, e) /\ LabelAt(at)'.node = LabelAt(at).node
      BY <1>1, <3>1, <3>2, CreatesStill
    <3>4. AtLeastAsGood(Along(at, e), l)'
      BY <3>1, <3>3 DEF AtLeastAsGood
    <3> QED BY <1>1, <1>4, <3>1, <3>3, <3>4 DEF Pending
  <2> QED BY <1>1, <1>4, <2>1, SoundStays
<1>5. ASSUME NEW l, Times(l), SoundIn(ToSet(todo), l) PROVE SoundIn(ToSet(todo), l)'
  <2>1. PICK E : E = ToSet(todo)
    OBVIOUS
  <2> QED BY <1>4, <1>5, <2>1
<1>6. ASSUME NEW a \in Queued' \ Queued PROVE Sound(a)'
  <2>1. PICK s : s = Head(starts)
    OBVIOUS
  <2>2. PICK l : l = LabelAt(a)'
    OBVIOUS
  <2>3. l.node = s.node /\ l.start = s.time /\ l.now = s.time /\ l.transfers = 0 /\ l.train = None
    BY <1>6, <2>1, <2>2 DEF Started
  <2>4. s \in MayStartIn(interval.begin, interval.end)
    BY <1>3, <2>1 DEF JInv
  <2>5. a \in LiveIn(mem')
    <3>1. Alive(mem', Queued', results', kept', at')
      BY DEF IInv
    <3> QED BY <1>6, <3>1, AliveUse
  <2>6. GoodLabel(LabelAt(a))'
    BY <2>5 DEF CInv, Places
  <2>7. Times(l)
    BY <2>2, <2>6 DEF GoodLabel, Times
  <2>8. query.kind = "pretrip" /\ l.node.kind = "route" => l.pred # NoAddress
    <3>1. l.pred = NoAddress => l.node = StationNode(query'.from) \/ query'.kind = "train"
      BY <2>2, <2>5 DEF CInv, Origins
    <3>2. query' = query
      BY <1>1 DEF problem
    <3> QED BY <3>1, <3>2 DEF StationNode
  <2>9. PICK E : E = ToSet(todo)
    OBVIOUS
  <2>10. SoundIn(E, l)
    BY <1>2, <2>3, <2>4, <2>8, StartFits
  <2>11. SoundIn(ToSet(todo), l)'
    BY <1>4, <2>7, <2>9, <2>10
  <2> QED BY <2>2, <2>11 DEF Sound
<1>7. ExitFirst'
  BY <1>1, ExitStaysFirst
<1> QED BY <1>1, <1>3, <1>5, <1>6, <1>7, StepSound

(* Steps that make no label.                                               *)
LEMMA SoundUnchanged ==
  ASSUME UNCHANGED <<problem, interval, mem, kept, results, at, todo>>, NEW a
  PROVE  Sound(a)' = Sound(a)
<1>1. /\ net' = net /\ query' = query /\ edges' = edges /\ lb' = lb /\ interval' = interval
      /\ mem' = mem /\ kept' = kept /\ results' = results /\ at' = at /\ todo' = todo
  BY DEF problem
<1>2. \A l, e : Creates(l, e)' = Creates(l, e) /\ Along(l, e)' = Along(l, e)
  <2> TAKE l, e
  <2>1. Along(l, e)' = Along(l, e) /\ CostAlong(mem.label[l], e)' = CostAlong(mem.label[l], e)
    BY <1>1 DEF Along, CostAlong, Label
  <2>2. Filtered(Along(l, e))' = Filtered(Along(l, e))
    BY <1>1, <2>1 DEF Filtered, TravelTimeLb, TravelTime, TransfersLb, LbNode
  <2> QED BY <1>1, <2>1, <2>2 DEF Creates
<1>3. PICK E : E = ToSet(todo)
  OBVIOUS
<1>4. PICK l : l = LabelAt(a)
  OBVIOUS
<1>5. l = LabelAt(a)' /\ E = ToSet(todo)' /\ LabelAt(at)' = LabelAt(at)
  BY <1>1, <1>3, <1>4 DEF LabelAt
<1>6. Pending(E, l)' = Pending(E, l)
  <2> DEFINE Q(e) == Creates(at, e) /\ e.to = FootNode(l.node.station) /\ AtLeastAsGood(Along(at, e), l)
  <2>1. \A e : Q(e)' = Q(e)
    BY <1>1, <1>2 DEF AtLeastAsGood
  <2> HIDE DEF Q
  <2>2. (\E e \in E : LabelAt(at).node.kind = "route" /\ Q(e))'
          = (\E e \in E : LabelAt(at).node.kind = "route" /\ Q(e))
    BY <1>5, <2>1
  <2> QED BY <2>2 DEF Pending, Q
<1>7. Found' = Found
  BY <1>1 DEF Found, AsJourney, LabelAt
<1>8. Provided(E, l)' = Provided(E, l)
  <2>1. \A v, s, t, x : KeptAt(v, s, t, x)' = KeptAt(v, s, t, x)
    BY <1>1 DEF KeptAt, LabelAt
  <2>2. \A v, s, t, x : ResultAt(v, s, t, x)' = ResultAt(v, s, t, x)
    BY <1>1, <1>7 DEF ResultAt, LbNode
  <2> QED BY <1>1, <1>6, <2>1, <2>2 DEF Provided
<1>9. Fits(net, query, interval, l)' = Fits(net, query, interval, l) /\ IsHere(l)' = IsHere(l)
  BY <1>1 DEF IsHere
<1>10. SoundIn(E, l)' = SoundIn(E, l)
  BY <1>8, <1>9 DEF SoundIn
<1> QED BY <1>3, <1>4, <1>5, <1>10 DEF Sound

LEMMA QuietSound ==
  ASSUME JInv, UNCHANGED <<problem, interval, starts, mem, queue, equals>>, results' \subseteq results,
         \/ /\ UNCHANGED <<at, todo, kept, results>>
            /\ pc' \in {"filter", "extend"} => pc \in {"filter", "extend"}
         \/ Queued = {} /\ at' = NoAddress
  PROVE  JInv'
<1>1. /\ net' = net /\ query' = query /\ edges' = edges /\ interval' = interval /\ mem' = mem
      /\ starts' = starts
  BY DEF problem
<1>2. Queued' = Queued
  BY DEF Queued
<1>3. ASSUME NEW r \in results' PROVE Ended(r)'
  <2>1. Like(LabelAt(r), LabelAt(r)') /\ Ended(r)
    BY <1>1 DEF LabelAt, Like, JInv
  <2> QED BY <1>1, <2>1, EndedStays
<1>4. ToSet(starts') \subseteq MayStartIn(interval.begin, interval.end)'
  <2>1. PICK b, e : b = interval.begin /\ e = interval.end
    OBVIOUS
  <2>2. MayStartIn(b, e)' = MayStartIn(b, e)
    BY StartsStay
  <2>3. ToSet(starts') \subseteq MayStartIn(b, e) /\ b = interval'.begin /\ e = interval'.end
    BY <1>1, <2>1 DEF JInv
  <2> QED BY <2>2, <2>3 DEF MayStartIn, DepartureAt
<1>6. CASE Queued = {} /\ at' = NoAddress
  <2>1. ExitFirst'
    BY <1>6 DEF ExitFirst
  <2> QED BY <1>2, <1>3, <1>4, <1>6, <2>1 DEF JInv
<1>7. CASE /\ UNCHANGED <<at, todo, kept, results>>
           /\ pc' \in {"filter", "extend"} => pc \in {"filter", "extend"}
  <2>1. \A a : Sound(a)' = Sound(a)
    BY <1>7, SoundUnchanged
  <2>2. \A a \in Queued' : Sound(a)'
    BY <1>2, <2>1 DEF JInv
  <2>3. \A a : a = at' /\ a # NoAddress => Sound(a)'
    BY <1>7, <2>1 DEF JInv
  <2>4. ExitFirst'
    BY <1>1, <1>7 DEF JInv, ExitFirst, LabelAt
  <2>5. pc' \in {"filter", "extend"} => Queued' = {} /\ at' = NoAddress
    BY <1>2, <1>7 DEF JInv
  <2> QED BY <1>3, <1>4, <2>2, <2>3, <2>4, <2>5 DEF JInv
<1> QED BY <1>6, <1>7

(* A wider interval has the starts of the narrower one.                    *)
LEMMA MayStartsWider ==
  ASSUME NEW b \in Nat, NEW e \in Nat, NEW c \in Nat, NEW f \in Nat,
         query.kind = "pretrip" \/ c = b, c <= b, e <= f
  PROVE  StartsIn(b, e) \subseteq MayStartIn(c, f)
<1>1. \A t \in b..e : t \in c..f
  OBVIOUS
<1>2. \A t \in b..e : t \in b..t
  OBVIOUS
<1> QED BY <1>1, <1>2 DEF StartsIn, MayStartIn, DeparturesIn, DepartureAt

(* An interval that is none would be given starts outside of it.           *)
LEMMA WidenedStarts ==
  ASSUME Prepared, Clocks, query.kind = "pretrip"
  PROVE  /\ Widened.begin <= interval.begin /\ interval.end <= Widened.end
         /\ ToSet(NewStarts) \subseteq MayStartIn(Widened.begin, Widened.end)
<1> DEFINE b == interval.begin
           e == interval.end
           B == Widened.begin
           E == Widened.end
           early == IF b # ScheduleBegin THEN Generate(B, MapToInterval(b - 1)) ELSE <<>>
           late == IF e # ScheduleEnd THEN Generate(MapToInterval(e + 1), E) ELSE <<>>
<1>1. /\ ScheduleBegin \in Nat /\ ScheduleEnd \in Nat /\ Extension \in Nat
      /\ b \in ScheduleBegin..ScheduleEnd /\ e \in ScheduleBegin..ScheduleEnd
      /\ b \in Nat /\ e \in Nat /\ b <= e
  BY RoutingAssumption DEF Clocks
<1>2. B \in ScheduleBegin..ScheduleEnd /\ E \in ScheduleBegin..ScheduleEnd /\ B <= b /\ e <= E
  BY WidenedIs DEF Clocks
<1>5. NewStarts = early \o late
  BY DEF NewStarts
<1> HIDE DEF B, E
<1>6. B \in Nat /\ E \in Nat
  BY <1>1, <1>2
<1>7. early \in Seq(StartPlaces) /\ ToSet(early) \subseteq MayStartIn(B, E)
  <2>1. CASE b # ScheduleBegin
    <3>1. b - 1 \in ScheduleBegin..ScheduleEnd /\ b - 1 \in Int /\ b - 1 \in Nat /\ b - 1 <= E
      BY <1>1, <1>2, <1>6, <2>1
    <3>2. MapToInterval(b - 1) = b - 1
      BY <3>1, MapIs
    <3>3. early = Generate(B, b - 1)
      BY <2>1, <3>2
    <3>4. early \in Seq(StartPlaces) /\ ToSet(early) = StartsIn(B, b - 1)
      BY <1>6, <3>1, <3>3, GenerateIs
    <3>5. B <= B
      BY <1>6
    <3>6. StartsIn(B, b - 1) \subseteq MayStartIn(B, E)
      BY <1>6, <3>1, <3>5, MayStartsWider
    <3> QED BY <3>4, <3>6
  <2>2. CASE b = ScheduleBegin
    <3>1. early = <<>> /\ <<>> \in Seq(StartPlaces)
      BY <2>2
    <3> QED BY <3>1, ToSetEmpty
  <2> QED BY <2>1, <2>2
<1>8. late \in Seq(StartPlaces) /\ ToSet(late) \subseteq MayStartIn(B, E)
  <2>1. CASE e # ScheduleEnd
    <3>1. e + 1 \in ScheduleBegin..ScheduleEnd /\ e + 1 \in Int /\ e + 1 \in Nat /\ B <= e + 1
      BY <1>1, <1>2, <1>6, <2>1
    <3>2. MapToInterval(e + 1) = e + 1
      BY <3>1, MapIs
    <3>3. late = Generate(e + 1, E)
      BY <2>1, <3>2
    <3>4. late \in Seq(StartPlaces) /\ ToSet(late) = StartsIn(e + 1, E)
      BY <1>6, <3>1, <3>3, GenerateIs
    <3>5. E <= E
      BY <1>6
    <3>6. StartsIn(e + 1, E) \subseteq MayStartIn(B, E)
      BY <1>6, <3>1, <3>5, MayStartsWider
    <3> QED BY <3>4, <3>6
  <2>2. CASE e = ScheduleEnd
    <3>1. late = <<>> /\ <<>> \in Seq(StartPlaces)
      BY <2>2
    <3> QED BY <3>1, ToSetEmpty
  <2> QED BY <2>1, <2>2
<1> HIDE DEF early, late
<1>9. ToSet(NewStarts) = ToSet(early) \cup ToSet(late)
  BY <1>5, <1>7, <1>8, ToSetConcat
<1> QED BY <1>2, <1>2, <1>7, <1>8, <1>9 DEF B, E

LEMMA ExtendSound ==
  ASSUME IInv, CInv, CInv', JInv, Sensible, Extend
  PROVE  JInv'
<1>1. /\ UNCHANGED <<problem, mem, queue, equals, at, results>>
      /\ interval' = Widened /\ starts' = NewStarts /\ pc' \in {"done", "start"} /\ ~Enough
      /\ pc = "extend"
  BY DEF Extend, work
<1>2. /\ net' = net /\ query' = query /\ edges' = edges /\ mem' = mem /\ results' = results
      /\ Prepared /\ Clocks /\ Prepared' /\ Clocks'
  BY <1>1 DEF problem, CInv
<1>3. Queued' = {} /\ at' = NoAddress
  <2>1. Queued' = Queued
    BY <1>1 DEF Queued
  <2> QED BY <1>1, <2>1 DEF JInv
<1>4. query.kind = "pretrip"
  BY <1>1, <1>2, OnlyPretripWidens
<1>5. PICK iv : iv = interval
  OBVIOUS
<1>6. PICK jv : jv = interval'
  OBVIOUS
<1>7. World(net, query, iv) /\ World(net, query, jv)
  <2>1. World(net, query, iv)
    BY <1>2, <1>5, WorldIs
  <2>2. jv.begin \in Nat /\ jv.end \in Nat
    BY <1>2, <1>6, RoutingAssumption DEF Clocks
  <2> QED BY <2>1, <2>2 DEF World
<1>8. PICK b, e : b = jv.begin /\ e = jv.end
  OBVIOUS
<1>9. b <= iv.begin /\ iv.end <= e /\ ToSet(starts') \subseteq MayStartIn(b, e)
  <2>1. Widened.begin = b /\ Widened.end = e
    BY <1>1, <1>6, <1>8
  <2> QED BY <1>1, <1>2, <1>4, <1>5, <2>1, WidenedStarts
<1>10. ASSUME NEW r \in results' PROVE Ended(r)'
  <2>1. PICK l : l = LabelAt(r)
    OBVIOUS
  <2>2. l = LabelAt(r)' /\ Ended(r)
    BY <1>2, <1>10, <2>1 DEF LabelAt, JInv
  <2>3. There(net, query, iv, l.node.station, l.start, l.now, l.transfers) /\ l.transfers <= MaxTransfers
    BY <1>5, <2>1, <2>2 DEF Ended, IsHere
  <2>4. There(net, query, jv, l.node.station, l.start, l.now, l.transfers)
    BY <1>4, <1>7, <1>8, <1>9, <2>3, ThereWider
  <2>5. There(net', query', interval', l.node.station, l.start, l.now, l.transfers)
    BY <1>2, <1>6, <2>4
  <2> QED BY <2>2, <2>3, <2>5 DEF Ended, IsHere
<1>11. ToSet(starts') \subseteq MayStartIn(interval.begin, interval.end)'
  <2>1. MayStartIn(b, e)' = MayStartIn(b, e)
    BY <1>1, StartsStay
  <2>2. interval'.begin = b /\ interval'.end = e
    BY <1>6, <1>8
  <2> QED BY <1>9, <2>1, <2>2 DEF MayStartIn, DepartureAt
<1>13. ExitFirst'
  BY <1>3 DEF ExitFirst
<1> QED BY <1>3, <1>10, <1>11, <1>13 DEF JInv

LEMMA InitJInv == Init => JInv
<1> SUFFICES ASSUME Init PROVE JInv
  OBVIOUS
<1>1. /\ interval = Interval(query.begin, query.end) /\ starts = Generate(query.begin, query.end)
      /\ queue = <<>> /\ equals = <<>> /\ at = NoAddress /\ results = {} /\ pc = "start"
  BY DEF Init
<1>2. Prepared
  BY InitCInv DEF CInv
<1>3. query.begin \in Nat /\ query.end \in Nat
  BY <1>2 DEF Prepared, IsQuery
<1>4. interval.begin = query.begin /\ interval.end = query.end
  BY <1>1 DEF Interval
<1>5. ToSet(starts) \subseteq MayStartIn(interval.begin, interval.end)
  <2>1. query.begin <= query.begin /\ query.end <= query.end
    BY <1>3
  <2>2. ToSet(starts) = StartsIn(query.begin, query.end)
    BY <1>1, <1>2, <1>3, GenerateIs
  <2> QED BY <1>3, <1>4, <2>1, <2>2, MayStartsWider
<1>6. Queued = {}
  BY <1>1, ToSetEmpty DEF Queued
<1>7. ExitFirst
  BY <1>1 DEF ExitFirst
<1> QED BY <1>1, <1>4, <1>5, <1>6, <1>7 DEF JInv

LEMMA NextJInv == Sensible /\ IInv /\ IInv' /\ CInv /\ CInv' /\ JInv /\ [Next]_vars => JInv'
<1> SUFFICES ASSUME Sensible, IInv, IInv', CInv, CInv', JInv, [Next]_vars PROVE JInv'
  OBVIOUS
<1>1. CASE AddStart
  BY <1>1, AddStartKeeps, StartSound
<1>2. CASE Pop
  BY <1>2, PopKeeps, PopSound
<1>3. CASE NoLabel
  BY <1>3, NoLabelKeeps, RelaxSound DEF NoLabel
<1>4. CASE AddResult
  BY <1>4, AddResultKeeps, RelaxSound DEF AddResult
<1>5. CASE AddLabelToNode
  BY <1>5, AddLabelToNodeKeeps, RelaxSound DEF AddLabelToNode
<1>6. CASE Useless
  BY <1>6, UselessKeeps, RelaxSound DEF Useless
<1>7. CASE Extend
  BY <1>7, ExtendSound
<1>8. CASE Erase
  <2>1. /\ UNCHANGED <<problem, interval, starts, mem, queue, equals>> /\ results' \subseteq results
        /\ pc = "filter" /\ at' = at
    BY <1>8 DEF Erase, work
  <2>2. Queued = {} /\ at' = NoAddress
    BY <2>1 DEF JInv
  <2> QED BY <2>1, <2>2, QuietSound
<1>9. CASE SearchEnds
  <2>1. /\ UNCHANGED <<problem, interval, starts, mem, queue, equals>> /\ results' \subseteq results
        /\ queue = <<>> /\ equals = <<>> /\ at' = NoAddress
    BY <1>9 DEF SearchEnds, Exhausted
  <2>2. Queued = {}
    BY <2>1, ToSetEmpty DEF Queued
  <2> QED BY <2>1, <2>2, QuietSound
<1>10. CASE StartsAdded \/ FilterEnds \/ Finish \/ UNCHANGED vars
  <2>1. /\ UNCHANGED <<problem, interval, starts, mem, queue, equals, at, todo, kept, results>>
        /\ pc' \in {"filter", "extend"} => pc \in {"filter", "extend"}
    BY <1>10 DEF StartsAdded, FilterEnds, Finish, vars, work
  <2> QED BY <2>1, QuietSound
<1> QED BY <1>1, <1>2, <1>3, <1>4, <1>5, <1>6, <1>7, <1>8, <1>9, <1>10 DEF Next, Step, Done

(* Nobody is told of a train that does not run, of a change for which the  *)
(* time is too short, or of a walk from a train that has not arrived:      *)
(* although whoever leaves a train by the station node is there with the   *)
(* transfer time already paid, and only the label at the foot node, which  *)
(* must have been made before, keeps him from walking on with that time;   *)
(* although labels are pruned, and their memory is used again; and after   *)
(* every extension of the interval.                                        *)
THEOREM ResultsAreJourneysHolds ==
  ASSUME MaxTravelTime < Legs,
         \A s \in Scenarios : TimePasses(s.net) /\ StandAlone(s.net)
  PROVE  Spec => []ResultsAreJourneys
<1>1. Sensible /\ IInv /\ CInv /\ JInv => ResultsAreJourneys
  <2> SUFFICES ASSUME Sensible, IInv, CInv, JInv, NEW r \in results
               PROVE  AsJourney(LabelAt(r)) \in Journeys(net, query, interval)
    BY DEF ResultsAreJourneys, Found
  <2>1. PICK l : l = LabelAt(r)
    OBVIOUS
  <2>2. l.node = Goal /\ World(net, query, interval)
    BY <2>1, WorldIs DEF CInv, Places
  <2>3. l.node.station = query.to
    BY <2>2 DEF Goal, StationNode
  <2>4. IsHere(l) /\ l.transfers <= MaxTransfers
    BY <2>1 DEF JInv, Ended
  <2>5. PICK p : /\ Reached(net, query, interval, p) /\ p.at = query.to /\ p.start = l.start
                 /\ p.arr = l.now /\ p.rides = l.transfers
    BY <2>3, <2>4 DEF IsHere, There
  <2>6. [start |-> p.start, now |-> p.arr, transfers |-> p.rides] \in Journeys(net, query, interval)
    BY <2>2, <2>4, <2>5, ReachedJourney
  <2> QED BY <2>1, <2>5, <2>6 DEF AsJourney
<1>2. Init => Sensible /\ IInv /\ CInv /\ JInv
  <2>1. Init => Sensible
    BY DEF Init, Sensible
  <2> QED BY <2>1, InitIInv, InitCInv, InitJInv
<1>3. Sensible /\ IInv /\ CInv /\ JInv /\ [Next]_vars => (Sensible /\ IInv /\ CInv /\ JInv)'
  <2>1. Sensible /\ [Next]_vars => Sensible'
    BY TimetableStays DEF Sensible
  <2> QED BY <2>1, NextIInv, NextCInv, NextJInv
<1> QED BY <1>1, <1>2, <1>3, PTL DEF Spec
=============================================================================
