------------------------- MODULE LastCommandProofs -------------------------
(***************************************************************************)
(* What the last command of a sequence is when commands are added to it,   *)
(* taken from it, or when two sequences follow each other, for any set C   *)
(* of commands.                                                            *)
(***************************************************************************)
EXTENDS LastCommand, SequenceTheorems, WellFoundedInduction, TLAPS

LEMMA LastType ==
  ASSUME NEW id, NEW s, NEW d
  PROVE  LastFor(id, s, d) \in BOOLEAN
  BY DEF LastFor

LEMMA LastEmpty ==
  ASSUME NEW id, NEW d \in BOOLEAN
  PROVE  LastFor(id, <<>>, d) <=> d
  BY DEF LastFor

\* Commands for others change nothing.
LEMMA NoneOf ==
  ASSUME NEW C, \A c \in C : c.set \in BOOLEAN, NEW id,
         NEW s \in Seq(C), NEW d \in BOOLEAN,
         \A k \in 1 .. Len(s) : s[k].id # id
  PROVE  LastFor(id, s, d) <=> d
  BY DEF LastFor

LEMMA AppendOf ==
  ASSUME NEW C, \A c \in C : c.set \in BOOLEAN, NEW id,
         NEW s \in Seq(C), NEW c \in C, NEW d \in BOOLEAN
  PROVE  LastFor(id, Append(s, c), d)
           <=> IF c.id = id THEN c.set ELSE LastFor(id, s, d)
<1> DEFINE a == Append(s, c)
<1>1. /\ Len(a) = Len(s) + 1 /\ Len(s) \in Nat
      /\ a[Len(s) + 1] = c
      /\ \A k \in 1 .. Len(s) : a[k] = s[k]
  OBVIOUS
<1> HIDE DEF a
<1>2. c.set \in BOOLEAN
  OBVIOUS
<1>3. CASE c.id = id
  <2>1. \A k \in 1 .. Len(a) : a[k].id = id /\ a[k].set
          /\ (\A m \in 1 .. Len(a) : m > k => a[m].id # id) => c.set
    BY <1>1, <1>3
  <2>2. c.set => \E k \in 1 .. Len(a) : a[k].id = id /\ a[k].set
                   /\ (\A m \in 1 .. Len(a) : m > k => a[m].id # id)
    <3> SUFFICES ASSUME c.set
                 PROVE /\ Len(s) + 1 \in 1 .. Len(a)
                       /\ a[Len(s) + 1].id = id /\ a[Len(s) + 1].set
                       /\ \A m \in 1 .. Len(a) : m > Len(s) + 1 => a[m].id # id
      OBVIOUS
    <3> QED
      BY <1>1, <1>3
  <2>3. ~ \A k \in 1 .. Len(a) : a[k].id # id
    BY <1>1, <1>3
  <2> QED
    BY <1>3, <2>1, <2>2, <2>3 DEF LastFor, a
<1>4. CASE c.id # id
  <2>1. \A k \in 1 .. Len(a) : a[k].id # id <=> k = Len(s) + 1 \/ s[k].id # id
    BY <1>1, <1>4
  <2>2. (\A k \in 1 .. Len(a) : a[k].id # id)
          <=> (\A k \in 1 .. Len(s) : s[k].id # id)
    BY <1>1, <1>4
  <2>3. \A k \in 1 .. Len(s) :
          (\A m \in 1 .. Len(a) : m > k => a[m].id # id)
            <=> (\A m \in 1 .. Len(s) : m > k => s[m].id # id)
    BY <1>1, <1>4
  <2>4. (\E k \in 1 .. Len(a) : a[k].id = id /\ a[k].set
           /\ (\A m \in 1 .. Len(a) : m > k => a[m].id # id))
        <=> (\E k \in 1 .. Len(s) : s[k].id = id /\ s[k].set
               /\ (\A m \in 1 .. Len(s) : m > k => s[m].id # id))
    BY <1>1, <1>4, <2>3
  <2> QED
    BY <1>4, <2>2, <2>4 DEF LastFor, a
<1> QED
  BY <1>3, <1>4

\* The first command of a sequence takes effect before the others.
LEMMA HeadOf ==
  ASSUME NEW C, \A c \in C : c.set \in BOOLEAN, NEW id,
         NEW s \in Seq(C), s # <<>>, NEW d \in BOOLEAN
  PROVE  LastFor(id, s, d)
           <=> LastFor(id, Tail(s), IF Head(s).id = id THEN Head(s).set ELSE d)
<1> DEFINE t == Tail(s)
           h == Head(s)
<1>1. /\ Len(s) \in Nat \ {0} /\ Len(t) = Len(s) - 1 /\ Len(t) \in Nat
      /\ h = s[1] /\ h \in C /\ t \in Seq(C)
      /\ \A k \in 1 .. Len(t) : t[k] = s[k + 1]
  OBVIOUS
<1> HIDE DEF t, h
<1>2. h.set \in BOOLEAN
  BY <1>1
<1> DEFINE none == \A k \in 1 .. Len(t) : t[k].id # id
           some == \E k \in 1 .. Len(t) : t[k].id = id /\ t[k].set
                     /\ (\A m \in 1 .. Len(t) : m > k => t[m].id # id)
<1>3. \A k \in 2 .. Len(s) : s[k] = t[k - 1] /\ k - 1 \in 1 .. Len(t)
  BY <1>1
<1>4. (\A m \in 1 .. Len(s) : m > 1 => s[m].id # id) <=> none
  <2>1. ASSUME \A m \in 1 .. Len(s) : m > 1 => s[m].id # id,
               NEW k \in 1 .. Len(t)
        PROVE  t[k].id # id
    <3>1. k + 1 \in 1 .. Len(s) /\ k + 1 > 1 /\ t[k] = s[k + 1]
      BY <1>1
    <3> QED
      BY <2>1, <3>1
  <2>2. ASSUME none, NEW m \in 1 .. Len(s), m > 1
        PROVE  s[m].id # id
    <3>1. m \in 2 .. Len(s)
      BY <1>1, <2>2
    <3>2. m - 1 \in 1 .. Len(t) /\ s[m] = t[m - 1]
      BY <1>3, <3>1
    <3> QED
      BY <2>2, <3>2
  <2> QED
    BY <2>1, <2>2
<1>5. (\A k \in 1 .. Len(s) : s[k].id # id) <=> (h.id # id /\ none)
  <2>1. ASSUME \A k \in 1 .. Len(s) : s[k].id # id
        PROVE  h.id # id /\ none
    BY <1>1, <2>1
  <2>2. ASSUME h.id # id, none, NEW k \in 1 .. Len(s)
        PROVE  s[k].id # id
    <3>1. CASE k = 1
      BY <1>1, <2>2, <3>1
    <3>2. CASE k > 1
      <4>1. k - 1 \in 1 .. Len(t) /\ s[k] = t[k - 1]
        BY <1>3, <3>2
      <4> QED
        BY <2>2, <4>1
    <3> QED
      BY <3>1, <3>2, <1>1
  <2> QED
    BY <2>1, <2>2
<1>6. \A k \in 1 .. Len(t) :
        (\A m \in 1 .. Len(s) : m > k + 1 => s[m].id # id)
          <=> (\A m \in 1 .. Len(t) : m > k => t[m].id # id)
  <2> SUFFICES ASSUME NEW k \in 1 .. Len(t)
               PROVE (\A m \in 1 .. Len(s) : m > k + 1 => s[m].id # id)
                       <=> (\A m \in 1 .. Len(t) : m > k => t[m].id # id)
    OBVIOUS
  <2>1. ASSUME \A m \in 1 .. Len(s) : m > k + 1 => s[m].id # id,
               NEW m \in 1 .. Len(t), m > k
        PROVE t[m].id # id
    BY <1>1, <2>1
  <2>2. ASSUME \A m \in 1 .. Len(t) : m > k => t[m].id # id,
               NEW m \in 1 .. Len(s), m > k + 1
        PROVE s[m].id # id
    <3>1. m - 1 \in 1 .. Len(t) /\ m - 1 > k /\ s[m] = t[m - 1]
      BY <1>1, <1>3, <2>2
    <3> QED
      BY <2>2, <3>1
  <2> QED
    BY <2>1, <2>2
<1>7. (\E k \in 1 .. Len(s) : s[k].id = id /\ s[k].set
         /\ (\A m \in 1 .. Len(s) : m > k => s[m].id # id))
      <=> (some \/ (h.id = id /\ h.set /\ none))
  <2>1. ASSUME NEW k \in 1 .. Len(s), s[k].id = id, s[k].set,
               \A m \in 1 .. Len(s) : m > k => s[m].id # id
        PROVE some \/ (h.id = id /\ h.set /\ none)
    <3>1. CASE k = 1
      BY <1>1, <1>4, <2>1, <3>1
    <3>2. CASE k > 1
      <4>1. k - 1 \in 1 .. Len(t) /\ t[k - 1] = s[k] /\ (k - 1) + 1 = k
        BY <1>1, <1>3, <3>2
      <4> QED
        BY <1>6, <2>1, <4>1
    <3> QED
      BY <3>1, <3>2, <1>1
  <2>2. ASSUME NEW k \in 1 .. Len(t), t[k].id = id, t[k].set,
               \A m \in 1 .. Len(t) : m > k => t[m].id # id
        PROVE \E q \in 1 .. Len(s) : s[q].id = id /\ s[q].set
                /\ (\A m \in 1 .. Len(s) : m > q => s[m].id # id)
    <3>1. k + 1 \in 1 .. Len(s) /\ t[k] = s[k + 1]
      BY <1>1
    <3> QED
      BY <1>6, <2>2, <3>1
  <2>3. ASSUME h.id = id, h.set, none
        PROVE \E q \in 1 .. Len(s) : s[q].id = id /\ s[q].set
                /\ (\A m \in 1 .. Len(s) : m > q => s[m].id # id)
    <3>1. 1 \in 1 .. Len(s) /\ s[1] = h
      BY <1>1
    <3> QED
      BY <1>4, <2>3, <3>1
  <2> QED
    BY <2>1, <2>2, <2>3
<1>8. LastFor(id, s, d)
        <=> (some \/ (h.id = id /\ h.set /\ none) \/ (d /\ h.id # id /\ none))
  BY <1>5, <1>7 DEF LastFor
<1>9. LastFor(id, t, IF h.id = id THEN h.set ELSE d)
        <=> (some \/ ((IF h.id = id THEN h.set ELSE d) /\ none))
  BY DEF LastFor
<1> QED
  BY <1>2, <1>8, <1>9 DEF t, h

\* The commands of a sequence take effect before those that follow it.
LEMMA ConcatOf ==
  ASSUME NEW C, \A c \in C : c.set \in BOOLEAN, NEW id,
         NEW s \in Seq(C), NEW t \in Seq(C), NEW d \in BOOLEAN
  PROVE  LastFor(id, s \o t, d) <=> LastFor(id, t, LastFor(id, s, d))
<1> DEFINE a == s \o t
           p == Len(s)
           q == Len(t)
           noneS == \A k \in 1 .. p : s[k].id # id
           noneT == \A k \in 1 .. q : t[k].id # id
           someS == \E k \in 1 .. p : s[k].id = id /\ s[k].set
                      /\ (\A m \in 1 .. p : m > k => s[m].id # id)
           someT == \E k \in 1 .. q : t[k].id = id /\ t[k].set
                      /\ (\A m \in 1 .. q : m > k => t[m].id # id)
           someA == \E k \in 1 .. p + q : a[k].id = id /\ a[k].set
                      /\ (\A m \in 1 .. p + q : m > k => a[m].id # id)
<1>1. /\ p \in Nat /\ q \in Nat /\ Len(a) = p + q
      /\ \A k \in 1 .. p : a[k] = s[k]
      /\ \A k \in 1 .. q : a[p + k] = t[k]
  OBVIOUS
<1>2. \A k \in p + 1 .. p + q : k - p \in 1 .. q /\ a[k] = t[k - p]
  <2> TAKE k \in p + 1 .. p + q
  <2>1. k - p \in 1 .. q /\ p + (k - p) = k
    BY <1>1
  <2> QED
    BY <1>1, <2>1
<1>3. \A k \in 1 .. q : p + k \in p + 1 .. p + q /\ p + k \in 1 .. p + q
  BY <1>1
<1>4. \A k \in 1 .. p + q : k \in 1 .. p \/ k \in p + 1 .. p + q
  BY <1>1
<1>5. \A k \in 1 .. p : k \in 1 .. p + q
  BY <1>1
<1> HIDE DEF a, p, q
<1>6. (\A k \in 1 .. p + q : a[k].id # id) <=> (noneS /\ noneT)
  <2>1. ASSUME \A k \in 1 .. p + q : a[k].id # id
        PROVE  noneS /\ noneT
    BY <1>1, <1>3, <1>5, <2>1
  <2>2. ASSUME noneS, noneT, NEW k \in 1 .. p + q
        PROVE  a[k].id # id
    BY <1>1, <1>2, <1>4, <2>2
  <2> QED
    BY <2>1, <2>2
<1>7. ASSUME NEW k \in 1 .. q, \A m \in 1 .. q : m > k => t[m].id # id,
             NEW m \in 1 .. p + q, m > p + k
      PROVE  a[m].id # id
  <2>1. m \in p + 1 .. p + q /\ m - p > k
    BY <1>1, <1>7
  <2> QED
    BY <1>2, <1>7, <2>1
<1>8. someA <=> (someT \/ (someS /\ noneT))
  <2>1. ASSUME someT
        PROVE  someA
    <3>1. PICK k \in 1 .. q : t[k].id = id /\ t[k].set
             /\ (\A m \in 1 .. q : m > k => t[m].id # id)
      BY <2>1
    <3>2. p + k \in 1 .. p + q /\ a[p + k] = t[k]
      BY <1>1, <1>3
    <3>3. \A m \in 1 .. p + q : m > p + k => a[m].id # id
      BY <1>7, <3>1
    <3> QED
      BY <3>1, <3>2, <3>3
  <2>2. ASSUME someS, noneT
        PROVE  someA
    <3>1. PICK k \in 1 .. p : s[k].id = id /\ s[k].set
             /\ (\A m \in 1 .. p : m > k => s[m].id # id)
      BY <2>2
    <3>2. ASSUME NEW m \in 1 .. p + q, m > k
          PROVE  a[m].id # id
      BY <1>1, <1>2, <1>4, <2>2, <3>1, <3>2
    <3>3. k \in 1 .. p + q /\ a[k] = s[k]
      BY <1>1, <1>5
    <3> QED
      BY <3>1, <3>2, <3>3
  <2>3. ASSUME someA
        PROVE  someT \/ (someS /\ noneT)
    <3>1. PICK k \in 1 .. p + q : a[k].id = id /\ a[k].set
             /\ (\A m \in 1 .. p + q : m > k => a[m].id # id)
      BY <2>3
    <3>2. CASE k \in 1 .. p
      <4>1. ASSUME NEW m \in 1 .. q
            PROVE  t[m].id # id
        <5>1. p + m \in 1 .. p + q /\ p + m > k /\ a[p + m] = t[m]
          BY <1>1, <3>2
        <5> QED
          BY <3>1, <5>1
      <4>2. \A m \in 1 .. p : m > k => s[m].id # id
        BY <1>1, <1>5, <3>1
      <4>3. a[k] = s[k]
        BY <1>1, <3>2
      <4> QED
        BY <3>1, <3>2, <4>1, <4>2, <4>3
    <3>3. CASE k \in p + 1 .. p + q
      <4>1. k - p \in 1 .. q /\ a[k] = t[k - p]
        BY <1>2, <3>3
      <4>2. ASSUME NEW m \in 1 .. q, m > k - p
            PROVE  t[m].id # id
        <5>1. p + m \in 1 .. p + q /\ p + m > k /\ a[p + m] = t[m]
          BY <1>1, <3>3, <4>2
        <5> QED
          BY <3>1, <5>1
      <4> QED
        BY <3>1, <4>1, <4>2
    <3> QED
      BY <1>4, <3>2, <3>3
  <2> QED
    BY <2>1, <2>2, <2>3
<1>9. LastFor(id, a, d) <=> (someA \/ (d /\ noneS /\ noneT))
  BY <1>1, <1>6 DEF LastFor
<1>10. LastFor(id, s, d) <=> (someS \/ (d /\ noneS))
  BY DEF LastFor, p
<1>11. ASSUME NEW e \in BOOLEAN
       PROVE  LastFor(id, t, e) <=> (someT \/ (e /\ noneT))
  BY DEF LastFor, q
<1>12. LastFor(id, s, d) \in BOOLEAN
  BY LastType
<1>13. LastFor(id, t, LastFor(id, s, d)) <=> (someT \/ (LastFor(id, s, d) /\ noneT))
  BY <1>11, <1>12
<1> QED
  BY <1>8, <1>9, <1>10, <1>13 DEF a

\* A command that is set already makes no output go off.
LEMMA LastSet ==
  ASSUME NEW id, NEW s, NEW d \in BOOLEAN, LastFor(id, s, FALSE)
  PROVE  LastFor(id, s, d)
  BY DEF LastFor
-----------------------------------------------------------------------------
(* Induction over the natural numbers, on sets instead of predicates.  The *)
(* theorems of the library that take a predicate cannot be applied by the  *)
(* provers; that < is well founded and that a well-founded relation has    *)
(* minimal elements speak of sets only.                                    *)

LEMMA LeastNat ==
  ASSUME NEW T \in SUBSET Nat, T # {}
  PROVE  \E x \in T : \A y \in T : x <= y
<1> DEFINE R == OpToRel(<, Nat)
<1>1. T # {} /\ T \subseteq Nat
  OBVIOUS
<1>2. IsWellFoundedOn(R, Nat)
  BY NatLessThanWellFounded
<1>3. \A x, y \in Nat : x < y <=> <<x, y>> \in R
  BY DEF OpToRel
<1> HIDE DEF R
<1>4. PICK x \in T : \A y \in T : ~ (<<y, x>> \in R)
  BY <1>1, <1>2, WFMin
<1>5. \A y \in T : x \in Nat /\ y \in Nat /\ ~(y < x)
  BY <1>1, <1>3, <1>4
<1>6. \A y \in T : x <= y
  BY <1>5
<1> QED
  BY <1>6

LEMMA Induction ==
  ASSUME NEW P, 0 \in P, \A n \in Nat : n \in P => n + 1 \in P
  PROVE  Nat \subseteq P
<1> DEFINE T == {n \in Nat : n \notin P}
<1>1. SUFFICES ASSUME T # {}
               PROVE  FALSE
  OBVIOUS
<1>2. PICK x \in T : \A y \in T : x <= y
  BY <1>1, LeastNat
<1>3. x # 0 /\ x \in Nat
  OBVIOUS
<1>4. x - 1 \in Nat /\ x - 1 \notin T
  BY <1>2, <1>3
<1> QED
  BY <1>3, <1>4
-----------------------------------------------------------------------------
(* The commands for id in a sequence.  Picked says that f is the function  *)
(* CommandsFor defines: f[n] has those among the first n of s.             *)

Step(id, s, f, n) ==
  IF n = 0 THEN <<>>
  ELSE IF s[n].id = id THEN Append(f[n - 1], s[n].set) ELSE f[n - 1]

Picked(id, s, f) == f = [n \in 0 .. Len(s) |-> Step(id, s, f, n)]

LEMMA PickedExists ==
  ASSUME NEW id, NEW C, NEW s \in Seq(C)
  PROVE  \E f : Picked(id, s, f)
<1> DEFINE Upto(m, f) == f = [n \in 0 .. m |-> Step(id, s, f, n)]
           P == {m \in Nat : \E f : Upto(m, f)}
<1>1. 0 \in P
  <2> DEFINE f == [n \in 0 .. 0 |-> <<>>]
  <2>1. Upto(0, f)
    BY DEF Step
  <2> QED
    BY <2>1
<1>2. ASSUME NEW m \in Nat, m \in P
      PROVE  m + 1 \in P
  <2>1. PICK f : Upto(m, f)
    BY <1>2
  <2> DEFINE g == [n \in 0 .. m + 1 |->
                     IF n <= m THEN f[n] ELSE Step(id, s, f, n)]
  <2>2. ASSUME NEW n \in 0 .. m + 1
        PROVE  g[n] = Step(id, s, g, n)
    <3>1. CASE n <= m
      <4>1. g[n] = Step(id, s, f, n)
        BY <2>1, <3>1
      <4>2. n # 0 => g[n - 1] = f[n - 1]
        BY <3>1
      <4> QED
        BY <4>1, <4>2 DEF Step
    <3>2. CASE n = m + 1
      <4>1. g[n] = Step(id, s, f, n) /\ n # 0
        BY <3>2
      <4>2. g[n - 1] = f[n - 1]
        BY <3>2
      <4> QED
        BY <4>1, <4>2 DEF Step
    <3> QED
      BY <3>1, <3>2
  <2>3. DOMAIN g = 0 .. m + 1 /\ g = [n \in 0 .. m + 1 |-> g[n]]
    OBVIOUS
  <2> HIDE DEF g
  <2>4. Upto(m + 1, g)
    BY <2>2, <2>3
  <2> QED
    BY <2>4
<1> HIDE DEF P
<1>3. Nat \subseteq P
  BY <1>1, <1>2, Induction
<1>4. Len(s) \in P
  BY <1>3
<1> QED
  BY <1>4 DEF P, Picked

\* There is one such function only.
LEMMA PickedOnce ==
  ASSUME NEW id, NEW C, NEW s \in Seq(C), NEW f, NEW g,
         Picked(id, s, f), Picked(id, s, g)
  PROVE  f[Len(s)] = g[Len(s)]
<1> DEFINE P == {n \in Nat : n <= Len(s) => f[n] = g[n]}
<1>1. \A n \in 0 .. Len(s) : f[n] = Step(id, s, f, n) /\ g[n] = Step(id, s, g, n)
  BY DEF Picked
<1>2. 0 \in P
  BY <1>1 DEF Step
<1>3. ASSUME NEW n \in Nat, n \in P
      PROVE  n + 1 \in P
  <2>1. SUFFICES ASSUME n + 1 <= Len(s)
                 PROVE  f[n + 1] = g[n + 1]
    OBVIOUS
  <2>2. f[n] = g[n] /\ n + 1 \in 0 .. Len(s) /\ (n + 1) - 1 = n /\ n + 1 # 0
    BY <1>3, <2>1
  <2> QED
    BY <1>1, <2>2 DEF Step
<1> HIDE DEF P
<1>4. Nat \subseteq P
  BY <1>2, <1>3, Induction
<1>5. Len(s) \in P /\ Len(s) \in Nat
  BY <1>4
<1> QED
  BY <1>5 DEF P

LEMMA PickedIs ==
  ASSUME NEW id, NEW C, NEW s \in Seq(C), NEW f, Picked(id, s, f)
  PROVE  CommandsFor(id, s) = f[Len(s)]
<1> DEFINE h == CHOOSE g : g = [n \in 0 .. Len(s) |->
                  IF n = 0 THEN <<>>
                  ELSE IF s[n].id = id THEN Append(g[n - 1], s[n].set)
                  ELSE g[n - 1]]
<1>1. CommandsFor(id, s) = h[Len(s)]
  BY DEF CommandsFor
<1>2. \A g : Picked(id, s, g)
        <=> g = [n \in 0 .. Len(s) |->
                  IF n = 0 THEN <<>>
                  ELSE IF s[n].id = id THEN Append(g[n - 1], s[n].set)
                  ELSE g[n - 1]]
  BY DEF Picked, Step
<1>3. Picked(id, s, h)
  BY <1>2, PickedExists
<1> HIDE DEF h
<1> QED
  BY <1>1, <1>3, PickedOnce

LEMMA CommandsEmpty ==
  ASSUME NEW id
  PROVE  CommandsFor(id, <<>>) = <<>>
<1> DEFINE f == [n \in 0 .. 0 |-> <<>>]
<1>1. <<>> \in Seq({}) /\ Len(<<>>) = 0
  OBVIOUS
<1>2. Picked(id, <<>>, f)
  BY <1>1 DEF Picked, Step
<1>3. CommandsFor(id, <<>>) = f[Len(<<>>)]
  BY <1>1, <1>2, PickedIs
<1> QED
  BY <1>1, <1>3

\* A command that is added is the last one for its id, and of no other.
LEMMA CommandsAppend ==
  ASSUME NEW id, NEW C, NEW s \in Seq(C), NEW c \in C
  PROVE  CommandsFor(id, Append(s, c))
           = IF c.id = id THEN Append(CommandsFor(id, s), c.set)
             ELSE CommandsFor(id, s)
<1> DEFINE a == Append(s, c)
<1>1. /\ Len(s) \in Nat /\ a \in Seq(C) /\ Len(a) = Len(s) + 1
      /\ a[Len(s) + 1] = c
      /\ \A n \in 1 .. Len(s) : a[n] = s[n]
  OBVIOUS
<1> HIDE DEF a
<1>2. PICK f : Picked(id, s, f)
  BY PickedExists
<1> DEFINE last == IF c.id = id THEN Append(f[Len(s)], c.set) ELSE f[Len(s)]
           g == [n \in 0 .. Len(a) |-> IF n <= Len(s) THEN f[n] ELSE last]
<1>3. ASSUME NEW n \in 0 .. Len(a)
      PROVE  g[n] = Step(id, a, g, n)
  <2>1. CASE n <= Len(s)
    <3>1. f[n] = Step(id, s, f, n)
      BY <1>2, <2>1 DEF Picked
    <3>2. n # 0 => g[n - 1] = f[n - 1] /\ a[n] = s[n]
      BY <1>1, <2>1
    <3> QED
      BY <2>1, <3>1, <3>2 DEF Step
  <2>2. CASE n = Len(s) + 1
    <3>1. g[n] = last /\ n # 0 /\ a[n] = c
      BY <1>1, <2>2
    <3>2. g[n - 1] = f[Len(s)]
      BY <1>1, <2>2
    <3> QED
      BY <3>1, <3>2 DEF Step
  <2> QED
    BY <1>1, <2>1, <2>2
<1>4. g = [n \in 0 .. Len(a) |-> g[n]] /\ g[Len(a)] = last
  BY <1>1
<1> HIDE DEF g
<1>5. Picked(id, a, g)
  BY <1>3, <1>4 DEF Picked
<1>6. CommandsFor(id, a) = last
  BY <1>1, <1>4, <1>5, PickedIs
<1>7. CommandsFor(id, s) = f[Len(s)]
  BY <1>2, PickedIs
<1> QED
  BY <1>6, <1>7 DEF a

LEMMA CommandsType ==
  ASSUME NEW id, NEW C, \A c \in C : c.set \in BOOLEAN, NEW s \in Seq(C)
  PROVE  CommandsFor(id, s) \in Seq(BOOLEAN)
<1>1. PICK f : Picked(id, s, f)
  BY PickedExists
<1> DEFINE P == {n \in Nat : n <= Len(s) => f[n] \in Seq(BOOLEAN)}
<1>2. \A n \in 0 .. Len(s) : f[n] = Step(id, s, f, n)
  BY <1>1 DEF Picked
<1>3. 0 \in P
  <2>1. f[0] = <<>>
    BY <1>2 DEF Step
  <2>2. f[0] \in Seq(BOOLEAN)
    BY <2>1
  <2> QED
    BY <2>2
<1>4. ASSUME NEW n \in Nat, n \in P
      PROVE  n + 1 \in P
  <2>1. SUFFICES ASSUME n + 1 <= Len(s)
                 PROVE  f[n + 1] \in Seq(BOOLEAN)
    OBVIOUS
  <2>2. f[n] \in Seq(BOOLEAN) /\ n + 1 \in 0 .. Len(s) /\ n + 1 # 0
    BY <1>4, <2>1
  <2>3. s[n + 1] \in C
    BY <2>1
  <2>4. s[n + 1].set \in BOOLEAN
    BY <2>3
  <2>5. Append(f[n], s[n + 1].set) \in Seq(BOOLEAN)
    BY <2>2, <2>4
  <2>6. f[n + 1] = IF s[n + 1].id = id THEN Append(f[n], s[n + 1].set) ELSE f[n]
    BY <1>2, <2>2 DEF Step
  <2> QED
    BY <2>2, <2>5, <2>6
<1> HIDE DEF P
<1>5. Nat \subseteq P
  BY <1>3, <1>4, Induction
<1>6. Len(s) \in P /\ Len(s) \in Nat
  BY <1>5
<1>7. f[Len(s)] \in Seq(BOOLEAN)
  BY <1>6 DEF P
<1> QED
  BY <1>1, <1>7, PickedIs

LEMMA CommandsNone ==
  ASSUME NEW id, NEW C, NEW s \in Seq(C), \A k \in 1 .. Len(s) : s[k].id # id
  PROVE  CommandsFor(id, s) = <<>>
<1>1. PICK f : Picked(id, s, f)
  BY PickedExists
<1> DEFINE P == {n \in Nat : n <= Len(s) => f[n] = <<>>}
<1>2. \A n \in 0 .. Len(s) : f[n] = Step(id, s, f, n)
  BY <1>1 DEF Picked
<1>3. 0 \in P
  BY <1>2 DEF Step
<1>4. ASSUME NEW n \in Nat, n \in P
      PROVE  n + 1 \in P
  <2>1. SUFFICES ASSUME n + 1 <= Len(s)
                 PROVE  f[n + 1] = <<>>
    OBVIOUS
  <2>2. f[n] = <<>> /\ n + 1 \in 0 .. Len(s) /\ n + 1 # 0 /\ n + 1 \in 1 .. Len(s)
    BY <1>4, <2>1
  <2> QED
    BY <1>2, <2>2 DEF Step
<1> HIDE DEF P
<1>5. Nat \subseteq P
  BY <1>3, <1>4, Induction
<1>6. Len(s) \in P /\ Len(s) \in Nat
  BY <1>5
<1>7. f[Len(s)] = <<>>
  BY <1>6 DEF P
<1> QED
  BY <1>1, <1>7, PickedIs

\* The commands of one sequence and then those of the next.
LEMMA CommandsConcat ==
  ASSUME NEW id, NEW C, \A c \in C : c.set \in BOOLEAN,
         NEW s \in Seq(C), NEW t \in Seq(C)
  PROVE  CommandsFor(id, s \o t) = CommandsFor(id, s) \o CommandsFor(id, t)
<1> DEFINE u(n) == SubSeq(t, 1, n)
           P == {n \in Nat : n <= Len(t) =>
                   CommandsFor(id, s \o u(n)) = CommandsFor(id, s) \o CommandsFor(id, u(n))}
<1>1. 0 \in P
  <2>1. u(0) = <<>> /\ s \o <<>> = s
    OBVIOUS
  <2>2. CommandsFor(id, s) \in Seq(BOOLEAN)
    BY CommandsType
  <2>3. CommandsFor(id, s) \o <<>> = CommandsFor(id, s)
    BY <2>2
  <2> QED
    BY <2>1, <2>3, CommandsEmpty
<1>2. ASSUME NEW n \in Nat, n \in P
      PROVE  n + 1 \in P
  <2>1. SUFFICES ASSUME n + 1 <= Len(t)
                 PROVE  CommandsFor(id, s \o u(n + 1))
                          = CommandsFor(id, s) \o CommandsFor(id, u(n + 1))
    OBVIOUS
  <2> DEFINE c == t[n + 1]
             v == u(n)
             w == s \o v
  <2>2. c \in C /\ v \in Seq(C) /\ w \in Seq(C)
    BY <2>1
  <2>3. u(n + 1) = Append(v, c)
    BY <2>1, SeqEqual
  <2>4. s \o u(n + 1) = Append(w, c)
    BY <2>2, <2>3
  <2>5. CommandsFor(id, w) = CommandsFor(id, s) \o CommandsFor(id, v)
    BY <1>2, <2>1
  <2> HIDE DEF u, c, v, w
  <2>6. CommandsFor(id, s) \in Seq(BOOLEAN) /\ CommandsFor(id, v) \in Seq(BOOLEAN)
    BY <2>2, CommandsType
  <2>7. /\ CommandsFor(id, Append(w, c))
             = IF c.id = id THEN Append(CommandsFor(id, w), c.set) ELSE CommandsFor(id, w)
        /\ CommandsFor(id, Append(v, c))
             = IF c.id = id THEN Append(CommandsFor(id, v), c.set) ELSE CommandsFor(id, v)
    BY <2>2, CommandsAppend
  <2>8. c.set \in BOOLEAN
    BY <2>2
  <2>9. CommandsFor(id, s) \o Append(CommandsFor(id, v), c.set)
          = Append(CommandsFor(id, s) \o CommandsFor(id, v), c.set)
    BY <2>6, <2>8
  <2> QED
    BY <2>3, <2>4, <2>5, <2>7, <2>9
<1>3. t = u(Len(t)) /\ Len(t) \in Nat
  OBVIOUS
<1> HIDE DEF P
<1>4. Nat \subseteq P
  BY <1>1, <1>2, Induction
<1>5. Len(t) \in P /\ Len(t) <= Len(t)
  BY <1>3, <1>4
<1>6. CommandsFor(id, s \o u(Len(t)))
        = CommandsFor(id, s) \o CommandsFor(id, u(Len(t)))
  BY <1>5 DEF P
<1> HIDE DEF u
<1> QED
  BY <1>3, <1>6

\* The first command, and then the others.
LEMMA CommandsHead ==
  ASSUME NEW id, NEW C, \A c \in C : c.set \in BOOLEAN,
         NEW s \in Seq(C), s # <<>>
  PROVE  CommandsFor(id, s)
           = IF Head(s).id = id THEN <<Head(s).set>> \o CommandsFor(id, Tail(s))
             ELSE CommandsFor(id, Tail(s))
<1> DEFINE h == Head(s)
<1>1. h \in C /\ Tail(s) \in Seq(C) /\ s = Append(<<>>, h) \o Tail(s)
      /\ <<>> \in Seq(C) /\ Append(<<>>, h) \in Seq(C)
  OBVIOUS
<1> HIDE DEF h
<1>2. CommandsFor(id, s)
        = CommandsFor(id, Append(<<>>, h)) \o CommandsFor(id, Tail(s))
  BY <1>1, CommandsConcat
<1>3. CommandsFor(id, Append(<<>>, h)) = IF h.id = id THEN <<h.set>> ELSE <<>>
  <2>1. Append(<<>>, h.set) = <<h.set>>
    OBVIOUS
  <2>2. CommandsFor(id, Append(<<>>, h))
          = IF h.id = id THEN Append(CommandsFor(id, <<>>), h.set)
            ELSE CommandsFor(id, <<>>)
    BY <1>1, CommandsAppend
  <2>3. CommandsFor(id, <<>>) = <<>>
    BY CommandsEmpty
  <2> QED
    BY <2>1, <2>2, <2>3
<1>4. CommandsFor(id, Tail(s)) \in Seq(BOOLEAN)
  BY <1>1, CommandsType
<1>5. <<>> \o CommandsFor(id, Tail(s)) = CommandsFor(id, Tail(s))
  BY <1>4
<1> QED
  BY <1>2, <1>3, <1>5 DEF h

\* A command for something else is none for id.
LEMMA TakenOther ==
  ASSUME NEW C, \A c \in C : c.set \in BOOLEAN, NEW id,
         NEW q \in Seq(C), q # <<>>, Head(q).id # id
  PROVE  CommandsFor(id, Tail(q)) = CommandsFor(id, q)
  BY CommandsHead

LEMMA AddedOther ==
  ASSUME NEW C, NEW id, NEW q \in Seq(C), NEW c \in C, c.id # id
  PROVE  CommandsFor(id, Append(q, c)) = CommandsFor(id, q)
  BY CommandsAppend

\* The invariants speak of the last command for id, and the abstract channels of
\* all of them in their order: the last of these is that one.
Decided(w, d) == IF w = <<>> THEN d ELSE w[Len(w)]

THEOREM LastOfCommands ==
  ASSUME NEW id, NEW C, \A c \in C : c.set \in BOOLEAN,
         NEW s \in Seq(C), NEW d \in BOOLEAN
  PROVE  LastFor(id, s, d) <=> Decided(CommandsFor(id, s), d)
<1> DEFINE u(n) == SubSeq(s, 1, n)
           P == {n \in Nat : n <= Len(s) =>
                   (LastFor(id, u(n), d) <=> Decided(CommandsFor(id, u(n)), d))}
<1>1. 0 \in P
  <2>1. u(0) = <<>>
    OBVIOUS
  <2>2. LastFor(id, <<>>, d) <=> d
    BY LastEmpty
  <2>3. CommandsFor(id, <<>>) = <<>>
    BY CommandsEmpty
  <2>4. Decided(CommandsFor(id, <<>>), d) = d
    BY <2>3 DEF Decided
  <2> HIDE DEF u
  <2> QED
    BY <2>1, <2>2, <2>4
<1>2. ASSUME NEW n \in Nat, n \in P
      PROVE  n + 1 \in P
  <2>1. SUFFICES ASSUME n + 1 <= Len(s)
                 PROVE  LastFor(id, u(n + 1), d)
                          <=> Decided(CommandsFor(id, u(n + 1)), d)
    OBVIOUS
  <2> DEFINE c == s[n + 1]
             v == u(n)
             w == CommandsFor(id, v)
  <2>2. c \in C /\ v \in Seq(C)
    BY <2>1
  <2>3. u(n + 1) = Append(v, c)
    BY <2>1, SeqEqual
  <2>4. LastFor(id, v, d) <=> Decided(w, d)
    BY <1>2, <2>1
  <2> HIDE DEF u, c, v
  <2>5. w \in Seq(BOOLEAN) /\ c.set \in BOOLEAN
    BY <2>2, CommandsType
  <2>6. CommandsFor(id, Append(v, c)) = IF c.id = id THEN Append(w, c.set) ELSE w
    BY <2>2, CommandsAppend
  <2>7. LastFor(id, Append(v, c), d)
          <=> IF c.id = id THEN c.set ELSE LastFor(id, v, d)
    BY <2>2, AppendOf
  <2>8. \A x \in BOOLEAN : Decided(Append(w, x), d) <=> x
    <3> HIDE DEF w
    <3> SUFFICES ASSUME NEW x \in BOOLEAN
                 PROVE  Decided(Append(w, x), d) <=> x
      OBVIOUS
    <3>1. Append(w, x) # <<>> /\ Append(w, x)[Len(Append(w, x))] = x
      BY <2>5
    <3> QED
      BY <3>1, Zenon DEF Decided
  <2> HIDE DEF w
  <2>9. CASE c.id = id
    BY <2>3, <2>5, <2>6, <2>7, <2>8, <2>9
  <2>10. CASE c.id # id
    BY <2>3, <2>4, <2>6, <2>7, <2>10
  <2> QED
    BY <2>9, <2>10
<1>3. s = u(Len(s)) /\ Len(s) \in Nat
  OBVIOUS
<1> HIDE DEF P
<1>4. Nat \subseteq P
  BY <1>1, <1>2, Induction
<1>5. Len(s) \in P /\ Len(s) <= Len(s)
  BY <1>3, <1>4
<1>6. LastFor(id, u(Len(s)), d) <=> Decided(CommandsFor(id, u(Len(s))), d)
  BY <1>5 DEF P
<1> HIDE DEF u
<1> QED
  BY <1>3, <1>6
-----------------------------------------------------------------------------
(* Commands on a way that is put together from several queues.             *)

LEMMA JoinEmpty ==
  ASSUME NEW S, NEW s \in Seq(S)
  PROVE  s \o <<>> = s /\ <<>> \o s = s
  OBVIOUS

LEMMA JoinAppend ==
  ASSUME NEW S, NEW s \in Seq(S), NEW t \in Seq(S), NEW e \in S
  PROVE  /\ s \o <<e>> = Append(s, e)
         /\ s \o Append(t, e) = Append(s \o t, e)
         /\ Append(s, e) \o t = s \o (<<e>> \o t)
  OBVIOUS

LEMMA JoinAssociative ==
  ASSUME NEW S, NEW s \in Seq(S), NEW t \in Seq(S), NEW u \in Seq(S)
  PROVE  (s \o t) \o u = s \o (t \o u)
  OBVIOUS

LEMMA JoinHead ==
  ASSUME NEW S, NEW s \in Seq(S), NEW t \in Seq(S), s # <<>>
  PROVE  /\ s \o t # <<>> /\ Head(s \o t) = Head(s)
         /\ Tail(s \o t) = Tail(s) \o t
<1>1. s = <<Head(s)>> \o Tail(s) /\ Head(s) \in S /\ Tail(s) \in Seq(S)
  OBVIOUS
<1>2. s \o t = <<Head(s)>> \o (Tail(s) \o t)
  BY <1>1, JoinAssociative
<1>3. Tail(s) \o t \in Seq(S)
  BY <1>1
<1>4. ASSUME NEW u \in Seq(S), NEW e \in S
      PROVE  <<e>> \o u # <<>> /\ Head(<<e>> \o u) = e /\ Tail(<<e>> \o u) = u
  OBVIOUS
<1> QED
  BY <1>1, <1>2, <1>3, <1>4

\* What is left when the first command behind s is taken out.
LEMMA CutOut ==
  ASSUME NEW S, NEW s \in Seq(S), NEW u \in Seq(S), u # <<>>,
         NEW w, w = s \o u
  PROVE  /\ Len(s) + 1 \in 1 .. Len(w)
         /\ SubSeq(w, 1, (Len(s) + 1) - 1) \o SubSeq(w, (Len(s) + 1) + 1, Len(w))
              = s \o Tail(u)
<1> DEFINE t == Tail(u)
           n == Len(s)
           m == Len(t)
<1>1. /\ n \in Nat /\ m \in Nat /\ w \in Seq(S) /\ Len(w) = n + 1 + m
      /\ \A k \in 1 .. n : w[k] = s[k]
      /\ \A k \in 1 .. m : w[n + 1 + k] = t[k]
  <2>1. /\ m \in Nat /\ Len(u) = 1 + m /\ \A k \in 1 .. m : u[1 + k] = t[k]
        /\ n \in Nat /\ t \in Seq(S)
    OBVIOUS
  <2>2. /\ w \in Seq(S) /\ Len(w) = n + Len(u)
        /\ \A k \in 1 .. n : w[k] = s[k]
        /\ \A k \in 1 .. Len(u) : w[n + k] = u[k]
    OBVIOUS
  <2> HIDE DEF n, m, t
  <2>3. \A k \in 1 .. m : 1 + k \in 1 .. Len(u) /\ n + 1 + k = n + (1 + k)
    BY <2>1
  <2> QED
    BY <2>1, <2>2, <2>3
<1>2. SubSeq(w, 1, (n + 1) - 1) = s
  <2>1. (n + 1) - 1 = n
    BY <1>1
  <2>2. SubSeq(w, 1, n) \in Seq(S) /\ Len(SubSeq(w, 1, n)) = n
        /\ \A k \in 1 .. n : SubSeq(w, 1, n)[k] = w[k]
    BY <1>1
  <2> HIDE DEF n
  <2> QED
    BY <1>1, <2>1, <2>2, SeqEqual DEF n
<1>3. SubSeq(w, (n + 1) + 1, Len(w)) = t
  <2> HIDE DEF n, m, t
  <2> DEFINE v == SubSeq(w, (n + 1) + 1, Len(w))
  <2>1. v \in Seq(S) /\ Len(v) = m /\ \A k \in 1 .. m : v[k] = w[n + 1 + k]
    BY <1>1
  <2> HIDE DEF v
  <2>2. t \in Seq(S) /\ Len(t) = m
    BY DEF m, t
  <2> QED
    BY <1>1, <2>1, <2>2, SeqEqual DEF v
<1>4. n + 1 \in 1 .. Len(w)
  <2> HIDE DEF n, m
  <2> QED
    BY <1>1
<1> QED
  BY <1>2, <1>3, <1>4
=============================================================================
