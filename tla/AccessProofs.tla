----------------------------- MODULE AccessProofs -----------------------------
(* Proofs about who may act: an attenuated sub-token is cut off with whatever  *)
(* it descends from, is never wider than its parent, and works for as long as  *)
(* it lives (Delegation); and what an operator was told about a token holds    *)
(* (AdminTokens).                                                              *)
(*                                                                             *)
(* The way up from a grant is a recursive function over the records. That it   *)
(* exists, and what it is after a record is added or purged, is shown by       *)
(* counting up the hops: CountUp.                                              *)
EXTENDS MCAccess, FiniteSetTheorems, WellFoundedInduction, TLAPS

-------------------------------------------------------------------------------
(* Counting up. *)

\* A set of numbers has a least one.
LEMMA LeastNumber ==
  ASSUME NEW S, S \subseteq Nat, S # {}
  PROVE  \E n \in S : \A m \in S : n <= m
<1>1. IsWellFoundedOn(OpToRel(<, Nat), Nat)
  BY NatLessThanWellFounded
<1>2. PICK n \in S : \A m \in S : ~(<<m, n>> \in OpToRel(<, Nat))
  BY <1>1, WFMin
<1>3. \A m \in S : ~(m < n)
  BY <1>2 DEF OpToRel
<1> QED
  BY <1>3

\* What holds of zero, and of the next number whenever of one, holds of all.
LEMMA CountUp ==
  ASSUME NEW S, 0 \in S, \A n \in S \cap Nat : n + 1 \in S
  PROVE  Nat \subseteq S
<1> SUFFICES ASSUME Nat \ S # {} PROVE FALSE
  OBVIOUS
<1>1. PICK n \in Nat \ S : \A m \in Nat \ S : n <= m
  BY LeastNumber
<1>2. n # 0 /\ n - 1 \in Nat /\ (n - 1) + 1 = n
  BY <1>1
<1>3. n - 1 \in S
  BY <1>1, <1>2
<1> QED
  BY <1>1, <1>2, <1>3

-------------------------------------------------------------------------------
(* The way up from a grant, over any set of records. *)

Above(recs, h) == IF h \in DOMAIN recs THEN recs[h].parent ELSE None

Climb(recs, g) ==
  CHOOSE up : up = [n \in 0 .. MaxDepth |->
                      IF n = 0 THEN g
                      ELSE IF up[n - 1] \in DOMAIN recs THEN recs[up[n - 1]].parent ELSE None]

\* The recursive definition of the way up has a solution: each hop is the parent of the last.
LEMMA ClimbIsDefined ==
  ASSUME NEW recs, NEW g, MaxDepth \in Nat
  PROVE  /\ Climb(recs, g)[0] = g
         /\ \A n \in 1 .. MaxDepth : Climb(recs, g)[n] = Above(recs, Climb(recs, g)[n - 1])
<1> DEFINE Walk(f, m) == f = [n \in 0 .. m |-> IF n = 0 THEN g
                               ELSE IF f[n - 1] \in DOMAIN recs THEN recs[f[n - 1]].parent ELSE None]
           S == {m \in Nat : \E f : Walk(f, m)}
<1>1. 0 \in S
  <2>1. PICK f : f = [n \in 0 .. 0 |-> g]
    OBVIOUS
  <2>2. Walk(f, 0)
    BY <2>1
  <2> QED
    BY <2>2
<1>2. ASSUME NEW m \in S \cap Nat PROVE m + 1 \in S
  <2>1. PICK f : Walk(f, m)
    BY <1>2
  <2>2. PICK e : e = [n \in 0 .. m + 1 |-> IF n <= m THEN f[n] ELSE Above(recs, f[m])]
    OBVIOUS
  <2>3. \A n \in 0 .. m : e[n] = f[n]
    BY <2>2
  <2>4. e[m + 1] = Above(recs, e[m])
    BY <2>2, <2>3
  <2>5. \A n \in 0 .. m : f[n] = IF n = 0 THEN g ELSE Above(recs, f[n - 1])
    BY <2>1 DEF Above
  <2>6. \A n \in 0 .. m : e[n] = IF n = 0 THEN g ELSE Above(recs, e[n - 1])
    BY <2>3, <2>5
  <2>7. \A n \in 0 .. m + 1 : e[n] = IF n = 0 THEN g ELSE Above(recs, e[n - 1])
    BY <2>4, <2>6
  <2>8. Walk(e, m + 1)
    BY <2>2, <2>7 DEF Above
  <2> QED
    BY <2>8
<1> HIDE DEF S
<1>3. MaxDepth \in S
  BY <1>1, <1>2, CountUp
<1>4. \E f : Walk(f, MaxDepth)
  BY <1>3 DEF S
<1>5. Walk(Climb(recs, g), MaxDepth)
  BY <1>4 DEF Climb
<1>6. \A n \in 0 .. MaxDepth : Climb(recs, g)[n] = IF n = 0 THEN g ELSE Above(recs, Climb(recs, g)[n - 1])
  BY <1>5 DEF Above
<1> QED
  BY <1>6

HopsIn(recs, g) == {Climb(recs, g)[n] : n \in 0 .. MaxDepth - 1} \ {None}

\* Every parent is there, and nobody is called nobody.
Closed(recs) ==
  /\ None \notin DOMAIN recs
  /\ \A h \in DOMAIN recs : recs[h].parent \in DOMAIN recs \cup {None}

\* S are records that two stores share, with all they descend from.
Shared(recs, news, S) ==
  /\ None \notin DOMAIN recs \cup DOMAIN news
  /\ S \subseteq DOMAIN recs /\ S \subseteq DOMAIN news
  /\ \A h \in S : news[h] = recs[h] /\ recs[h].parent \in S \cup {None}

\* What is shared has the same way up in both.
LEMMA SameWay ==
  ASSUME MaxDepth \in Nat, NEW recs, NEW news, NEW S, Shared(recs, news, S), NEW g \in S
  PROVE  /\ \A n \in 0 .. MaxDepth : Climb(news, g)[n] = Climb(recs, g)[n] /\ Climb(recs, g)[n] \in S \cup {None}
         /\ HopsIn(news, g) = HopsIn(recs, g) /\ HopsIn(recs, g) \subseteq S
<1> DEFINE N == {n \in Nat : n <= MaxDepth =>
                   Climb(news, g)[n] = Climb(recs, g)[n] /\ Climb(recs, g)[n] \in S \cup {None}}
<1>1. 0 \in N
  BY ClimbIsDefined
<1>2. ASSUME NEW n \in N \cap Nat PROVE n + 1 \in N
  <2> SUFFICES ASSUME n + 1 <= MaxDepth
               PROVE  /\ Climb(news, g)[n + 1] = Climb(recs, g)[n + 1]
                      /\ Climb(recs, g)[n + 1] \in S \cup {None}
    OBVIOUS
  <2>1. Climb(news, g)[n] = Climb(recs, g)[n] /\ Climb(recs, g)[n] \in S \cup {None}
    BY <1>2
  <2>2. n + 1 \in 1 .. MaxDepth /\ (n + 1) - 1 = n
    OBVIOUS
  <2>3. /\ Climb(news, g)[n + 1] = Above(news, Climb(news, g)[n])
        /\ Climb(recs, g)[n + 1] = Above(recs, Climb(recs, g)[n])
    BY <2>2, ClimbIsDefined
  <2> QED
    BY <2>1, <2>3 DEF Above, Shared
<1> HIDE DEF N
<1>3. \A n \in 0 .. MaxDepth : n \in N
  BY <1>1, <1>2, CountUp
<1>4. \A n \in 0 .. MaxDepth : Climb(news, g)[n] = Climb(recs, g)[n] /\ Climb(recs, g)[n] \in S \cup {None}
  BY <1>3 DEF N
<1>5. \A n \in 0 .. MaxDepth - 1 : n \in 0 .. MaxDepth
  OBVIOUS
<1>6. HopsIn(news, g) = HopsIn(recs, g) /\ HopsIn(recs, g) \subseteq S
  BY <1>4, <1>5 DEF HopsIn
<1> QED
  BY <1>4, <1>6

\* The way up from a grant is the one from its parent, one hop on.
LEMMA WayFromParent ==
  ASSUME MaxDepth \in Nat, NEW recs, NEW g \in DOMAIN recs
  PROVE  \A n \in 0 .. MaxDepth - 1 : Climb(recs, g)[n + 1] = Climb(recs, recs[g].parent)[n]
<1> DEFINE p == recs[g].parent
           N == {n \in Nat : n < MaxDepth => Climb(recs, g)[n + 1] = Climb(recs, p)[n]}
<1>1. 0 \in N
  <2> SUFFICES ASSUME 0 < MaxDepth PROVE Climb(recs, g)[1] = Climb(recs, p)[0]
    OBVIOUS
  <2>1. 1 \in 1 .. MaxDepth /\ 1 - 1 = 0
    OBVIOUS
  <2>2. Climb(recs, g)[1] = Above(recs, Climb(recs, g)[0]) /\ Climb(recs, g)[0] = g /\ Climb(recs, p)[0] = p
    BY <2>1, ClimbIsDefined
  <2> QED
    BY <2>2 DEF Above
<1>2. ASSUME NEW n \in N \cap Nat PROVE n + 1 \in N
  <2> SUFFICES ASSUME n + 1 < MaxDepth PROVE Climb(recs, g)[(n + 1) + 1] = Climb(recs, p)[n + 1]
    OBVIOUS
  <2>1. Climb(recs, g)[n + 1] = Climb(recs, p)[n]
    BY <1>2
  <2>2. /\ n + 1 \in 1 .. MaxDepth /\ (n + 1) - 1 = n
        /\ (n + 1) + 1 \in 1 .. MaxDepth /\ ((n + 1) + 1) - 1 = n + 1
    OBVIOUS
  <2>3. /\ Climb(recs, g)[(n + 1) + 1] = Above(recs, Climb(recs, g)[n + 1])
        /\ Climb(recs, p)[n + 1] = Above(recs, Climb(recs, p)[n])
    BY <2>2, ClimbIsDefined
  <2> QED
    BY <2>1, <2>3
<1> HIDE DEF N
<1>3. \A n \in 0 .. MaxDepth - 1 : n \in N /\ n < MaxDepth
  BY <1>1, <1>2, CountUp
<1> QED
  BY <1>3 DEF N

\* There is no way up from nobody.
LEMMA NoWay ==
  ASSUME MaxDepth \in Nat, NEW recs, None \notin DOMAIN recs
  PROVE  \A n \in 0 .. MaxDepth : Climb(recs, None)[n] = None
<1> DEFINE N == {n \in Nat : n <= MaxDepth => Climb(recs, None)[n] = None}
<1>1. 0 \in N
  BY ClimbIsDefined
<1>2. ASSUME NEW n \in N \cap Nat PROVE n + 1 \in N
  <2> SUFFICES ASSUME n + 1 <= MaxDepth PROVE Climb(recs, None)[n + 1] = None
    OBVIOUS
  <2>1. n + 1 \in 1 .. MaxDepth /\ (n + 1) - 1 = n /\ Climb(recs, None)[n] = None
    BY <1>2
  <2>2. Climb(recs, None)[n + 1] = Above(recs, Climb(recs, None)[n])
    BY <2>1, ClimbIsDefined
  <2> QED
    BY <2>1, <2>2 DEF Above
<1> HIDE DEF N
<1>3. \A n \in 0 .. MaxDepth : n \in N
  BY <1>1, <1>2, CountUp
<1> QED
  BY <1>3 DEF N

\* What is known of a grant and those it descends from.
SoundHops(recs, lines, g, hops) ==
  /\ g \in hops /\ hops \subseteq DOMAIN recs /\ IsFiniteSet(hops) /\ Cardinality(hops) <= MaxDepth
  /\ \A n \in 0 .. MaxDepth : Climb(recs, g)[n] = None <=> Cardinality(hops) <= n
  /\ lines[g] = {recs[g].root} \cup hops
  /\ \A h \in hops :
       recs[h].root = recs[g].root /\ recs[h].profile = recs[g].profile /\ recs[g].expires <= recs[h].expires
  /\ \E h \in hops : recs[h].parent = None
  /\ recs[g].parent # None => recs[g].parent \in hops /\ HopsIn(recs, recs[g].parent) \subseteq hops
ChainIsSound(recs, lines, g) == SoundHops(recs, lines, g, HopsIn(recs, g))

\* A chain stays sound when records outside it come or go.
LEMMA SoundStays ==
  ASSUME MaxDepth \in Nat, NEW recs, NEW news, NEW S, Shared(recs, news, S),
         NEW g \in S, NEW lines, NEW newlines, newlines[g] = lines[g], ChainIsSound(recs, lines, g)
  PROVE  ChainIsSound(news, newlines, g)
<1>1. /\ \A n \in 0 .. MaxDepth : Climb(news, g)[n] = Climb(recs, g)[n]
      /\ HopsIn(news, g) = HopsIn(recs, g) /\ HopsIn(recs, g) \subseteq S
  BY SameWay
<1>2. recs[g].parent # None => HopsIn(news, recs[g].parent) = HopsIn(recs, recs[g].parent)
  <2>1. recs[g].parent # None => recs[g].parent \in S
    BY DEF Shared
  <2> QED
    BY <2>1, SameWay
<1>3. news[g] = recs[g] /\ \A h \in HopsIn(recs, g) : news[h] = recs[h]
  BY <1>1 DEF Shared
<1> DEFINE hops == HopsIn(recs, g)
<1>4. SoundHops(recs, lines, g, hops)
  BY DEF ChainIsSound
<1>5. HopsIn(news, g) = hops /\ hops \subseteq DOMAIN news /\ hops \subseteq S
  BY <1>1 DEF Shared
<1> HIDE DEF hops
<1>6. \A h \in hops : news[h] = recs[h]
  BY <1>5 DEF Shared
<1>7. SoundHops(news, newlines, g, hops)
  BY <1>1, <1>2, <1>3, <1>4, <1>5, <1>6 DEF SoundHops
<1> QED
  BY <1>5, <1>7 DEF ChainIsSound

\* A new grant: its parent's hops and itself.
LEMMA NewIsSound ==
  ASSUME MaxDepth \in Nat \ {0}, NEW recs, Closed(recs), NEW g, g \notin DOMAIN recs, g # None,
         NEW grant, grant.expires \in Nat,
         NEW news, news = [h \in DOMAIN recs \cup {g} |-> IF h = g THEN grant ELSE recs[h]],
         NEW lines, NEW newlines,
         newlines[g] = {g, grant.root} \cup (IF grant.parent = None THEN {} ELSE lines[grant.parent]),
         grant.parent # None =>
           /\ grant.parent \in DOMAIN recs /\ ChainIsSound(recs, lines, grant.parent)
           /\ Cardinality(HopsIn(recs, grant.parent)) < MaxDepth
           /\ grant.root = recs[grant.parent].root /\ grant.profile = recs[grant.parent].profile
           /\ grant.expires <= recs[grant.parent].expires,
         \A h \in DOMAIN recs : recs[h].expires \in Nat
  PROVE  ChainIsSound(news, newlines, g)
<1> DEFINE p == grant.parent
           all == DOMAIN recs
<1>1. /\ DOMAIN news = all \cup {g} /\ news[g] = grant /\ \A h \in all : news[h] = recs[h]
      /\ None \notin DOMAIN news /\ None \notin all
  BY DEF Closed
<1>2. Climb(news, g)[0] = g /\ \A n \in 0 .. MaxDepth - 1 : Climb(news, g)[n + 1] = Climb(news, p)[n]
  BY <1>1, ClimbIsDefined, WayFromParent
<1>3. CASE p = None
  <2>1. \A n \in 0 .. MaxDepth - 1 : Climb(news, g)[n + 1] = None
    <3>1. \A n \in 0 .. MaxDepth - 1 : n \in 0 .. MaxDepth
      OBVIOUS
    <3> QED
      BY <1>1, <1>2, <1>3, <3>1, NoWay
  <2>2. \A n \in 0 .. MaxDepth : Climb(news, g)[n] = IF n = 0 THEN g ELSE None
    <3>1. \A n \in 0 .. MaxDepth : n # 0 => n - 1 \in 0 .. MaxDepth - 1 /\ (n - 1) + 1 = n
      OBVIOUS
    <3> QED
      BY <1>2, <2>1, <3>1
  <2>3. HopsIn(news, g) = {g}
    <3>1. 0 \in 0 .. MaxDepth - 1 /\ \A n \in 0 .. MaxDepth - 1 : n \in 0 .. MaxDepth
      OBVIOUS
    <3> QED
      BY <2>2, <3>1 DEF HopsIn
  <2>4. IsFiniteSet({g}) /\ Cardinality({g}) = 1
    BY FS_Singleton
  <2>5. \A n \in 0 .. MaxDepth : Climb(news, g)[n] = None <=> Cardinality({g}) <= n
    <3> SUFFICES ASSUME NEW n \in 0 .. MaxDepth PROVE (IF n = 0 THEN g ELSE None) = None <=> 1 <= n
      BY <2>2, <2>4
    <3>1. n = 0 \/ 1 <= n
      OBVIOUS
    <3> QED
      BY <3>1
  <2>6. grant.expires <= grant.expires
    OBVIOUS
  <2>7. SoundHops(news, newlines, g, {g})
    BY <1>1, <1>3, <2>4, <2>5, <2>6 DEF SoundHops
  <2> QED
    BY <2>3, <2>7 DEF ChainIsSound
<1>4. CASE p # None
  <2> DEFINE hops == HopsIn(recs, p)
  <2>1. /\ p \in all /\ ChainIsSound(recs, lines, p) /\ Cardinality(hops) < MaxDepth
        /\ grant.root = recs[p].root /\ grant.profile = recs[p].profile /\ grant.expires <= recs[p].expires
    BY <1>4
  <2>2. /\ \A n \in 0 .. MaxDepth : Climb(news, p)[n] = Climb(recs, p)[n]
        /\ HopsIn(news, p) = hops
    <3>1. Shared(recs, news, all)
      BY <1>1 DEF Shared, Closed
    <3> QED
      BY <2>1, <3>1, SameWay
  <2>3. /\ p \in hops /\ hops \subseteq all /\ IsFiniteSet(hops) /\ Cardinality(hops) \in Nat
        /\ \A n \in 0 .. MaxDepth : Climb(recs, p)[n] = None <=> Cardinality(hops) <= n
    BY <2>1, FS_CardinalityType DEF ChainIsSound, SoundHops
  <2> HIDE DEF hops
  <2>4. \A n \in 0 .. MaxDepth - 1 : Climb(news, g)[n + 1] = Climb(recs, p)[n]
    <3>1. \A n \in 0 .. MaxDepth - 1 : n \in 0 .. MaxDepth
      OBVIOUS
    <3> QED
      BY <1>2, <2>2, <3>1
  <2>5. HopsIn(news, g) = hops \cup {g}
    <3>1. ASSUME NEW n \in 0 .. MaxDepth - 1, Climb(news, g)[n] # None
          PROVE  Climb(news, g)[n] \in hops \cup {g}
      <4>1. CASE n = 0
        BY <1>2, <4>1
      <4>2. CASE n # 0
        <5>1. n - 1 \in 0 .. MaxDepth - 1 /\ (n - 1) + 1 = n
          BY <4>2
        <5>2. Climb(news, g)[n] = Climb(recs, p)[n - 1]
          BY <2>4, <5>1
        <5> QED
          BY <3>1, <5>1, <5>2 DEF hops, HopsIn
      <4> QED
        BY <4>1, <4>2
    <3>2. ASSUME NEW x \in hops PROVE \E n \in 0 .. MaxDepth - 1 : Climb(news, g)[n] = x
      <4>1. PICK n \in 0 .. MaxDepth - 1 : x = Climb(recs, p)[n] /\ x # None
        BY DEF hops, HopsIn
      <4>2. n + 1 \in 0 .. MaxDepth - 1
        BY <2>1, <2>3, <4>1
      <4> QED
        BY <2>4, <4>1, <4>2
    <3>3. 0 \in 0 .. MaxDepth - 1 /\ Climb(news, g)[0] = g /\ g # None /\ None \notin hops
      BY <1>2, <2>3 DEF Closed
    <3>4. HopsIn(news, g) \subseteq hops \cup {g}
      BY <3>1 DEF HopsIn
    <3>5. hops \subseteq HopsIn(news, g)
      BY <3>2, <3>3 DEF HopsIn
    <3>6. g \in HopsIn(news, g)
      BY <3>3 DEF HopsIn
    <3> QED
      BY <3>4, <3>5, <3>6
  <2>6. IsFiniteSet(hops \cup {g}) /\ Cardinality(hops \cup {g}) = Cardinality(hops) + 1
    BY <2>3, FS_AddElement
  <2>7. \A n \in 0 .. MaxDepth : Climb(news, g)[n] = None <=> Cardinality(hops) + 1 <= n
    <3> SUFFICES ASSUME NEW n \in 0 .. MaxDepth
                 PROVE  Climb(news, g)[n] = None <=> Cardinality(hops) + 1 <= n
      OBVIOUS
    <3>1. CASE n = 0
      BY <1>2, <2>3, <3>1
    <3>2. CASE n # 0
      <4>1. n - 1 \in 0 .. MaxDepth - 1 /\ (n - 1) + 1 = n /\ n - 1 \in 0 .. MaxDepth
        BY <3>2
      <4>2. Climb(news, g)[n] = Climb(recs, p)[n - 1]
        BY <2>4, <4>1
      <4> QED
        BY <2>3, <4>1, <4>2
    <3> QED
      BY <3>1, <3>2
  <2>8. newlines[g] = {grant.root} \cup (hops \cup {g})
    BY <1>4, <2>1 DEF ChainIsSound, SoundHops, hops
  <2>9. \A h \in hops \cup {g} :
          /\ news[h].root = grant.root /\ news[h].profile = grant.profile
          /\ grant.expires <= news[h].expires
    <3> SUFFICES ASSUME NEW h \in hops PROVE /\ recs[h].root = grant.root /\ recs[h].profile = grant.profile
                                             /\ grant.expires <= recs[h].expires
      BY <1>1, <2>3
    <3>1. recs[h].root = recs[p].root /\ recs[h].profile = recs[p].profile /\ recs[p].expires <= recs[h].expires
      BY <2>1 DEF ChainIsSound, SoundHops, hops
    <3>2. recs[h].expires \in Nat /\ recs[p].expires \in Nat
      BY <2>1, <2>3
    <3> QED
      BY <2>1, <3>1, <3>2
  <2>10. \E h \in hops \cup {g} : news[h].parent = None
    BY <1>1, <2>1, <2>3 DEF ChainIsSound, SoundHops, hops
  <2>11. Cardinality(hops) + 1 <= MaxDepth
    BY <2>1, <2>3
  <2>12. PICK more : more = hops \cup {g}
    OBVIOUS
  <2>13. /\ g \in more /\ more \subseteq DOMAIN news /\ IsFiniteSet(more) /\ Cardinality(more) <= MaxDepth
         /\ p \in more /\ HopsIn(news, p) \subseteq more
    BY <1>1, <2>2, <2>3, <2>6, <2>11, <2>12
  <2>14. \A n \in 0 .. MaxDepth : Climb(news, g)[n] = None <=> Cardinality(more) <= n
    BY <2>6, <2>7, <2>12
  <2>15. newlines[g] = {news[g].root} \cup more
    BY <1>1, <2>8, <2>12
  <2>16. \A h \in more :
           news[h].root = news[g].root /\ news[h].profile = news[g].profile /\ news[g].expires <= news[h].expires
    BY <1>1, <2>9, <2>12
  <2>17. \E h \in more : news[h].parent = None
    BY <2>10, <2>12
  <2>18. news[g].parent # None => news[g].parent \in more /\ HopsIn(news, news[g].parent) \subseteq more
    BY <1>1, <2>13
  <2>19. SoundHops(news, newlines, g, more)
    BY <2>13, <2>14, <2>15, <2>16, <2>17, <2>18 DEF SoundHops
  <2> QED
    BY <2>5, <2>12, <2>19 DEF ChainIsSound
<1> QED
  BY <1>3, <1>4

\* Climb is the way up of Delegation.
LEMMA UpIsClimb ==
  \A g : D!Up(g) = Climb(byId, g) /\ D!Hops(g) = HopsIn(byId, g)
  BY DEF D!Up, Climb, D!Hops, HopsIn

-------------------------------------------------------------------------------
(* The store and the mints in flight. *)

\* A mint that has been let in under a grant that is there, with room below it.
Descends(m, recs) ==
  /\ m.root \in Agents
  /\ m.parent # None =>
       /\ m.parent \in DOMAIN recs /\ Cardinality(HopsIn(recs, m.parent)) < MaxDepth
       /\ m.root = recs[m.parent].root /\ m.profile = recs[m.parent].profile

Outlived(grant, recs) ==
  grant.expires \in Nat /\ (grant.parent # None => grant.expires <= recs[grant.parent].expires)

Pending(q, recs) ==
  \/ q = D!Idle
  \/ q.step = "body" /\ Descends(q.mint, recs)
  \/ q.step = "hash" /\ Descends(q.grant, recs) /\ Outlived(q.grant, recs)

StoreIsSound(recs, lines) ==
  /\ Closed(recs) /\ DOMAIN recs \subseteq DOMAIN lines /\ IsFiniteSet(DOMAIN recs)
  /\ \A g \in DOMAIN recs : recs[g].expires \in Nat /\ recs[g].root \in Agents
  /\ \A g \in DOMAIN recs : ChainIsSound(recs, lines, g)

Alive(recs, t) == {g \in DOMAIN recs : recs[g].expires > t}
InFlight(reqs) == {r \in Requests : reqs[r] # D!Idle}

RoomForAll(recs, t, reqs) ==
  Cardinality(Alive(recs, t)) + Cardinality(InFlight(reqs)) <= MaxActive + Cardinality(Requests) - 1

GrantInv ==
  /\ agents \in [Agents -> Confs \cup {Gone}] /\ now \in Nat
  /\ req = [r \in Requests |-> req[r]] /\ \A r \in Requests : Pending(req[r], byId)
  /\ StoreIsSound(byId, line)
  /\ RoomForAll(byId, now, req)

\* Delegation's sets are counted as they are here.
LEMMA SameCount ==
  \A S : D!Cardinality(S) = Cardinality(S) /\ D!IsFiniteSet(S) = IsFiniteSet(S)
<1>1. \A S : D!Cardinality(S) = Cardinality(S)
  BY DEF D!Cardinality, Cardinality
<1>2. \A S : D!IsFiniteSet(S) = IsFiniteSet(S)
  BY DEF D!IsFiniteSet, IsFiniteSet
<1> QED
  BY <1>1, <1>2

\* The limits are limits: the assumptions on the constants, with Delegation's counting unfolded.
LEMMA Capacity ==
  /\ MaxActive \in Nat \ {0} /\ MaxTtl \in Nat \ {0} /\ IsFiniteSet(Requests)
  /\ MaxDepth \in Nat \ {0} /\ Cardinality(Requests) \in Nat
<1>1. MaxActive \in Nat \ {0} /\ MaxTtl \in Nat \ {0} /\ IsFiniteSet(Requests)
  BY CapIsSound, SameCount DEF D!CapAssumption
<1>2. MaxDepth \in Nat \ {0}
  BY DepthIsSound DEF D!DepthAssumption
<1> QED
  BY <1>1, <1>2, FS_CardinalityType

\* An empty store is sound.
LEMMA GrantsStart == D!Init => GrantInv
<1> SUFFICES ASSUME D!Init PROVE GrantInv
  OBVIOUS
<1>1. /\ agents \in [Agents -> Confs] /\ byId = << >> /\ now = 0 /\ line = << >>
      /\ req = [r \in Requests |-> D!Idle]
  BY DEF D!Init
<1>2. DOMAIN byId = {}
  BY <1>1
<1>3. StoreIsSound(byId, line)
  BY <1>2, FS_EmptySet DEF StoreIsSound, Closed
<1>4. Alive(byId, now) = {} /\ InFlight(req) = {}
  BY <1>1, <1>2 DEF Alive, InFlight
<1>5. Cardinality({}) = 0
  BY FS_EmptySet
<1>6. RoomForAll(byId, now, req)
  BY <1>4, <1>5, Capacity DEF RoomForAll
<1>7. agents \in [Agents -> Confs \cup {Gone}]
  BY <1>1
<1>8. \A r \in Requests : Pending(req[r], byId)
  BY <1>1 DEF Pending
<1> QED
  BY <1>1, <1>3, <1>6, <1>7, <1>8 DEF GrantInv

\* What is counted is finite.
LEMMA CountsAreFinite ==
  ASSUME NEW recs, IsFiniteSet(DOMAIN recs), NEW t, NEW reqs
  PROVE  /\ IsFiniteSet(Alive(recs, t)) /\ IsFiniteSet(InFlight(reqs))
         /\ Cardinality(Alive(recs, t)) \in Nat /\ Cardinality(InFlight(reqs)) \in Nat
         /\ Cardinality(InFlight(reqs)) <= Cardinality(Requests)
<1>1. Alive(recs, t) \subseteq DOMAIN recs /\ InFlight(reqs) \subseteq Requests
  BY DEF Alive, InFlight
<1> QED
  BY <1>1, Capacity, FS_Subset, FS_CardinalityType

\* Fewer grants alive count for less.
LEMMA FewerAreAlive ==
  ASSUME NEW recs, NEW news, IsFiniteSet(DOMAIN recs), NEW t, NEW u,
         Alive(news, u) \subseteq Alive(recs, t)
  PROVE  Cardinality(Alive(news, u)) <= Cardinality(Alive(recs, t))
  BY CountsAreFinite, FS_Subset

\* One request comes in below the capacity, goes on, or leaves.
LEMMA RequestKeeps ==
  ASSUME GrantInv, NEW r \in Requests, NEW q, req' = [req EXCEPT ![r] = q],
         UNCHANGED <<agents, byId, now, line>>, Pending(q, byId),
         req[r] # D!Idle \/ ~D!AtCapacity
  PROVE  GrantInv'
<1>1. req'[r] = q /\ (\A s \in Requests : s # r => req'[s] = req[s]) /\ req' = [s \in Requests |-> req'[s]]
  BY DEF GrantInv
<1>2. \A s \in Requests : Pending(req'[s], byId)
  BY <1>1 DEF GrantInv
<1>3. IsFiniteSet(DOMAIN byId)
  BY DEF GrantInv, StoreIsSound
<1>4. PICK next : next = req'
  OBVIOUS
<1>5. RoomForAll(byId, now, next)
  <2>1. CASE req[r] # D!Idle
    <3>1. InFlight(next) \subseteq InFlight(req)
      BY <1>1, <1>4, <2>1 DEF InFlight
    <3>2. Cardinality(InFlight(next)) <= Cardinality(InFlight(req)) /\ Cardinality(InFlight(next)) \in Nat
      BY <1>3, <3>1, CountsAreFinite, FS_Subset
    <3>3. RoomForAll(byId, now, req)
      BY DEF GrantInv
    <3> QED
      BY <1>3, <3>2, <3>3, CountsAreFinite, Capacity DEF RoomForAll
  <2>2. CASE ~D!AtCapacity
    <3>1. Cardinality(InFlight(next)) <= Cardinality(Requests) /\ Cardinality(InFlight(next)) \in Nat
      BY <1>3, CountsAreFinite
    <3>2. Cardinality(Alive(byId, now)) \in Nat
      BY <1>3, CountsAreFinite
    <3>3. ~(Cardinality(Alive(byId, now)) >= MaxActive)
      BY <2>2, SameCount DEF D!AtCapacity, Alive
    <3> QED
      BY <3>1, <3>2, <3>3, Capacity DEF RoomForAll
  <2> QED
    BY <2>1, <2>2
<1> QED
  BY <1>1, <1>2, <1>4, <1>5 DEF GrantInv

\* A grant that is accepted resolves to all its hops, and the top one has its profile.
LEMMA ChainOfAccepted ==
  ASSUME GrantInv, NEW g \in DOMAIN byId, D!ChainById(g) # {}
  PROVE  /\ D!ChainById(g) = HopsIn(byId, g)
         /\ D!TopOf(D!ChainById(g)) \in HopsIn(byId, g)
         /\ byId[D!TopOf(D!ChainById(g))].profile = byId[g].profile
<1>1. D!ChainById(g) = HopsIn(byId, g)
  BY UpIsClimb DEF D!ChainById
<1> DEFINE hops == HopsIn(byId, g)
<1>2. SoundHops(byId, line, g, hops)
  BY DEF GrantInv, StoreIsSound, ChainIsSound
<1> HIDE DEF hops
<1>3. D!TopOf(hops) \in hops
  BY <1>2 DEF SoundHops, D!TopOf
<1>4. byId[D!TopOf(hops)].profile = byId[g].profile
  BY <1>2, <1>3 DEF SoundHops
<1> QED
  BY <1>1, <1>3, <1>4 DEF hops

\* A record is stored: its parent is still there with room below, whatever was revoked meanwhile.
LEMMA StoreKeeps ==
  ASSUME GrantInv, NEW r \in Requests, D!Store(r)
  PROVE  GrantInv'
<1> DEFINE grant == req[r].grant
<1>1. PICK g \in Grants \ DOMAIN line :
        /\ byId' = [h \in DOMAIN byId \cup {g} |-> IF h = g THEN grant ELSE byId[h]]
        /\ line' = [h \in DOMAIN line \cup {g} |-> IF h = g THEN D!Lineage(g, grant) ELSE line[h]]
  BY DEF D!Store
<1>2. Descends(grant, byId) /\ Outlived(grant, byId) /\ req[r] # D!Idle
  BY DEF D!Store, GrantInv, Pending, D!Idle
<1>3. req' = [req EXCEPT ![r] = D!Idle] /\ UNCHANGED <<agents, now>>
  BY DEF D!Store
<1>4. PICK recs, lines : recs = byId /\ lines = line
  OBVIOUS
<1>5. PICK news, newlines : news = byId' /\ newlines = line'
  OBVIOUS
<1>6. StoreIsSound(recs, lines) /\ g \notin DOMAIN recs /\ g # None
  BY <1>1, <1>4, ConfsAreSound DEF GrantInv, StoreIsSound, D!ConfAssumption
<1>7. PICK made : made = grant
  OBVIOUS
<1> HIDE DEF grant
<1>8. /\ news = [h \in DOMAIN recs \cup {g} |-> IF h = g THEN made ELSE recs[h]]
      /\ newlines = [h \in DOMAIN lines \cup {g} |->
           IF h = g THEN {g, made.root} \cup (IF made.parent = None THEN {} ELSE lines[made.parent])
           ELSE lines[h]]
      /\ Descends(made, recs) /\ Outlived(made, recs)
  BY <1>1, <1>2, <1>4, <1>5, <1>7 DEF D!Lineage
<1>9. DOMAIN news = DOMAIN recs \cup {g} /\ news[g] = made /\ \A h \in DOMAIN recs : news[h] = recs[h]
  BY <1>6, <1>8
<1>10. Shared(recs, news, DOMAIN recs)
  BY <1>6, <1>9 DEF Shared, StoreIsSound, Closed
<1>11. Closed(news) /\ DOMAIN news \subseteq DOMAIN newlines
  BY <1>6, <1>8, <1>9 DEF Closed, StoreIsSound, Descends
<1>12. IsFiniteSet(DOMAIN news)
  BY <1>6, <1>9, FS_AddElement DEF StoreIsSound
<1>13. \A h \in DOMAIN news : news[h].expires \in Nat /\ news[h].root \in Agents
  BY <1>6, <1>8, <1>9 DEF StoreIsSound, Descends, Outlived
<1>14. ASSUME NEW h \in DOMAIN recs PROVE ChainIsSound(news, newlines, h)
  <2>1. newlines[h] = lines[h]
    BY <1>6, <1>8 DEF StoreIsSound
  <2>2. ChainIsSound(recs, lines, h)
    BY <1>6 DEF StoreIsSound
  <2> QED
    BY <1>10, <2>1, <2>2, SoundStays, Capacity
<1>15. ChainIsSound(news, newlines, g)
  <2>1. newlines[g] = {g, made.root} \cup (IF made.parent = None THEN {} ELSE lines[made.parent])
    BY <1>8
  <2>2. made.expires \in Nat /\ Closed(recs) /\ \A h \in DOMAIN recs : recs[h].expires \in Nat
    BY <1>6, <1>8 DEF Outlived, StoreIsSound
  <2>3. made.parent # None =>
           /\ made.parent \in DOMAIN recs /\ ChainIsSound(recs, lines, made.parent)
           /\ Cardinality(HopsIn(recs, made.parent)) < MaxDepth
           /\ made.root = recs[made.parent].root /\ made.profile = recs[made.parent].profile
           /\ made.expires <= recs[made.parent].expires
    BY <1>6, <1>8 DEF Descends, Outlived, StoreIsSound
  <2> QED
    BY <1>6, <1>8, <2>1, <2>2, <2>3, NewIsSound, Capacity
<1>16. StoreIsSound(news, newlines)
  BY <1>9, <1>11, <1>12, <1>13, <1>14, <1>15 DEF StoreIsSound
<1>17. ASSUME NEW m, Descends(m, recs) PROVE Descends(m, news)
  <2>1. m.parent # None => HopsIn(news, m.parent) = HopsIn(recs, m.parent)
    BY <1>10, <1>17, SameWay, Capacity DEF Descends
  <2> QED
    BY <1>9, <1>17, <2>1 DEF Descends
<1>18. ASSUME NEW q, Pending(q, recs) PROVE Pending(q, news)
  BY <1>9, <1>17, <1>18 DEF Pending, Outlived, Descends
<1>19. PICK next : next = req'
  OBVIOUS
<1>20. next[r] = D!Idle /\ (\A s \in Requests : s # r => next[s] = req[s]) /\ next = [s \in Requests |-> next[s]]
  BY <1>3, <1>19 DEF GrantInv
<1>21. \A s \in Requests : Pending(next[s], news)
  <2>1. \A s \in Requests : Pending(req[s], recs)
    BY <1>4 DEF GrantInv
  <2>2. Pending(next[r], news)
    BY <1>20 DEF Pending
  <2> QED
    BY <1>18, <1>20, <2>1, <2>2
<1>22. RoomForAll(news, now, next)
  <2>1. InFlight(next) = InFlight(req) \ {r} /\ r \in InFlight(req)
    BY <1>2, <1>20 DEF InFlight
  <2>2. Cardinality(InFlight(next)) = Cardinality(InFlight(req)) - 1
    BY <1>12, <2>1, CountsAreFinite, FS_RemoveElement
  <2>3. Alive(news, now) \subseteq Alive(recs, now) \cup {g}
    BY <1>9 DEF Alive
  <2>4. Cardinality(Alive(news, now)) <= Cardinality(Alive(recs, now)) + 1
    <3>1. IsFiniteSet(Alive(recs, now)) /\ Cardinality(Alive(recs, now)) \in Nat
      BY <1>6, CountsAreFinite DEF StoreIsSound
    <3>2. /\ IsFiniteSet(Alive(recs, now) \cup {g})
          /\ Cardinality(Alive(recs, now) \cup {g}) <= Cardinality(Alive(recs, now)) + 1
      <4>1. PICK live : live = Alive(recs, now)
        OBVIOUS
      <4>2. IsFiniteSet(live) /\ Cardinality(live) \in Nat
        BY <3>1, <4>1
      <4>3. /\ IsFiniteSet(live \cup {g})
            /\ Cardinality(live \cup {g}) = IF g \in live THEN Cardinality(live) ELSE Cardinality(live) + 1
        BY <4>2, FS_AddElement
      <4> QED
        BY <4>1, <4>2, <4>3
    <3>3. /\ Cardinality(Alive(news, now)) <= Cardinality(Alive(recs, now) \cup {g})
          /\ Cardinality(Alive(news, now)) \in Nat /\ Cardinality(Alive(recs, now) \cup {g}) \in Nat
      BY <2>3, <3>2, FS_Subset, FS_CardinalityType
    <3> QED
      BY <3>1, <3>2, <3>3
  <2>5. /\ Cardinality(Alive(news, now)) \in Nat /\ Cardinality(Alive(recs, now)) \in Nat
        /\ Cardinality(InFlight(req)) \in Nat
    BY <1>6, <1>12, CountsAreFinite DEF StoreIsSound
  <2>6. RoomForAll(recs, now, req)
    BY <1>4 DEF GrantInv
  <2> QED
    BY <2>2, <2>4, <2>5, <2>6, Capacity DEF RoomForAll
<1> QED
  BY <1>3, <1>5, <1>16, <1>19, <1>20, <1>21, <1>22 DEF GrantInv

\* A restart drops the expired grants; what is left has all its ancestors, which live longer.
LEMMA RestartKeeps ==
  ASSUME GrantInv, D!Restart
  PROVE  GrantInv'
<1>1. PICK recs, lines, news : recs = byId /\ lines = line /\ news = byId'
  OBVIOUS
<1>2. /\ agents' \in [Agents -> Confs \cup {Gone}]
      /\ news = [g \in D!Unexpired |-> recs[g]] /\ D!Unexpired = {g \in DOMAIN recs : recs[g].expires > now}
      /\ req' = [r \in Requests |-> D!Idle] /\ now' = now /\ line' = lines
  BY <1>1 DEF D!Restart, D!Unexpired
<1>3. StoreIsSound(recs, lines) /\ now \in Nat
  BY <1>1 DEF GrantInv
<1> DEFINE S == D!Unexpired
<1> HIDE DEF S
<1>4. S = {g \in DOMAIN recs : recs[g].expires > now}
  BY <1>2 DEF S
<1>5. S \subseteq DOMAIN recs /\ DOMAIN news = S /\ \A h \in S : news[h] = recs[h]
  BY <1>2 DEF S
<1>6. ASSUME NEW h \in S PROVE recs[h].parent \in S \cup {None}
  <2>1. PICK hops : hops = HopsIn(recs, h) /\ SoundHops(recs, lines, h, hops)
    BY <1>3, <1>5, <1>6 DEF StoreIsSound, ChainIsSound
  <2>2. recs[h].parent # None =>
          recs[h].parent \in DOMAIN recs /\ recs[h].expires <= recs[recs[h].parent].expires
    BY <2>1 DEF SoundHops
  <2>3. \A k \in DOMAIN recs : recs[k].expires \in Nat
    BY <1>3 DEF StoreIsSound
  <2> QED
    BY <1>3, <1>4, <1>6, <2>2, <2>3
<1>7. Shared(recs, news, S)
  BY <1>3, <1>5, <1>6 DEF Shared, StoreIsSound, Closed
<1>8. Closed(news) /\ DOMAIN news \subseteq DOMAIN lines
  BY <1>3, <1>5, <1>6 DEF StoreIsSound, Closed
<1>9. IsFiniteSet(DOMAIN news)
  BY <1>3, <1>5, FS_Subset DEF StoreIsSound
<1>10. \A h \in S : ChainIsSound(news, lines, h)
  BY <1>3, <1>5, <1>7, SoundStays, Capacity DEF StoreIsSound
<1>11. StoreIsSound(news, lines)
  BY <1>3, <1>5, <1>8, <1>9, <1>10 DEF StoreIsSound
<1>12. PICK next : next = req'
  OBVIOUS
<1>13. next = [r \in Requests |-> D!Idle] /\ InFlight(next) = {}
  BY <1>2, <1>12 DEF InFlight
<1>14. RoomForAll(news, now, next)
  <2>1. RoomForAll(recs, now, req) /\ Cardinality({}) = 0
    BY <1>1, FS_EmptySet DEF GrantInv
  <2>2. Alive(news, now) \subseteq Alive(recs, now)
    BY <1>5 DEF Alive
  <2>3. IsFiniteSet(DOMAIN recs)
    BY <1>3 DEF StoreIsSound
  <2>4. Cardinality(Alive(news, now)) <= Cardinality(Alive(recs, now))
    BY <2>2, <2>3, FewerAreAlive
  <2>5. /\ Cardinality(Alive(news, now)) \in Nat /\ Cardinality(Alive(recs, now)) \in Nat
        /\ Cardinality(InFlight(req)) \in Nat
    BY <1>9, <2>3, CountsAreFinite
  <2> QED
    BY <1>13, <2>1, <2>4, <2>5, Capacity DEF RoomForAll
<1>15. \A r \in Requests : Pending(next[r], news)
  BY <1>13 DEF Pending
<1>16. next = [r \in Requests |-> next[r]]
  BY <1>13
<1> QED
  BY <1>1, <1>2, <1>3, <1>11, <1>12, <1>14, <1>15, <1>16 DEF GrantInv

\* Time passes: fewer grants are alive.
LEMMA TickKeeps ==
  ASSUME GrantInv, D!Tick
  PROVE  GrantInv'
<1>1. PICK recs, later : recs = byId /\ later = now'
  OBVIOUS
<1>2. later = now + 1 /\ UNCHANGED <<agents, byId, req, line>> /\ now \in Nat
  BY <1>1 DEF D!Tick, GrantInv
<1>3. StoreIsSound(recs, line) /\ RoomForAll(recs, now, req)
  BY <1>1 DEF GrantInv
<1>4. Alive(recs, later) \subseteq Alive(recs, now)
  BY <1>2, <1>3 DEF Alive, StoreIsSound
<1>5. IsFiniteSet(DOMAIN recs)
  BY <1>3 DEF StoreIsSound
<1>6. Cardinality(Alive(recs, later)) <= Cardinality(Alive(recs, now))
  BY <1>4, <1>5, FewerAreAlive
<1>7. RoomForAll(recs, later, req)
  BY <1>3, <1>5, <1>6, CountsAreFinite, Capacity DEF RoomForAll
<1> QED
  BY <1>1, <1>2, <1>3, <1>7 DEF GrantInv

\* Every step of the sub-tokens keeps the invariant.
LEMMA GrantStep ==
  ASSUME GrantInv, [D!Next]_grantVars
  PROVE  GrantInv'
<1>1. ASSUME NEW r \in Requests, D!AuthAgent(r) PROVE GrantInv'
  <2>1. PICK a \in Agents : ~D!AtCapacity /\ D!Await(r, [root |-> a, parent |-> None, profile |-> agents[a].profile])
    BY <1>1 DEF D!AuthAgent
  <2>2. PICK q : /\ q = [step |-> "body", mint |-> [root |-> a, parent |-> None, profile |-> agents[a].profile]]
                 /\ req' = [req EXCEPT ![r] = q]
    BY <2>1 DEF D!Await
  <2>3. Pending(q, byId)
    BY <2>2 DEF Pending, Descends
  <2> QED
    BY <1>1, <2>1, <2>2, <2>3, RequestKeeps DEF D!AuthAgent
<1>2. ASSUME NEW r \in Requests, D!AuthGrant(r) PROVE GrantInv'
  <2>1. PICK g \in DOMAIN byId :
          /\ D!Accepted(g) /\ D!Cardinality(D!ChainById(g)) < MaxDepth /\ ~D!AtCapacity
          /\ D!Await(r, [root |-> byId[g].root, parent |-> g,
                         profile |-> byId[D!TopOf(D!ChainById(g))].profile])
    BY <1>2 DEF D!AuthGrant
  <2>2. D!ChainById(g) # {}
    BY <2>1 DEF D!Accepted, D!Resolves
  <2>3. byId[D!TopOf(D!ChainById(g))].profile = byId[g].profile /\ D!ChainById(g) = HopsIn(byId, g)
    BY <2>2, ChainOfAccepted
  <2>4. PICK q : /\ q = [step |-> "body", mint |-> [root |-> byId[g].root, parent |-> g, profile |-> byId[g].profile]]
                 /\ req' = [req EXCEPT ![r] = q]
    BY <2>1, <2>3 DEF D!Await
  <2>5. byId[g].root \in Agents /\ Cardinality(HopsIn(byId, g)) < MaxDepth
    BY <2>1, <2>3, SameCount DEF GrantInv, StoreIsSound
  <2>6. Pending(q, byId)
    BY <2>4, <2>5 DEF Pending, Descends
  <2> QED
    BY <1>2, <2>1, <2>4, <2>6, RequestKeeps DEF D!AuthGrant
<1>3. ASSUME NEW r \in Requests, D!Body(r) PROVE GrantInv'
  <2> DEFINE m == req[r].mint
  <2>1. Descends(m, byId) /\ req[r] # D!Idle /\ now \in Nat
    BY <1>3 DEF D!Body, GrantInv, Pending, D!Idle
  <2>2. CASE m.parent # None /\ ~D!Present(m.parent)
    <3>1. req' = [req EXCEPT ![r] = D!Idle] /\ Pending(D!Idle, byId)
      BY <1>3, <2>2 DEF D!Body, Pending
    <3> QED
      BY <1>3, <2>1, <3>1, RequestKeeps DEF D!Body
  <2>3. CASE ~(m.parent # None /\ ~D!Present(m.parent))
    <3>1. PICK s \in Scopes, ttl \in 1 .. MaxTtl : D!Hash(r, m, s, D!Expiry(m.parent, ttl))
      BY <1>3, <2>3 DEF D!Body
    <3>2. PICK e : e = D!Expiry(m.parent, ttl)
      OBVIOUS
    <3>3. e \in Nat /\ (m.parent # None => e <= byId[m.parent].expires)
      <4>1. now + ttl \in Nat
        BY <2>1, Capacity
      <4>2. m.parent # None => byId[m.parent].expires \in Nat
        BY <2>1 DEF Descends, GrantInv, StoreIsSound
      <4> QED
        BY <3>2, <4>1, <4>2 DEF D!Expiry
    <3>4. PICK q : /\ q = [step |-> "hash", grant |-> [root |-> m.root, parent |-> m.parent, profile |-> m.profile,
                                                        scope |-> s, expires |-> e]]
                   /\ req' = [req EXCEPT ![r] = q]
      BY <3>1, <3>2 DEF D!Hash
    <3>5. Descends(q.grant, byId) /\ Outlived(q.grant, byId)
      BY <2>1, <3>3, <3>4 DEF Descends, Outlived
    <3>6. Pending(q, byId)
      BY <3>4, <3>5 DEF Pending
    <3> QED
      BY <1>3, <2>1, <3>4, <3>6, RequestKeeps DEF D!Body
  <2> QED
    BY <2>2, <2>3
<1>4. ASSUME NEW r \in Requests, D!AdminMint(r) PROVE GrantInv'
  <2>1. PICK a \in Agents, s \in Scopes, ttl \in 1 .. MaxTtl :
          D!Hash(r, [root |-> a, parent |-> None, profile |-> agents[a].profile], s, now + ttl)
    BY <1>4 DEF D!AdminMint
  <2>2. now + ttl \in Nat
    BY Capacity DEF GrantInv
  <2>3. PICK q : /\ q = [step |-> "hash", grant |-> [root |-> a, parent |-> None, profile |-> agents[a].profile,
                                                      scope |-> s, expires |-> now + ttl]]
                 /\ req' = [req EXCEPT ![r] = q]
    BY <2>1 DEF D!Hash
  <2>4. Pending(q, byId)
    BY <2>2, <2>3 DEF Pending, Descends, Outlived
  <2> QED
    BY <1>4, <2>3, <2>4, RequestKeeps DEF D!AdminMint
<1>5. ASSUME NEW r \in Requests, D!Store(r) PROVE GrantInv'
  BY <1>5, StoreKeeps
<1>6. CASE D!Revoke \/ D!Restore \/ UNCHANGED grantVars
  BY <1>6 DEF D!Revoke, D!Restore, grantVars, GrantInv
<1>7. CASE D!AddAgent
  <2>1. agents' \in [Agents -> Confs \cup {Gone}] /\ UNCHANGED <<byId, now, req, line>>
    BY <1>7 DEF D!AddAgent, GrantInv
  <2> QED
    BY <2>1 DEF GrantInv
<1>8. CASE D!Restart
  BY <1>8, RestartKeeps
<1>9. CASE D!Tick
  BY <1>9, TickKeeps
<1>10. D!Next \/ UNCHANGED grantVars
  BY DEF grantVars, D!vars
<1> QED
  BY <1>1, <1>2, <1>3, <1>4, <1>5, <1>6, <1>7, <1>8, <1>9, <1>10 DEF D!Next

-------------------------------------------------------------------------------
(* What it means for the sub-tokens. *)

\* What has not expired descends from nothing that has, and resolves.
LEMMA AliveResolves ==
  ASSUME GrantInv, NEW g \in DOMAIN byId, byId[g].expires > now
  PROVE  D!ChainById(g) # {}
<1>1. PICK hops : hops = HopsIn(byId, g) /\ SoundHops(byId, line, g, hops)
  BY DEF GrantInv, StoreIsSound, ChainIsSound
<1>2. Climb(byId, g)[MaxDepth] = None
  <2>1. Cardinality(hops) <= MaxDepth /\ MaxDepth \in 0 .. MaxDepth
    BY <1>1, Capacity DEF SoundHops
  <2> QED
    BY <1>1, <2>1 DEF SoundHops
<1>3. \A h \in hops : D!Present(h)
  <2>1. \A h \in hops : h \in DOMAIN byId /\ byId[g].expires <= byId[h].expires
    BY <1>1 DEF SoundHops
  <2>2. now \in Nat /\ \A h \in DOMAIN byId : byId[h].expires \in Nat
    BY DEF GrantInv, StoreIsSound
  <2> QED
    BY <2>1, <2>2 DEF D!Present
<1>4. D!ChainById(g) = hops
  BY <1>1, <1>2, <1>3, UpIsClimb DEF D!ChainById
<1> QED
  BY <1>1, <1>4 DEF SoundHops

\* The line of an accepted grant is its root and its hops, and dispatch looks up all of them.
LEMMA Cascades ==
  ASSUME GrantInv PROVE D!CascadeHolds
<1> SUFFICES ASSUME NEW g \in DOMAIN byId, D!Accepted(g) PROVE line[g] \cap revoked = {}
  BY DEF D!CascadeHolds
<1>1. PICK hops : hops = HopsIn(byId, g) /\ SoundHops(byId, line, g, hops)
  BY DEF GrantInv, StoreIsSound, ChainIsSound
<1>2. D!ChainById(g) = hops
  BY <1>1, ChainOfAccepted DEF D!Accepted, D!Resolves
<1>3. byId[g].root \notin revoked /\ hops \cap revoked = {}
  BY <1>2 DEF D!Accepted, D!CutOff
<1> QED
  BY <1>1, <1>3 DEF SoundHops

\* The chain of a parent is part of the chain of its child, under the same root and profile.
LEMMA ParentReachesMore ==
  ASSUME GrantInv PROVE D!NarrowerThanItsParent
<1> SUFFICES ASSUME NEW g \in DOMAIN byId, byId[g].parent # None, D!Accepted(g)
             PROVE  D!Accepted(byId[g].parent) /\ D!Reach(g) \subseteq D!Reach(byId[g].parent)
  BY DEF D!NarrowerThanItsParent
<1>1. PICK p : p = byId[g].parent
  OBVIOUS
<1>2. PICK hops : hops = HopsIn(byId, g) /\ SoundHops(byId, line, g, hops)
  BY DEF GrantInv, StoreIsSound, ChainIsSound
<1>3. D!ChainById(g) # {} /\ D!ChainById(g) = hops /\ byId[D!TopOf(D!ChainById(g))].profile = byId[g].profile
  BY <1>2, ChainOfAccepted DEF D!Accepted, D!Resolves
<1>4. p \in hops /\ p \in DOMAIN byId /\ HopsIn(byId, p) \subseteq hops
  BY <1>1, <1>2 DEF SoundHops
<1>5. byId[p].root = byId[g].root /\ byId[p].profile = byId[g].profile
  BY <1>2, <1>4 DEF SoundHops
<1>6. \A h \in hops : D!Present(h)
  BY <1>2, <1>3, UpIsClimb DEF D!ChainById
<1>7. D!ChainById(p) # {}
  BY <1>4, <1>6, AliveResolves DEF D!Present
<1>8. D!ChainById(p) = HopsIn(byId, p) /\ byId[D!TopOf(D!ChainById(p))].profile = byId[p].profile
  BY <1>4, <1>7, ChainOfAccepted
<1>9. D!Accepted(p)
  BY <1>3, <1>4, <1>5, <1>7, <1>8 DEF D!Accepted, D!Resolves, D!CutOff
<1>10. D!Reach(g) \subseteq D!Reach(p)
  BY <1>3, <1>4, <1>5, <1>8 DEF D!Reach
<1> QED
  BY <1>1, <1>9, <1>10

\* An accepted sub-token has a live agent, whose scope of today bounds it.
LEMMA AgentReachesMore ==
  ASSUME GrantInv PROVE D!WithinItsAgent
<1> SUFFICES ASSUME NEW g \in DOMAIN byId, D!Accepted(g)
             PROVE  /\ agents[byId[g].root] \in {c \in Confs : c.expires = Never \/ c.expires > now}
                    /\ \A xt \in D!Reach(g) : D!WithinAgent(byId[g].root, xt[1], xt[2])
  BY DEF D!WithinItsAgent
<1>1. PICK a : a = byId[g].root
  OBVIOUS
<1>2. a \in Agents /\ agents[a] \in Confs \cup {Gone} /\ now \in Nat
  BY <1>1 DEF GrantInv, StoreIsSound
<1>3. agents[a] # Gone /\ ~(agents[a].expires # Never /\ agents[a].expires <= now)
  BY <1>1 DEF D!Accepted, D!Resolves, D!AgentLives
<1>4. agents[a].expires = Never \/ agents[a].expires \in Nat
  <2>1. agents[a].expires \in D!Times \cup {Never}
    BY <1>2, <1>3, ConfsAreSound DEF D!ConfAssumption, D!Conf
  <2> QED
    BY <2>1 DEF D!Times
<1>5. \A xt \in D!Reach(g) : D!WithinAgent(byId[g].root, xt[1], xt[2])
  BY DEF D!Reach
<1> QED
  BY <1>1, <1>2, <1>3, <1>4, <1>5

\* The capacity is passed by the mints in flight at most.
LEMMA FewEnoughLive ==
  ASSUME GrantInv PROVE D!LiveIsBounded
<1>1. RoomForAll(byId, now, req) /\ IsFiniteSet(DOMAIN byId)
  BY DEF GrantInv, StoreIsSound
<1>2. Cardinality(Alive(byId, now)) <= MaxActive + Cardinality(Requests) - 1
  BY <1>1, CountsAreFinite, Capacity DEF RoomForAll
<1> QED
  BY <1>2, SameCount DEF D!LiveIsBounded, Alive

\* The invariant of the sub-tokens holds throughout.
LEMMA GrantsStayInv == AccessSpec => []GrantInv
<1>1. AccessInit => GrantInv
  BY GrantsStart DEF AccessInit
<1>2. GrantInv /\ [OfOperators(Next) \/ OfAgents(D!Next)]_<<subject, vars, grantVars>> => GrantInv'
  <2> SUFFICES ASSUME GrantInv, [OfOperators(Next) \/ OfAgents(D!Next)]_<<subject, vars, grantVars>>
               PROVE  GrantInv'
    OBVIOUS
  <2>1. [D!Next]_grantVars
    BY DEF OfOperators, OfAgents
  <2> QED
    BY <2>1, GrantStep
<1> QED
  BY <1>1, <1>2, PTL DEF AccessSpec

\* A sub-token is refused once anything it descends from is cut off, reaches no more than its
\* parent or than its agent's scope of today, and there are never more than the capacity and the
\* mints in flight: for any agents, grants, scopes, depth and capacity.
THEOREM AttenuationStays == AccessSpec => []AttenuationHolds
<1>1. GrantInv => AttenuationHolds
  BY Cascades, ParentReachesMore, AgentReachesMore, FewEnoughLive DEF AttenuationHolds
<1> QED
  BY <1>1, GrantsStayInv, PTL

\* A grant that has not expired resolves to its whole chain, however deep the cap allows it.
THEOREM GrantsStayLive == AccessSpec => []GrantsLiveOut
<1>1. GrantInv => GrantsLiveOut
  BY AliveResolves DEF GrantsLiveOut, D!NoDeadBranch
<1> QED
  BY <1>1, GrantsStayInv, PTL

-------------------------------------------------------------------------------
(* The operators' tokens. *)

TokensTyped ==
  /\ records \in Seq(TokenRecord) /\ file \in Seq(TokenRecord) /\ faults \in Nat
  /\ call = [c \in Calls |-> call[c]]
  /\ \A c \in Calls : call[c].name \in Names \cup {Bootstrap} /\ call[c].role \in Roles

Distinct(recs) == \A i, j \in DOMAIN recs : recs[i].secret = recs[j].secret => i = j

\* old is what new has been: the first of its records, the same but for what was revoked since.
IsOlder(old, new) ==
  /\ Len(old) <= Len(new)
  /\ \A i \in DOMAIN old :
       /\ old[i].secret = new[i].secret /\ old[i].name = new[i].name
       /\ old[i].revoked => new[i].revoked

CutIn(recs, ks) == \A k \in ks : \E i \in DOMAIN recs : recs[i].secret = k /\ recs[i].revoked
HeldIn(recs, ks) == \A k \in ks : \E i \in DOMAIN recs : recs[i].secret = k

\* The name a secret acts under, for as long as its record is there.
Label(recs, s) == IF s = Boot THEN Bootstrap ELSE recs[CHOOSE i \in DOMAIN recs : recs[i].secret = s].name

VotesAreNamed(recs, names, ks) ==
  /\ IsFiniteSet(ks) /\ \A s \in ks : s = Boot \/ HeldIn(recs, {s})
  /\ names = {Label(recs, s) : s \in ks}

TokenInv ==
  /\ TokensTyped /\ Distinct(records) /\ IsOlder(file, records)
  /\ CutIn(file, cut) /\ HeldIn(file, issued)
  /\ VotesAreNamed(records, votes, voters)

\* What a list of tokens becomes: nothing is lost or renamed, and no revocation undone.
LEMMA VotesStay ==
  ASSUME NEW old, NEW new, old \in Seq(TokenRecord), new \in Seq(TokenRecord),
         IsOlder(old, new), Distinct(new), NEW names, NEW ks, VotesAreNamed(old, names, ks)
  PROVE  VotesAreNamed(new, names, ks)
<1>1. DOMAIN old \subseteq DOMAIN new
  BY DEF IsOlder
<1>2. ASSUME NEW s \in ks PROVE (s = Boot \/ HeldIn(new, {s})) /\ Label(new, s) = Label(old, s)
  <2>1. CASE s = Boot
    BY <2>1 DEF Label
  <2>2. CASE s # Boot
    <3>1. \E i \in DOMAIN old : old[i].secret = s
      BY <2>2 DEF VotesAreNamed, HeldIn
    <3>2. PICK i : i = CHOOSE n \in DOMAIN old : old[n].secret = s
      OBVIOUS
    <3>3. i \in DOMAIN old /\ old[i].secret = s
      BY <3>1, <3>2
    <3>4. i \in DOMAIN new /\ new[i].secret = s /\ new[i].name = old[i].name
      BY <1>1, <3>3 DEF IsOlder
    <3>5. \A n \in DOMAIN new : new[n].secret = s => n = i
      BY <3>4 DEF Distinct
    <3>6. (CHOOSE n \in DOMAIN new : new[n].secret = s) = i
      BY <3>4, <3>5
    <3> QED
      BY <2>2, <3>2, <3>4, <3>6 DEF Label, HeldIn
  <2> QED
    BY <2>1, <2>2
<1>3. {Label(new, s) : s \in ks} = {Label(old, s) : s \in ks}
  BY <1>2
<1> QED
  BY <1>2, <1>3 DEF VotesAreNamed

\* What is cut or held in a list is so in what the list becomes.
LEMMA KeptIsKept ==
  ASSUME NEW old, NEW new, old \in Seq(TokenRecord), new \in Seq(TokenRecord), IsOlder(old, new), NEW ks
  PROVE  (CutIn(old, ks) => CutIn(new, ks)) /\ (HeldIn(old, ks) => HeldIn(new, ks))
<1>1. DOMAIN old \subseteq DOMAIN new
  BY DEF IsOlder
<1> QED
  BY <1>1 DEF IsOlder, CutIn, HeldIn

\* Older than older.
LEMMA OlderStill ==
  ASSUME NEW a \in Seq(TokenRecord), NEW b \in Seq(TokenRecord), NEW c \in Seq(TokenRecord),
         IsOlder(a, b), IsOlder(b, c)
  PROVE  IsOlder(a, c)
<1>1. DOMAIN a \subseteq DOMAIN b
  BY DEF IsOlder
<1> QED
  BY <1>1 DEF IsOlder

\* No token has been made.
LEMMA TokensStart == Init => TokenInv
<1> SUFFICES ASSUME Init PROVE TokenInv
  OBVIOUS
<1>1. /\ records = << >> /\ file = << >> /\ faults = 0 /\ votes = {} /\ voters = {} /\ issued = {} /\ cut = {}
      /\ call = [c \in Calls |-> Idle]
  BY DEF Init
<1>2. TokensTyped
  BY <1>1 DEF TokensTyped, Idle, Roles
<1>3. VotesAreNamed(records, votes, voters)
  BY <1>1, FS_EmptySet DEF VotesAreNamed
<1>4. Distinct(records) /\ IsOlder(file, records) /\ CutIn(file, cut) /\ HeldIn(file, issued)
  BY <1>1 DEF Distinct, IsOlder, CutIn, HeldIn
<1> QED
  BY <1>2, <1>3, <1>4 DEF TokenInv

\* A write: the file takes the new list, or keeps the old and the fault is counted.
LEMMA SaveKeeps ==
  ASSUME TokenInv, NEW changed \in Seq(TokenRecord), Save(changed), Distinct(changed), IsOlder(records, changed),
         NEW ks, NEW ls, (Saved => CutIn(changed, ks) /\ HeldIn(changed, ls)),
         cut' = (IF Saved THEN cut \cup ks ELSE cut), issued' = (IF Saved THEN issued \cup ls ELSE issued),
         UNCHANGED <<votes, voters>>,
         call' = [c \in Calls |-> call'[c]],
         \A c \in Calls : call'[c].name \in Names \cup {Bootstrap} /\ call'[c].role \in Roles
  PROVE  TokenInv'
<1>1. /\ TokensTyped /\ IsOlder(file, records) /\ CutIn(file, cut) /\ HeldIn(file, issued)
      /\ VotesAreNamed(records, votes, voters)
  BY DEF TokenInv
<1>2. records' = changed /\ ((file' = changed /\ faults' = faults) \/ (faults' = faults + 1 /\ file' = file))
  BY DEF Save
<1>3. IsOlder(file, changed) /\ file \in Seq(TokenRecord) /\ records \in Seq(TokenRecord) /\ faults \in Nat
  BY <1>1, OlderStill DEF TokensTyped
<1>4. IsOlder(changed, changed)
  BY DEF IsOlder
<1>5. VotesAreNamed(changed, votes, voters)
  BY <1>1, <1>3, VotesStay
<1>6. TokensTyped'
  BY <1>2, <1>3 DEF TokensTyped
<1>7. CASE file' = changed /\ faults' = faults
  <2>1. CutIn(changed, cut) /\ HeldIn(changed, issued)
    BY <1>1, <1>3, KeptIsKept
  <2>2. CutIn(changed, cut \cup ks) /\ HeldIn(changed, issued \cup ls)
    BY <1>7, <2>1 DEF Saved, CutIn, HeldIn
  <2>3. cut' = cut \cup ks /\ issued' = issued \cup ls
    BY <1>7 DEF Saved
  <2> QED
    BY <1>2, <1>4, <1>5, <1>6, <1>7, <2>2, <2>3 DEF TokenInv
<1>8. CASE faults' = faults + 1 /\ file' = file
  <2>1. cut' = cut /\ issued' = issued
    BY <1>3, <1>8 DEF Saved
  <2> QED
    BY <1>1, <1>2, <1>3, <1>5, <1>6, <1>8, <2>1 DEF TokenInv
<1> QED
  BY <1>2, <1>7, <1>8

\* Only the open mints change.
LEMMA CallKeeps ==
  ASSUME TokenInv, NEW c \in Calls, NEW q, call' = [call EXCEPT ![c] = q],
         q.name \in Names \cup {Bootstrap}, q.role \in Roles,
         UNCHANGED <<records, file, votes, voters, issued, cut, faults>>
  PROVE  TokenInv'
<1>1. TokensTyped'
  BY DEF TokenInv, TokensTyped
<1> QED
  BY <1>1 DEF TokenInv, Distinct, IsOlder, CutIn, HeldIn, VotesAreNamed, Label

\* A new token goes to the end, under a secret no record has.
LEMMA MintStoreKeeps ==
  ASSUME TokenInv, NEW c \in Calls, MintStore(c)
  PROVE  TokenInv'
<1>1. PICK k \in Fresh :
        /\ Save(Append(records, [name |-> call[c].name, role |-> call[c].role, secret |-> k, revoked |-> FALSE]))
        /\ issued' = IF Saved THEN issued \cup {k} ELSE issued
  BY DEF MintStore
<1>2. PICK rec : rec = [name |-> call[c].name, role |-> call[c].role, secret |-> k, revoked |-> FALSE]
  OBVIOUS
<1>3. rec \in TokenRecord /\ rec.secret = k
  BY <1>1, <1>2 DEF TokenInv, TokensTyped, TokenRecord, Fresh
<1>4. records \in Seq(TokenRecord) /\ Distinct(records) /\ \A i \in DOMAIN records : records[i].secret # k
  BY <1>1 DEF TokenInv, TokensTyped, Fresh
<1>5. PICK more : more = Append(records, rec)
  OBVIOUS
<1>6. /\ more \in Seq(TokenRecord) /\ Len(more) = Len(records) + 1 /\ more[Len(records) + 1] = rec
      /\ \A i \in DOMAIN records : i \in DOMAIN more /\ more[i] = records[i]
      /\ DOMAIN more = DOMAIN records \cup {Len(records) + 1}
  BY <1>3, <1>4, <1>5
<1>7. Distinct(more)
  BY <1>3, <1>4, <1>6 DEF Distinct
<1>8. IsOlder(records, more)
  BY <1>4, <1>6 DEF IsOlder
<1>9. CutIn(more, {}) /\ HeldIn(more, {k})
  BY <1>3, <1>6 DEF CutIn, HeldIn
<1>10. cut' = (IF Saved THEN cut \cup {} ELSE cut) /\ UNCHANGED <<votes, voters>>
  BY DEF MintStore
<1>11. /\ call' = [b \in Calls |-> call'[b]]
       /\ \A b \in Calls : call'[b].name \in Names \cup {Bootstrap} /\ call'[b].role \in Roles
  BY DEF MintStore, TokenInv, TokensTyped, Idle, Roles
<1> QED
  BY <1>1, <1>2, <1>5, <1>6, <1>7, <1>8, <1>9, <1>10, <1>11, SaveKeeps

\* A revocation marks the first live record under the name, and nothing else.
LEMMA RevokeKeeps ==
  ASSUME TokenInv, NEW s, NEW n, Revoke(s, n)
  PROVE  TokenInv'
<1>1. records \in Seq(TokenRecord) /\ Distinct(records)
  BY DEF TokenInv, TokensTyped
<1>2. Min(LiveNamed(n)) \in DOMAIN records
  <2>1. LiveNamed(n) # {} /\ LiveNamed(n) \subseteq Nat /\ LiveNamed(n) \subseteq DOMAIN records
    BY <1>1 DEF Revoke, LiveNamed
  <2>2. \E i \in LiveNamed(n) : \A j \in LiveNamed(n) : i <= j
    BY <2>1, LeastNumber
  <2>3. Min(LiveNamed(n)) \in LiveNamed(n)
    BY <2>2 DEF Min
  <2> QED
    BY <2>1, <2>3
<1>3. PICK i : i = Min(LiveNamed(n))
  OBVIOUS
<1>4. PICK less : less = [records EXCEPT ![i].revoked = TRUE]
  OBVIOUS
<1>5. /\ less \in Seq(TokenRecord) /\ Len(less) = Len(records) /\ DOMAIN less = DOMAIN records
      /\ \A j \in DOMAIN records : less[j].secret = records[j].secret /\ less[j].name = records[j].name
      /\ \A j \in DOMAIN records : records[j].revoked => less[j].revoked
      /\ less[i].revoked
  <2>1. less = [records EXCEPT ![i] = [records[i] EXCEPT !.revoked = TRUE]]
    BY <1>4
  <2>2. i \in DOMAIN records /\ records[i] \in TokenRecord
    BY <1>1, <1>2, <1>3
  <2>3. PICK rec : rec = [records[i] EXCEPT !.revoked = TRUE]
    OBVIOUS
  <2>4. rec \in TokenRecord /\ rec.secret = records[i].secret /\ rec.name = records[i].name /\ rec.revoked = TRUE
    BY <2>2, <2>3 DEF TokenRecord
  <2>5. less = [records EXCEPT ![i] = rec]
    BY <2>1, <2>3
  <2> QED
    BY <1>1, <2>2, <2>4, <2>5
<1>6. Distinct(less) /\ IsOlder(records, less)
  BY <1>1, <1>5 DEF Distinct, IsOlder
<1>7. CutIn(less, {records[i].secret}) /\ HeldIn(less, {})
  BY <1>2, <1>3, <1>5 DEF CutIn, HeldIn
<1>8. /\ Save(less) /\ cut' = (IF Saved THEN cut \cup {records[i].secret} ELSE cut)
      /\ issued' = (IF Saved THEN issued \cup {} ELSE issued) /\ UNCHANGED <<call, votes, voters>>
  BY <1>3, <1>4 DEF Revoke, Revoked
<1>9. /\ call' = [b \in Calls |-> call'[b]]
      /\ \A b \in Calls : call'[b].name \in Names \cup {Bootstrap} /\ call'[b].role \in Roles
  BY <1>8 DEF TokenInv, TokensTyped
<1> QED
  BY <1>5, <1>6, <1>7, <1>8, <1>9, SaveKeeps

\* Whoever may act under a secret has its record, and acts under its name.
LEMMA ActsUnderItsName ==
  ASSUME TokenInv, NEW s, NEW need, MayAct(s, need)
  PROVE  (s = Boot \/ HeldIn(records, {s})) /\ NameOf(s) = Label(records, s)
<1>1. CASE s = Boot
  BY <1>1 DEF NameOf, Label
<1>2. CASE s # Boot
  <2>1. PICK i \in DOMAIN records : ~records[i].revoked /\ records[i].secret = s
    BY <1>2 DEF MayAct, Live, ToSet
  <2>2. \A j \in DOMAIN records : records[j].secret = s => j = i
    BY <2>1 DEF TokenInv, Distinct
  <2>3. (CHOOSE j \in DOMAIN records : records[j].secret = s) = i
    BY <2>1, <2>2
  <2>4. records[i] \in Live /\ \A rec \in Live : rec.secret = s => rec = records[i]
    BY <2>1, <2>2 DEF Live, ToSet
  <2>5. (CHOOSE rec \in Live : rec.secret = s) = records[i]
    BY <2>1, <2>4
  <2>6. HeldIn(records, {s})
    BY <2>1 DEF HeldIn
  <2>7. NameOf(s) = records[i].name
    BY <1>2, <2>5 DEF NameOf
  <2>8. Label(records, s) = records[i].name
    BY <1>2, <2>3 DEF Label
  <2> QED
    BY <2>6, <2>7, <2>8
<1> QED
  BY <1>1, <1>2

\* A vote adds the name of the secret it is cast with.
LEMMA ApproveKeeps ==
  ASSUME TokenInv, NEW s, Approve(s)
  PROVE  TokenInv'
<1>1. /\ votes' = votes \cup {NameOf(s)} /\ voters' = voters \cup {s} /\ MayAct(s, "approver")
      /\ UNCHANGED <<records, file, call, issued, cut, faults>>
  BY DEF Approve
<1>2. (s = Boot \/ HeldIn(records, {s})) /\ NameOf(s) = Label(records, s)
  BY <1>1, ActsUnderItsName
<1>3. VotesAreNamed(records, votes, voters)
  BY DEF TokenInv
<1>4. IsFiniteSet(voters \cup {s})
  BY <1>3, FS_AddElement DEF VotesAreNamed
<1>5. VotesAreNamed(records, votes \cup {NameOf(s)}, voters \cup {s})
  BY <1>2, <1>3, <1>4 DEF VotesAreNamed
<1>6. PICK names, ks : names = votes' /\ ks = voters'
  OBVIOUS
<1>7. VotesAreNamed(records, names, ks)
  BY <1>1, <1>5, <1>6
<1> QED
  BY <1>1, <1>6, <1>7 DEF TokenInv, TokensTyped

\* The memory goes back to the file, which is older but has all that was reported done.
LEMMA TokensRestart ==
  ASSUME TokenInv, Restart
  PROVE  TokenInv'
<1>1. /\ records' = file /\ call' = [c \in Calls |-> Idle] /\ votes' = {} /\ voters' = {}
      /\ UNCHANGED <<file, issued, cut, faults>>
  BY DEF Restart
<1>2. IsOlder(file, file)
  BY DEF IsOlder
<1>3. Distinct(file)
  BY DEF TokenInv, TokensTyped, IsOlder, Distinct
<1>4. VotesAreNamed(file, {}, {})
  BY FS_EmptySet DEF VotesAreNamed
<1>5. TokensTyped'
  BY <1>1 DEF TokenInv, TokensTyped, Idle, Roles
<1> QED
  BY <1>1, <1>2, <1>3, <1>4, <1>5 DEF TokenInv

\* Every step of the operators' tokens keeps the invariant.
LEMMA TokenStep ==
  ASSUME TokenInv, [Next]_vars
  PROVE  TokenInv'
<1>1. ASSUME NEW c \in Calls, MintCheck(c) PROVE TokenInv'
  <2>1. PICK q : /\ q = (IF LiveNamed(call[c].name) = {} THEN [call[c] EXCEPT !.at = "hash"] ELSE Idle)
                 /\ call' = [call EXCEPT ![c] = q]
    BY <1>1 DEF MintCheck
  <2>2. q.name \in Names \cup {Bootstrap} /\ q.role \in Roles
    BY <2>1 DEF TokenInv, TokensTyped, Idle, Roles
  <2> QED
    BY <1>1, <2>1, <2>2, CallKeeps DEF MintCheck
<1>2. ASSUME NEW c \in Calls, MintStore(c) PROVE TokenInv'
  BY <1>2, MintStoreKeeps
<1>3. ASSUME NEW s, Approve(s) PROVE TokenInv'
  BY <1>3, ApproveKeeps
<1>4. ASSUME NEW s, NEW n, Revoke(s, n) PROVE TokenInv'
  BY <1>4, RevokeKeeps
<1>5. ASSUME NEW c \in Calls, NEW s, NEW n \in Names \cup {Bootstrap}, NEW r \in Roles, MintOpen(c, s, n, r)
      PROVE  TokenInv'
  <2>1. PICK q : q = [at |-> "body", who |-> s, name |-> n, role |-> r] /\ call' = [call EXCEPT ![c] = q]
    BY <1>5 DEF MintOpen
  <2>2. q.name \in Names \cup {Bootstrap} /\ q.role \in Roles
    BY <2>1
  <2>3. UNCHANGED <<records, file, votes, voters, issued, cut, faults>>
    BY <1>5 DEF MintOpen
  <2> QED
    BY <2>1, <2>2, <2>3, CallKeeps
<1>6. CASE Restart
  BY <1>6, TokensRestart
<1>7. CASE UNCHANGED vars
  <2>1. UNCHANGED <<records, file, call, votes, voters, issued, cut, faults>>
    BY <1>7 DEF vars
  <2>2. TokensTyped'
    BY <2>1 DEF TokenInv, TokensTyped
  <2>3. Distinct(records)' /\ IsOlder(file, records)' /\ CutIn(file, cut)' /\ HeldIn(file, issued)'
    BY <2>1 DEF TokenInv, Distinct, IsOlder, CutIn, HeldIn
  <2>4. VotesAreNamed(records, votes, voters)'
    BY <2>1 DEF TokenInv, VotesAreNamed, Label, HeldIn
  <2> QED
    BY <2>2, <2>3, <2>4 DEF TokenInv
<1> QED
  BY <1>1, <1>2, <1>3, <1>4, <1>5, <1>6, <1>7 DEF Next

\* What the invariant means for the operators: a vote per name is a vote per secret.
LEMMA TokensHonoured ==
  ASSUME TokenInv PROVE TokensAreHonoured
<1>1. RevokedStaysOut
  <2> SUFFICES ASSUME NEW k \in cut, MayAct(k, "viewer") PROVE FALSE
    BY DEF RevokedStaysOut
  <2>1. PICK i \in DOMAIN file : file[i].secret = k /\ file[i].revoked
    BY DEF TokenInv, CutIn
  <2>2. i \in DOMAIN records /\ records[i].secret = k /\ records[i].revoked
    BY <2>1 DEF TokenInv, TokensTyped, IsOlder
  <2>3. k # Boot
    <3>1. file[i] \in TokenRecord
      BY <2>1 DEF TokenInv, TokensTyped
    <3>2. file[i].secret \in Secrets
      BY <3>1 DEF TokenRecord
    <3> QED
      BY <2>1, <3>2, BootAssumption
  <2>4. PICK j \in DOMAIN records : records[j].secret = k /\ ~records[j].revoked
    BY <2>3 DEF MayAct, Live, ToSet
  <2> QED
    BY <2>2, <2>4 DEF TokenInv, Distinct
<1>2. IssuedWorks
  <2> SUFFICES ASSUME NEW k \in issued, \A i \in DOMAIN records : records[i].secret = k => ~records[i].revoked
               PROVE  MayAct(k, "viewer")
    BY DEF IssuedWorks
  <2>1. PICK i \in DOMAIN file : file[i].secret = k
    BY DEF TokenInv, HeldIn
  <2>2. i \in DOMAIN records /\ records[i].secret = k /\ records[i] \in TokenRecord
    BY <2>1 DEF TokenInv, TokensTyped, IsOlder
  <2>3. records[i] \in Live
    BY <2>2 DEF Live, ToSet
  <2>4. Rank(records[i].role) >= Rank("viewer")
    <3>1. records[i].role \in {"viewer", "approver", "admin"}
      BY <2>2 DEF TokenRecord, Roles
    <3> QED
      BY <3>1 DEF Rank
  <2> QED
    BY <2>2, <2>3, <2>4 DEF MayAct
<1>3. QuorumNeedsTokens
  <2>1. VotesAreNamed(records, votes, voters)
    BY DEF TokenInv
  <2>2. PICK f : f = [s \in voters |-> Label(records, s)]
    OBVIOUS
  <2>3. f \in Surjection(voters, votes)
    BY <2>1, <2>2 DEF VotesAreNamed, Surjection
  <2>4. IsFiniteSet(votes) /\ Cardinality(votes) <= Cardinality(voters)
    BY <2>1, <2>3, FS_Surjection DEF VotesAreNamed
  <2>5. Cardinality(votes) \in Nat /\ Cardinality(voters) \in Nat
    BY <2>1, <2>4, FS_CardinalityType DEF VotesAreNamed
  <2> QED
    BY <2>4, <2>5, QuorumAssumption DEF QuorumNeedsTokens, Decided
<1> QED
  BY <1>1, <1>2, <1>3 DEF TokensAreHonoured

\* A revocation reported done stays done and a token shown works until it is revoked, whatever
\* write the disk refuses and over restarts; and a quorum has as many tokens behind it.
THEOREM TokensStayHonoured == AccessSpec => []TokensAreHonoured
<1>1. AccessInit => TokenInv
  BY TokensStart DEF AccessInit
<1>2. TokenInv /\ [OfOperators(Next) \/ OfAgents(D!Next)]_<<subject, vars, grantVars>> => TokenInv'
  <2> SUFFICES ASSUME TokenInv, [OfOperators(Next) \/ OfAgents(D!Next)]_<<subject, vars, grantVars>>
               PROVE  TokenInv'
    OBVIOUS
  <2>1. [Next]_vars
    BY DEF OfOperators, OfAgents
  <2> QED
    BY <2>1, TokenStep
<1>3. TokenInv => TokensAreHonoured
  BY TokensHonoured
<1> QED
  BY <1>1, <1>2, <1>3, PTL DEF AccessSpec

===============================================================================
