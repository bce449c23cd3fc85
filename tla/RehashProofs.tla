----------------------------- MODULE RehashProofs -----------------------------
(***************************************************************************)
(* Proofs about Rehash, and about Modules below it, for any modules,       *)
(* declarations and configurations: what daemon and modules know of each   *)
(* other agrees, every module that runs is in the list, modules leave in   *)
(* the order opposite to that they came in, and a rehash that got through  *)
(* leaves what its file says.                                              *)
(*                                                                         *)
(* None of these is inductive alone.  Modules.  The owner of a client has  *)
(* to be one of its list, and no two declarations of a list share a        *)
(* command: Agreed.  Ids were given in order, so that the next one is new: *)
(* IdsFit.  Rehash.  The loop that unloads follows one pointer, and the    *)
(* list changes below it: every module that is up is at the pointer or     *)
(* ahead of it (CursorFits), and the modules that are up are in the list   *)
(* in the order they were loaded in (ListsFit).  The next load keeps that  *)
(* order because it appends, or, at the start, because what is still to    *)
(* load is behind all that is loaded in a list that is the file's          *)
(* (BootFits).  While the file's modules are loaded, those that are up are *)
(* the ones the loop came by, without the refused and the stuck            *)
(* (FileFits); servers and listeners are as the file has them after the    *)
(* loop that takes them over, and the others go at the end.                *)
(***************************************************************************)
EXTENDS Rehash, DataProofs

USE ModulesAssumption

(* What is in a list.                                                      *)
LEMMA InList ==
  ASSUME NEW S, NEW s \in Seq(S)
  PROVE  /\ Len(s) \in Nat /\ Elements(s) \subseteq S
         /\ s = <<>> <=> Elements(s) = {}
         /\ s = <<>> <=> Len(s) = 0
         /\ \A k \in 1 .. Len(s) : s[k] \in Elements(s)
         /\ s # <<>> => s[1] \in Elements(s) /\ s[Len(s)] \in Elements(s)
<1>1. Len(s) \in Nat /\ \A k \in 1 .. Len(s) : s[k] \in S
  BY LenProperties, ElementOfSeq
<1>2. s = <<>> <=> Len(s) = 0
  BY EmptySeq, LenProperties
<1>3. s # <<>> => 1 \in 1 .. Len(s) /\ Len(s) \in 1 .. Len(s)
  BY <1>1, <1>2
<1>4. \A k \in 1 .. Len(s) : s[k] \in Elements(s)
  BY DEF Elements
<1>5. Elements(s) \subseteq S
  BY <1>1 DEF Elements
<1>6. s = <<>> => Elements(s) = {}
  BY <1>2 DEF Elements
<1> QED BY <1>1, <1>2, <1>3, <1>4, <1>5, <1>6

(* What daemon and modules know of each other (module.c).  No two          *)
(* declarations of a client share a command.                               *)
Agreed(s) ==
  /\ s = [client |-> s.client, has |-> s.has]
  /\ s.has \in [Mods -> Seq(Decls)] /\ DOMAIN s.client \subseteq Names
  /\ \A m \in Mods : NoTwice(s.has[m]) /\ \A d \in Elements(s.has[m]) : ModOf[d] = m
  /\ \A n \in DOMAIN s.client :
       /\ s.client[n].list \in Seq(Decls) /\ NoTwice(s.client[n].list)
       /\ s.client[n].owner \in Elements(s.client[n].list)
       /\ \A d \in Elements(s.client[n].list) : NameOf[d] = n
       /\ \A d, e \in Elements(s.client[n].list) :
            d # e => CommandsOf[d] \cap CommandsOf[e] = {}
  /\ \A d \in Decls :
       d \in Elements(s.has[ModOf[d]])
         <=> NameOf[d] \in DOMAIN s.client /\ d \in Elements(s.client[NameOf[d]].list)

(* Only what m has differs, and of that nothing is new but what is in D.   *)
Only(s, t, m, D) ==
  /\ Elements(t.has[m]) = D
  /\ \A o \in Mods : o # m => t.has[o] = s.has[o]

LEMMA WhatIsDone ==
  ASSUME NEW s, NEW d
  PROVE  /\ Done("add", s, d) = Added(s, d) /\ Done("delete", s, d) = Deleted(s, d)
         /\ Done("drop", s, d) = Dropped(s, d)
BY DEF Done

(* The equation of the loops over the first n of ds.                       *)
Loop(what, s, ds, n, f) ==
  f = [j \in 0 .. n |-> IF j = 0 THEN s ELSE Done(what, f[j - 1], ds[j])]

(* A loop does its work on one declaration after the other.                *)
LEMMA ThroughSteps ==
  ASSUME NEW what, NEW s, NEW ds, Len(ds) \in Nat, NEW k \in 0 .. Len(ds)
  PROVE  Through(what, s, ds, k)
           = IF k = 0 THEN s ELSE Done(what, Through(what, s, ds, k - 1), ds[k])
<1> DEFINE A == {n \in Nat : \E f : Loop(what, s, ds, n, f)}
           h == CHOOSE f : Loop(what, s, ds, Len(ds), f)
<1>1. 0 \in A
  <2>1. Loop(what, s, ds, 0, [j \in 0 .. 0 |-> s])
    BY DEF Loop
  <2> QED BY <2>1
<1>2. ASSUME NEW n \in Nat, n \in A PROVE n + 1 \in A
  <2>1. PICK f : Loop(what, s, ds, n, f)
    BY <1>2
  <2> DEFINE new == Done(what, f[n], ds[n + 1])
             g == [j \in 0 .. n + 1 |-> IF j = n + 1 THEN new ELSE f[j]]
  <2>2. \A j \in 0 .. n : f[j] = IF j = 0 THEN s ELSE Done(what, f[j - 1], ds[j])
    BY <2>1 DEF Loop
  <2>3. g[n + 1] = new /\ \A j \in 0 .. n : g[j] = f[j]
    OBVIOUS
  <2>4. n \in 0 .. n /\ (n + 1) - 1 = n /\ n + 1 # 0
    OBVIOUS
  <2>5. ASSUME NEW j \in 0 .. n + 1
        PROVE  g[j] = IF j = 0 THEN s ELSE Done(what, g[j - 1], ds[j])
    <3>1. CASE j = n + 1
      BY <2>3, <2>4, <3>1
    <3>2. CASE j # n + 1
      <4>1. j \in 0 .. n /\ (j # 0 => j - 1 \in 0 .. n)
        BY <3>2
      <4> HIDE DEF g
      <4> QED BY <2>2, <2>3, <4>1
    <3> QED BY <3>1, <3>2
  <2>6. g = [j \in 0 .. n + 1 |-> g[j]]
    OBVIOUS
  <2> HIDE DEF g
  <2>7. Loop(what, s, ds, n + 1, g)
    BY <2>5, <2>6 DEF Loop
  <2> QED BY <2>7
<1> HIDE DEF A
<1>3. Nat \subseteq A
  BY <1>1, <1>2, Induction
<1>4. \E f : Loop(what, s, ds, Len(ds), f)
  BY <1>3 DEF A
<1>5. Loop(what, s, ds, Len(ds), h)
  BY <1>4
<1>6. h[k] = IF k = 0 THEN s ELSE Done(what, h[k - 1], ds[k])
  <2> HIDE DEF h
  <2> QED BY <1>5 DEF Loop
<1>7. \A j : Through(what, s, ds, j) = h[j]
  BY DEF Through, Loop
<1> HIDE DEF h
<1> QED BY <1>6, <1>7

-----------------------------------------------------------------------------
LEMMA AddedAgrees ==
  ASSUME NEW s, Agreed(s), NEW d \in Decls, d \notin Elements(s.has[ModOf[d]]), ~ Clash(s, d)
  PROVE  /\ Agreed(Added(s, d))
         /\ Only(s, Added(s, d), ModOf[d], Elements(s.has[ModOf[d]]) \cup {d})
<1> DEFINE n == NameOf[d]
           m == ModOf[d]
           t == Added(s, d)
           old == IF n \in DOMAIN s.client THEN s.client[n]
                  ELSE [owner |-> d, list |-> <<>>]
           hs == PushFront(d, s.has[m])
           ls == PushFront(d, old.list)
<1>1. n \in Names /\ m \in Mods
  BY DEF Names
<1>2. s.has[m] \in Seq(Decls) /\ NoTwice(s.has[m])
  BY <1>1 DEF Agreed
<1>3. hs \in Seq(Decls) /\ NoTwice(hs) /\ Elements(hs) = Elements(s.has[m]) \cup {d}
  BY <1>2, PushFrontKeeps
<1>4. /\ old.list \in Seq(Decls) /\ NoTwice(old.list) /\ d \notin Elements(old.list)
      /\ old.owner \in Elements(old.list) \cup {d}
      /\ \A e \in Elements(old.list) : NameOf[e] = n /\ CommandsOf[d] \cap CommandsOf[e] = {}
      /\ \A c, e \in Elements(old.list) : c # e => CommandsOf[c] \cap CommandsOf[e] = {}
  <2>1. CASE n \in DOMAIN s.client
    BY <2>1 DEF Agreed, Clash
  <2>2. CASE n \notin DOMAIN s.client
    <3>1. old = [owner |-> d, list |-> <<>>]
      BY <2>2
    <3>2. <<>> \in Seq(Decls) /\ NoTwice(<<>>) /\ Elements(<<>>) = {}
      BY DEF NoTwice, Elements
    <3> HIDE DEF old
    <3> QED BY <3>1, <3>2
  <2> QED BY <2>1, <2>2
<1>5. n \in DOMAIN s.client => Elements(old.list) = Elements(s.client[n].list)
  OBVIOUS
<1>6. n \notin DOMAIN s.client => Elements(old.list) = {}
  BY DEF Elements
<1> HIDE DEF old
<1>7. ls \in Seq(Decls) /\ NoTwice(ls) /\ Elements(ls) = Elements(old.list) \cup {d}
  BY <1>4, PushFrontKeeps
<1> HIDE DEF hs, ls
<1> DEFINE new == [owner |-> old.owner, list |-> ls]
<1>8. t = [client |-> [x \in DOMAIN s.client \cup {n} |-> IF x = n THEN new ELSE s.client[x]],
           has |-> [s.has EXCEPT ![m] = hs]]
  BY DEF Added, ls, hs, old
<1>9. /\ new.owner = old.owner /\ new.list = ls
  OBVIOUS
<1> HIDE DEF new, t
<1>10. /\ t = [client |-> t.client, has |-> t.has]
       /\ DOMAIN t.client = DOMAIN s.client \cup {n} /\ t.client[n] = new
       /\ \A x \in DOMAIN s.client : x # n => t.client[x] = s.client[x]
       /\ t.has = [s.has EXCEPT ![m] = hs]
  BY <1>8
<1>11. /\ t.has \in [Mods -> Seq(Decls)] /\ t.has[m] = hs
       /\ \A o \in Mods : o # m => t.has[o] = s.has[o]
  BY <1>1, <1>3, <1>10 DEF Agreed
<1>12. DOMAIN t.client \subseteq Names
  BY <1>1, <1>10 DEF Agreed
<1>13. ASSUME NEW o \in Mods
       PROVE  NoTwice(t.has[o]) /\ \A e \in Elements(t.has[o]) : ModOf[e] = o
  <2>1. NoTwice(s.has[o]) /\ \A e \in Elements(s.has[o]) : ModOf[e] = o
    BY DEF Agreed
  <2>2. CASE o = m
    BY <1>3, <1>11, <2>1, <2>2
  <2>3. CASE o # m
    BY <1>11, <2>1, <2>3
  <2> QED BY <2>2, <2>3
<1>14. ASSUME NEW x \in DOMAIN t.client
       PROVE  /\ t.client[x].list \in Seq(Decls) /\ NoTwice(t.client[x].list)
              /\ t.client[x].owner \in Elements(t.client[x].list)
              /\ \A c \in Elements(t.client[x].list) : NameOf[c] = x
              /\ \A c, e \in Elements(t.client[x].list) :
                   c # e => CommandsOf[c] \cap CommandsOf[e] = {}
  <2>1. CASE x = n
    <3>1. t.client[x].list = ls /\ t.client[x].owner = old.owner
      BY <1>9, <1>10, <2>1
    <3>2. \A c \in Elements(ls) : NameOf[c] = x
      BY <1>4, <1>7, <2>1
    <3>3. \A c, e \in Elements(ls) : c # e => CommandsOf[c] \cap CommandsOf[e] = {}
      BY <1>4, <1>7
    <3>4. old.owner \in Elements(ls)
      BY <1>4, <1>7
    <3> QED BY <1>7, <3>1, <3>2, <3>3, <3>4
  <2>2. CASE x # n
    BY <1>10, <2>2 DEF Agreed
  <2> QED BY <2>1, <2>2
<1>15. ASSUME NEW e \in Decls
       PROVE  e \in Elements(t.has[ModOf[e]])
                <=> NameOf[e] \in DOMAIN t.client /\ e \in Elements(t.client[NameOf[e]].list)
  <2>1. e \in Elements(s.has[ModOf[e]])
          <=> NameOf[e] \in DOMAIN s.client /\ e \in Elements(s.client[NameOf[e]].list)
    BY DEF Agreed
  <2>2. e \in Elements(t.has[ModOf[e]]) <=> e \in Elements(s.has[ModOf[e]]) \/ e = d
    <3>1. CASE ModOf[e] = m
      BY <1>3, <1>11, <3>1
    <3>2. CASE ModOf[e] # m
      BY <1>11, <3>2
    <3> QED BY <3>1, <3>2
  <2>3. NameOf[e] \in DOMAIN t.client /\ e \in Elements(t.client[NameOf[e]].list)
          <=> (NameOf[e] \in DOMAIN s.client /\ e \in Elements(s.client[NameOf[e]].list)) \/ e = d
    <3>1. CASE NameOf[e] = n
      BY <1>5, <1>6, <1>7, <1>9, <1>10, <3>1
    <3>2. CASE NameOf[e] # n
      BY <1>10, <3>2
    <3> QED BY <3>1, <3>2
  <2> QED BY <2>1, <2>2, <2>3
<1>16. Agreed(t)
  BY <1>10, <1>11, <1>12, <1>13, <1>14, <1>15 DEF Agreed
<1> QED BY <1>3, <1>11, <1>16 DEF Only, t

LEMMA DroppedAgrees ==
  ASSUME NEW s, Agreed(s), NEW d \in Decls, d \in Elements(s.has[ModOf[d]])
  PROVE  /\ Agreed(Dropped(s, d))
         /\ Only(s, Dropped(s, d), ModOf[d], Elements(s.has[ModOf[d]]) \ {d})
<1> DEFINE n == NameOf[d]
           m == ModOf[d]
           t == Dropped(s, d)
           list == s.client[n].list
           hs == Keep(s.has[m], Decls \ {d})
           left == Keep(list, Decls \ {d})
           owner == IF s.client[n].owner = d THEN left[1] ELSE s.client[n].owner
<1>1. /\ n \in Names /\ m \in Mods /\ n \in DOMAIN s.client
      /\ s.has[m] \in Seq(Decls) /\ NoTwice(s.has[m])
      /\ list \in Seq(Decls) /\ NoTwice(list) /\ d \in Elements(list)
      /\ s.client[n].owner \in Elements(list)
      /\ \A e \in Elements(list) : NameOf[e] = n
      /\ \A c, e \in Elements(list) : c # e => CommandsOf[c] \cap CommandsOf[e] = {}
  BY DEF Names, Agreed
<1>2. Elements(s.has[m]) \subseteq Decls /\ Elements(list) \subseteq Decls
  BY <1>1, InList
<1>3. hs \in Seq(Decls) /\ NoTwice(hs) /\ Elements(hs) = Elements(s.has[m]) \ {d}
  <2>1. hs \in Seq(Decls) /\ NoTwice(hs) /\ Elements(hs) = Elements(s.has[m]) \cap (Decls \ {d})
    BY <1>1, KeepKeeps
  <2> HIDE DEF hs
  <2> QED BY <1>2, <2>1
<1> HIDE DEF list
<1>4. left \in Seq(Decls) /\ NoTwice(left) /\ Elements(left) = Elements(list) \ {d}
  <2>1. left \in Seq(Decls) /\ NoTwice(left) /\ Elements(left) = Elements(list) \cap (Decls \ {d})
    BY <1>1, KeepKeeps
  <2> HIDE DEF left
  <2> QED BY <1>2, <2>1
<1> HIDE DEF hs, left
<1>5. left # <<>> => left[1] \in Elements(left)
  BY <1>4, InList
<1>6. left # <<>> => owner \in Elements(left)
  BY <1>1, <1>4, <1>5
<1>7. left = <<>> => Elements(list) = {d}
  <2>1. Elements(<<>>) = {}
    BY DEF Elements
  <2> QED BY <1>1, <1>4, <2>1
<1> HIDE DEF owner
<1> DEFINE new == [owner |-> owner, list |-> left]
<1>8. t = [client |-> IF left = <<>> THEN [x \in DOMAIN s.client \ {n} |-> s.client[x]]
                      ELSE [s.client EXCEPT ![n] = new],
           has |-> [s.has EXCEPT ![m] = hs]]
  BY DEF Dropped, hs, left, list, owner
<1>9. new.owner = owner /\ new.list = left
  OBVIOUS
<1> HIDE DEF new, t
<1>10. /\ t = [client |-> t.client, has |-> t.has]
       /\ t.has = [s.has EXCEPT ![m] = hs]
       /\ left = <<>> => t.client = [x \in DOMAIN s.client \ {n} |-> s.client[x]]
       /\ left # <<>> => t.client = [s.client EXCEPT ![n] = new]
  BY <1>8
<1>11. /\ DOMAIN t.client = IF left = <<>> THEN DOMAIN s.client \ {n} ELSE DOMAIN s.client
       /\ left # <<>> => t.client[n] = new
       /\ \A x \in DOMAIN s.client : x # n => t.client[x] = s.client[x]
  <2>1. CASE left = <<>>
    BY <1>10, <2>1
  <2>2. CASE left # <<>>
    BY <1>1, <1>10, <2>2
  <2> QED BY <2>1, <2>2
<1>12. /\ t.has \in [Mods -> Seq(Decls)] /\ t.has[m] = hs
       /\ \A o \in Mods : o # m => t.has[o] = s.has[o]
  BY <1>1, <1>3, <1>10 DEF Agreed
<1>13. DOMAIN t.client \subseteq Names
  BY <1>11 DEF Agreed
<1>14. ASSUME NEW o \in Mods
       PROVE  NoTwice(t.has[o]) /\ \A e \in Elements(t.has[o]) : ModOf[e] = o
  <2>1. NoTwice(s.has[o]) /\ \A e \in Elements(s.has[o]) : ModOf[e] = o
    BY DEF Agreed
  <2>2. CASE o = m
    BY <1>3, <1>12, <2>1, <2>2
  <2>3. CASE o # m
    BY <1>12, <2>1, <2>3
  <2> QED BY <2>2, <2>3
<1>15. ASSUME NEW x \in DOMAIN t.client
       PROVE  /\ t.client[x].list \in Seq(Decls) /\ NoTwice(t.client[x].list)
              /\ t.client[x].owner \in Elements(t.client[x].list)
              /\ \A c \in Elements(t.client[x].list) : NameOf[c] = x
              /\ \A c, e \in Elements(t.client[x].list) :
                   c # e => CommandsOf[c] \cap CommandsOf[e] = {}
  <2>1. CASE x = n
    <3>1. left # <<>> /\ t.client[x].list = left /\ t.client[x].owner = owner
      BY <1>9, <1>11, <2>1
    <3>2. \A c \in Elements(left) : NameOf[c] = x
      BY <1>1, <1>4, <2>1
    <3>3. \A c, e \in Elements(left) : c # e => CommandsOf[c] \cap CommandsOf[e] = {}
      BY <1>1, <1>4
    <3> QED BY <1>4, <1>6, <3>1, <3>2, <3>3
  <2>2. CASE x # n
    BY <1>11, <2>2 DEF Agreed
  <2> QED BY <2>1, <2>2
<1>16. ASSUME NEW e \in Decls
       PROVE  e \in Elements(t.has[ModOf[e]])
                <=> NameOf[e] \in DOMAIN t.client /\ e \in Elements(t.client[NameOf[e]].list)
  <2>1. e \in Elements(s.has[ModOf[e]])
          <=> NameOf[e] \in DOMAIN s.client /\ e \in Elements(s.client[NameOf[e]].list)
    BY DEF Agreed
  <2>2. e \in Elements(t.has[ModOf[e]]) <=> e \in Elements(s.has[ModOf[e]]) /\ e # d
    <3>1. CASE ModOf[e] = m
      BY <1>3, <1>12, <3>1
    <3>2. CASE ModOf[e] # m
      BY <1>12, <3>2
    <3> QED BY <3>1, <3>2
  <2>3. NameOf[e] \in DOMAIN t.client /\ e \in Elements(t.client[NameOf[e]].list)
          <=> NameOf[e] \in DOMAIN s.client /\ e \in Elements(s.client[NameOf[e]].list) /\ e # d
    <3>1. CASE NameOf[e] = n /\ left = <<>>
      BY <1>7, <1>11, <3>1 DEF list
    <3>2. CASE NameOf[e] = n /\ left # <<>>
      BY <1>1, <1>4, <1>9, <1>11, <3>2 DEF list
    <3>3. CASE NameOf[e] # n
      BY <1>11, <3>3
    <3> QED BY <3>1, <3>2, <3>3
  <2> QED BY <2>1, <2>2, <2>3
<1>17. Agreed(t)
  BY <1>10, <1>12, <1>13, <1>14, <1>15, <1>16 DEF Agreed
<1> QED BY <1>3, <1>12, <1>17 DEF Only, t

LEMMA DeletedAgrees ==
  ASSUME NEW s, Agreed(s), NEW d \in Decls
  PROVE  /\ Agreed(Deleted(s, d))
         /\ \E D \in SUBSET Elements(s.has[ModOf[d]]) : Only(s, Deleted(s, d), ModOf[d], D)
<1> DEFINE m == ModOf[d]
           mine == s.has[m]
           named == {k \in 1 .. Len(mine) :
                       NameOf[s.client[NameOf[mine[k]]].owner] = NameOf[d]}
           e == mine[Min(named)]
<1>1. /\ m \in Mods /\ mine \in Seq(Decls)
      /\ \A c \in Elements(mine) : ModOf[c] = m
  BY DEF Agreed
<1>2. Deleted(s, d) = IF named = {} THEN s ELSE Dropped(s, e)
  BY DEF Deleted
<1>3. Only(s, s, m, Elements(mine))
  BY DEF Only
<1>4. ASSUME named # {}
      PROVE  /\ Agreed(Dropped(s, e))
             /\ Only(s, Dropped(s, e), m, Elements(mine) \ {e})
  <2>1. Min(named) \in named
    <3>1. Len(mine) \in Nat
      BY <1>1, LenProperties
    <3>2. named \subseteq 1 .. Len(mine)
      OBVIOUS
    <3> HIDE DEF named, mine
    <3>3. named \subseteq Nat
      BY <3>1, <3>2
    <3> QED BY <1>4, <3>3, MinIsLeast
  <2>2. Min(named) \in 1 .. Len(mine)
    BY <2>1
  <2> HIDE DEF named, mine
  <2>3. e \in Decls /\ e \in Elements(mine)
    BY <1>1, <2>2, ElementOfSeq DEF Elements
  <2>4. ModOf[e] = m
    BY <1>1, <2>3
  <2> HIDE DEF e
  <2> QED BY <2>3, <2>4, DroppedAgrees DEF mine
<1> HIDE DEF named, e
<1> QED BY <1>2, <1>3, <1>4

(* One loop after the other changes no more than both.                     *)
LEMMA OnlyAfterOnly ==
  ASSUME NEW s, NEW t, NEW u, NEW m, NEW D, NEW E, Only(s, t, m, D), Only(t, u, m, E)
  PROVE  Only(s, u, m, E)
BY DEF Only

LEMMA CleanedAgrees ==
  ASSUME NEW s, Agreed(s), NEW m \in Mods
  PROVE  Agreed(Cleaned(s, m)) /\ Only(s, Cleaned(s, m), m, {})
<1> DEFINE ds == s.has[m]
           n == Len(ds)
           T(k) == Through("drop", s, ds, k)
           left(k) == {ds[i] : i \in k + 1 .. n}
           A == {k \in Nat : k <= n => Agreed(T(k)) /\ Only(s, T(k), m, left(k))}
<1>1. /\ ds \in Seq(Decls) /\ NoTwice(ds) /\ n \in Nat
      /\ \A i \in 1 .. n : ds[i] \in Decls /\ ModOf[ds[i]] = m
  <2>1. ds \in Seq(Decls) /\ NoTwice(ds) /\ \A d \in Elements(ds) : ModOf[d] = m
    BY DEF Agreed
  <2> HIDE DEF ds
  <2> QED BY <2>1, InList
<1> HIDE DEF ds
<1>2. T(0) = s /\ \A k \in 1 .. n : T(k) = Dropped(T(k - 1), ds[k])
  <2>1. T(0) = s /\ \A k \in 1 .. n : T(k) = Done("drop", T(k - 1), ds[k])
    <3>1. Len(ds) \in Nat
      BY <1>1
    <3> HIDE DEF A
    <3>2. T(0) = s
      <4>1. 0 \in 0 .. n
        BY <3>1
      <4>2. T(0) = IF 0 = 0 THEN s ELSE Done("drop", T(0 - 1), ds[0])
        BY <3>1, <4>1, ThroughSteps
      <4> QED BY <4>2
    <3>3. ASSUME NEW i \in 1 .. n PROVE T(i) = Done("drop", T(i - 1), ds[i])
      <4>1. i \in 0 .. n /\ i # 0
        OBVIOUS
      <4>2. T(i) = IF i = 0 THEN s ELSE Done("drop", T(i - 1), ds[i])
        BY <3>1, <4>1, ThroughSteps
      <4> QED BY <4>1, <4>2
    <3> QED BY <3>2, <3>3
  <2> HIDE DEF T, n
  <2> QED BY <2>1, WhatIsDone
<1>3. left(0) = Elements(ds) /\ left(n) = {}
  BY <1>1 DEF Elements
<1>4. 0 \in A
  <2> HIDE DEF T, left
  <2> QED BY <1>2, <1>3 DEF Only, ds
<1>5. ASSUME NEW k \in Nat, k \in A PROVE k + 1 \in A
  <2>1. SUFFICES ASSUME k + 1 <= n PROVE Agreed(T(k + 1)) /\ Only(s, T(k + 1), m, left(k + 1))
    OBVIOUS
  <2>2. Agreed(T(k)) /\ Only(s, T(k), m, left(k))
    BY <1>1, <1>5, <2>1
  <2>3. k + 1 \in 1 .. n /\ (k + 1) - 1 = k
    BY <1>1, <2>1
  <2>4. ds[k + 1] \in left(k) /\ left(k + 1) = left(k) \ {ds[k + 1]}
    <3>1. \A i \in k + 2 .. n : ds[i] # ds[k + 1] /\ i \in k + 1 .. n
      BY <1>1, <2>3 DEF NoTwice
    <3>2. \A i \in k + 1 .. n : i = k + 1 \/ i \in k + 2 .. n
      OBVIOUS
    <3>3. (k + 1) + 1 = k + 2 /\ k + 1 \in k + 1 .. n
      BY <1>1, <2>1
    <3> QED BY <3>1, <3>2, <3>3
  <2>5. T(k + 1) = Dropped(T(k), ds[k + 1])
    BY <1>2, <2>3
  <2>6. ds[k + 1] \in Decls /\ ModOf[ds[k + 1]] = m
    BY <1>1, <2>3
  <2> HIDE DEF T, left, A
  <2>7. /\ Agreed(Dropped(T(k), ds[k + 1]))
        /\ Only(T(k), Dropped(T(k), ds[k + 1]), m, left(k + 1))
    <3> DEFINE t == T(k)
               d == ds[k + 1]
    <3>1. Elements(t.has[m]) = left(k) /\ left(k + 1) = Elements(t.has[m]) \ {d}
      BY <2>2, <2>4 DEF Only
    <3>2. d \in Decls /\ ModOf[d] = m /\ Agreed(t)
      BY <2>2, <2>6
    <3>3. d \in Elements(t.has[m])
      BY <2>4, <3>1
    <3> HIDE DEF t, d
    <3>4. /\ Agreed(Dropped(t, d))
          /\ Only(t, Dropped(t, d), ModOf[d], Elements(t.has[ModOf[d]]) \ {d})
      BY <3>2, <3>3, DroppedAgrees
    <3>5. Only(t, Dropped(t, d), m, left(k + 1))
      BY <3>1, <3>2, <3>4
    <3> QED BY <3>4, <3>5 DEF t, d
  <2> QED BY <2>2, <2>5, <2>7, OnlyAfterOnly
<1>6. n \in A
  <2> HIDE DEF A
  <2> QED BY <1>1, <1>4, <1>5, Induction
<1>7. Cleaned(s, m) = T(n)
  BY DEF Cleaned, ds
<1>8. Agreed(T(n)) /\ Only(s, T(n), m, left(n))
  BY <1>1, <1>6
<1> HIDE DEF T, left
<1> QED BY <1>3, <1>7, <1>8

LEMMA AfterAgrees ==
  ASSUME NEW s, Agreed(s), NEW m \in Mods, s.has[m] = <<>>,
         NEW k \in 0 .. Len(Static[m]),
         \A j \in 1 .. k : ~ Clash(After(s, m, j - 1), Static[m][j])
  PROVE  Agreed(After(s, m, k)) /\ \E D : Only(s, After(s, m, k), m, D)
<1> DEFINE ds == Static[m]
           n == Len(ds)
           T(j) == Through("add", s, ds, j)
           done(j) == {ds[i] : i \in 1 .. j}
           A == {j \in Nat : j <= k => Agreed(T(j)) /\ Only(s, T(j), m, done(j))}
<1>1. /\ ds \in Seq(Decls) /\ NoTwice(ds) /\ n \in Nat
      /\ \A i \in 1 .. n : ds[i] \in Decls /\ ModOf[ds[i]] = m
  <2>1. ds \in Seq(Decls) /\ NoTwice(ds) /\ \A d \in Elements(ds) : ModOf[d] = m
    OBVIOUS
  <2> HIDE DEF ds
  <2> QED BY <2>1, InList
<1> HIDE DEF ds
<1>2. T(0) = s /\ \A j \in 1 .. n : T(j) = Added(T(j - 1), ds[j])
  <2>1. T(0) = s /\ \A j \in 1 .. n : T(j) = Done("add", T(j - 1), ds[j])
    <3>1. Len(ds) \in Nat
      BY <1>1
    <3> HIDE DEF A
    <3>2. T(0) = s
      <4>1. 0 \in 0 .. n
        BY <3>1
      <4>2. T(0) = IF 0 = 0 THEN s ELSE Done("add", T(0 - 1), ds[0])
        BY <3>1, <4>1, ThroughSteps
      <4> QED BY <4>2
    <3>3. ASSUME NEW i \in 1 .. n PROVE T(i) = Done("add", T(i - 1), ds[i])
      <4>1. i \in 0 .. n /\ i # 0
        OBVIOUS
      <4>2. T(i) = IF i = 0 THEN s ELSE Done("add", T(i - 1), ds[i])
        BY <3>1, <4>1, ThroughSteps
      <4> QED BY <4>1, <4>2
    <3> QED BY <3>2, <3>3
  <2> HIDE DEF T, n
  <2> QED BY <2>1, WhatIsDone
<1>3. done(0) = {} /\ k \in Nat /\ k <= n
  BY <1>1 DEF ds
<1>4. 0 \in A
  <2>1. Elements(s.has[m]) = {}
    BY DEF Elements
  <2> HIDE DEF T, done
  <2> QED BY <1>2, <1>3, <2>1 DEF Only
<1>5. ASSUME NEW j \in Nat, j \in A PROVE j + 1 \in A
  <2>1. SUFFICES ASSUME j + 1 <= k PROVE Agreed(T(j + 1)) /\ Only(s, T(j + 1), m, done(j + 1))
    OBVIOUS
  <2>2. Agreed(T(j)) /\ Only(s, T(j), m, done(j))
    BY <1>3, <1>5, <2>1
  <2>3. j + 1 \in 1 .. n /\ (j + 1) - 1 = j /\ j + 1 \in 1 .. k
    <3> HIDE DEF n, T, done, A
    <3> QED BY <1>1, <1>3, <2>1
  <2>4. ds[j + 1] \notin done(j) /\ done(j + 1) = done(j) \cup {ds[j + 1]}
    <3>1. \A i \in 1 .. j : ds[i] # ds[j + 1] /\ i \in 1 .. j + 1
      BY <1>1, <2>3 DEF NoTwice
    <3>2. \A i \in 1 .. j + 1 : i = j + 1 \/ i \in 1 .. j
      OBVIOUS
    <3>3. j + 1 \in 1 .. j + 1
      OBVIOUS
    <3> QED BY <3>1, <3>2, <3>3
  <2>5. T(j + 1) = Added(T(j), ds[j + 1])
    BY <1>2, <2>3
  <2>6. ds[j + 1] \in Decls /\ ModOf[ds[j + 1]] = m
    BY <1>1, <2>3
  <2>7. ~ Clash(T(j), ds[j + 1])
    BY <2>3 DEF After, ds
  <2> HIDE DEF T, done, A
  <2>8. /\ Agreed(Added(T(j), ds[j + 1]))
        /\ Only(T(j), Added(T(j), ds[j + 1]), m, done(j + 1))
    <3> DEFINE t == T(j)
               d == ds[j + 1]
    <3>1. Elements(t.has[m]) = done(j) /\ done(j + 1) = Elements(t.has[m]) \cup {d}
      BY <2>2, <2>4 DEF Only
    <3>2. d \in Decls /\ ModOf[d] = m /\ Agreed(t)
      BY <2>2, <2>6
    <3>3. d \notin Elements(t.has[m]) /\ ~ Clash(t, d)
      BY <2>4, <2>7, <3>1
    <3> HIDE DEF t, d
    <3>4. /\ Agreed(Added(t, d))
          /\ Only(t, Added(t, d), ModOf[d], Elements(t.has[ModOf[d]]) \cup {d})
      BY <3>2, <3>3, AddedAgrees
    <3>5. Only(t, Added(t, d), m, done(j + 1))
      BY <3>1, <3>2, <3>4
    <3> QED BY <3>4, <3>5 DEF t, d
  <2> QED BY <2>2, <2>5, <2>8, OnlyAfterOnly
<1>6. k \in A
  <2> HIDE DEF A
  <2> QED BY <1>3, <1>4, <1>5, Induction
<1>7. After(s, m, k) = T(k)
  BY DEF After, ds
<1>8. Agreed(T(k)) /\ Only(s, T(k), m, done(k))
  BY <1>3, <1>6
<1> HIDE DEF T, done
<1> QED BY <1>7, <1>8

LEMMA DeinitedAgrees ==
  ASSUME NEW s, Agreed(s), NEW m \in Mods
  PROVE  Agreed(Deinited(s, m)) /\ \E D : Only(s, Deinited(s, m), m, D)
<1> DEFINE init == Static[m]
           l == Len(init)
           first == [k \in 1 .. l |-> init[l + 1 - k]]
           ran == Keep(s.has[m], Dynamic(m))
           ds == ran \o first
           n == Len(ds)
           T(k) == Through("delete", s, ds, k)
           A == {k \in Nat : k <= n => Agreed(T(k)) /\ \E D : Only(s, T(k), m, D)}
<1>1. /\ ds \in Seq(Decls) /\ n \in Nat
      /\ \A i \in 1 .. n : ds[i] \in Decls /\ ModOf[ds[i]] = m
  <2>1. init \in Seq(Decls) /\ \A d \in Elements(init) : ModOf[d] = m
    OBVIOUS
  <2>2. s.has[m] \in Seq(Decls) /\ \A d \in Elements(s.has[m]) : ModOf[d] = m
    BY DEF Agreed
  <2> HIDE DEF init
  <2>3. l \in Nat /\ \A k \in 1 .. l : init[k] \in Decls /\ init[k] \in Elements(init)
    BY <2>1, InList
  <2>4. \A k \in 1 .. l : l + 1 - k \in 1 .. l
    BY <2>3
  <2>5. /\ first \in Seq(Decls) /\ Len(first) = l
        /\ \A k \in 1 .. l : first[k] \in Elements(init)
    <3>1. first \in [1 .. l -> Decls] /\ \A k \in 1 .. l : first[k] \in Elements(init)
      BY <2>3, <2>4
    <3> HIDE DEF first, l
    <3>2. first \in Seq(Decls)
      BY <2>3, <3>1, SeqDef
    <3>3. DOMAIN first = 1 .. l
      BY <3>1
    <3>4. Len(first) = l
      BY <2>3, <3>2, <3>3, LenProperties
    <3> QED BY <3>1, <3>2, <3>4
  <2> HIDE DEF first
  <2>6. Elements(first) \subseteq Elements(init)
    BY <2>5 DEF Elements
  <2>7. ran \in Seq(Decls) /\ Elements(ran) \subseteq Elements(s.has[m])
    BY <2>2, KeepKeeps
  <2> HIDE DEF ran
  <2>8. ds \in Seq(Decls) /\ Elements(ds) = Elements(ran) \cup Elements(first)
    BY <2>5, <2>7, JoinedLists
  <2> HIDE DEF ds
  <2> QED BY <2>1, <2>2, <2>6, <2>7, <2>8, InList
<1>2. Deinited(s, m) = T(n)
  BY DEF Deinited
<1> HIDE DEF ds
<1>3. T(0) = s /\ \A k \in 1 .. n : T(k) = Deleted(T(k - 1), ds[k])
  <2>1. T(0) = s /\ \A k \in 1 .. n : T(k) = Done("delete", T(k - 1), ds[k])
    <3>1. Len(ds) \in Nat
      BY <1>1
    <3> HIDE DEF A
    <3>2. T(0) = s
      <4>1. 0 \in 0 .. n
        BY <3>1
      <4>2. T(0) = IF 0 = 0 THEN s ELSE Done("delete", T(0 - 1), ds[0])
        BY <3>1, <4>1, ThroughSteps
      <4> QED BY <4>2
    <3>3. ASSUME NEW i \in 1 .. n PROVE T(i) = Done("delete", T(i - 1), ds[i])
      <4>1. i \in 0 .. n /\ i # 0
        OBVIOUS
      <4>2. T(i) = IF i = 0 THEN s ELSE Done("delete", T(i - 1), ds[i])
        BY <3>1, <4>1, ThroughSteps
      <4> QED BY <4>1, <4>2
    <3> QED BY <3>2, <3>3
  <2> HIDE DEF T, n
  <2> QED BY <2>1, WhatIsDone
<1>4. 0 \in A
  <2> HIDE DEF T
  <2> QED BY <1>3 DEF Only
<1>5. ASSUME NEW k \in Nat, k \in A PROVE k + 1 \in A
  <2>1. SUFFICES ASSUME k + 1 <= n PROVE Agreed(T(k + 1)) /\ \E D : Only(s, T(k + 1), m, D)
    OBVIOUS
  <2>2. Agreed(T(k)) /\ \E D : Only(s, T(k), m, D)
    BY <1>1, <1>5, <2>1
  <2>3. k + 1 \in 1 .. n /\ (k + 1) - 1 = k
    <3> HIDE DEF n, T, A
    <3> QED BY <1>1, <2>1
  <2>4. T(k + 1) = Deleted(T(k), ds[k + 1]) /\ ds[k + 1] \in Decls /\ ModOf[ds[k + 1]] = m
    BY <1>1, <1>3, <2>3
  <2> HIDE DEF T, A
  <2>5. Agreed(T(k + 1)) /\ \E D : Only(T(k), T(k + 1), m, D)
    BY <2>2, <2>4, DeletedAgrees
  <2> QED BY <2>2, <2>5, OnlyAfterOnly
<1>6. n \in A
  <2> HIDE DEF A
  <2> QED BY <1>1, <1>4, <1>5, Induction
<1>7. Agreed(T(n)) /\ \E D : Only(s, T(n), m, D)
  BY <1>1, <1>6
<1> HIDE DEF T
<1> QED BY <1>2, <1>7

-----------------------------------------------------------------------------
GivenIds == {m \in Mods : mod[m].id # 0}

States == {"none", "up", "removed", "stuck"}

(* Ids are numbers that were given in order.                               *)
IdsFit ==
  /\ \A m \in Mods : mod[m].id <= Cardinality(GivenIds)
  /\ \A m, o \in GivenIds : mod[m].id = mod[o].id => m = o

ModulesHold ==
  /\ mod \in [Mods -> [state : States, id : Nat]]
  /\ IdsFit
  /\ Agreed(Registered)
  /\ \A m \in Mods : mod[m].state # "up" => has[m] = <<>>

IdsStay == \A m \in GivenIds : mod'[m].id = mod[m].id

LEMMA NewIdFits ==
  ASSUME ModulesHold, NEW m \in Mods
  PROVE  /\ NewId \in Nat \ {0} /\ NewId <= Cardinality(GivenIds) + 1
         /\ \A o \in Mods : mod[o].id # NewId
<1> DEFINE S == {mod[o].id : o \in Mods}
           n == Cardinality(GivenIds)
<1>1. n \in Nat
  <2>1. GivenIds \in SUBSET Mods
    BY DEF GivenIds
  <2> QED BY <2>1, FS_Subset, FS_CardinalityType
<1> HIDE DEF n
<1>2. \A o \in Mods : mod[o].id \in Nat /\ mod[o].id <= n
  BY DEF ModulesHold, IdsFit, n
<1>3. S \subseteq 0 .. n /\ S # {}
  BY <1>1, <1>2
<1> HIDE DEF S
<1>4. Max(S) \in S /\ \A k \in S : Max(S) >= k
  BY <1>1, <1>3, MaxIsOne
<1> DEFINE x == Max(S)
<1>5. NewId = 1 + x
  BY DEF NewId, S
<1>6. x \in 0 .. n /\ \A k \in S : x >= k /\ k \in 0 .. n
  BY <1>3, <1>4
<1> HIDE DEF x
<1>7. \A o \in Mods : mod[o].id \in S
  BY DEF S
<1> QED BY <1>1, <1>5, <1>6, <1>7 DEF n

(* A module and what it registered change, and nobody else.                *)
LEMMA ModuleSteps ==
  ASSUME ModulesHold, NEW m \in Mods, NEW st \in States, NEW i \in {mod[m].id, IdFor(m)},
         NEW t, Agreed(t), NEW D, Only(Registered, t, m, D), NowRegistered(t),
         st # "up" => t.has[m] = <<>>,
         mod' = [mod EXCEPT ![m] = [state |-> st, id |-> i]]
  PROVE  ModulesHold' /\ IdsStay
<1> DEFINE new == [state |-> st, id |-> i]
           G == GivenIds
           H == GivenIds'
<1>1. mod \in [Mods -> [state : States, id : Nat]]
  BY DEF ModulesHold
<1>2. mod[m].id # 0 => i = mod[m].id
  BY DEF IdFor
<1>3. mod[m].id = 0 => i = 0 \/ i = NewId
  BY DEF IdFor
<1>4. NewId \in Nat \ {0} /\ NewId <= Cardinality(G) + 1 /\ \A o \in Mods : mod[o].id # NewId
  BY NewIdFits
<1>5. i \in Nat
  BY <1>1, <1>2, <1>3, <1>4
<1>6. new.state = st /\ new.id = i /\ new \in [state : States, id : Nat]
  BY <1>5
<1> HIDE DEF new
<1>7. mod'[m] = new /\ \A o \in Mods : o # m => mod'[o] = mod[o]
  BY <1>1 DEF new
<1>8. mod' \in [Mods -> [state : States, id : Nat]]
  BY <1>1, <1>6 DEF new
<1>9. G \in SUBSET Mods /\ IsFiniteSet(G) /\ Cardinality(G) \in Nat
  <2>1. G \in SUBSET Mods
    BY DEF GivenIds
  <2> QED BY <2>1, FS_Subset, FS_CardinalityType
<1>10. \A o \in Mods : /\ o \in G <=> mod[o].id # 0
                       /\ o \in H <=> mod'[o].id # 0
  BY DEF GivenIds
<1>11. H \subseteq Mods
  BY DEF GivenIds
<1> HIDE DEF G, H
<1>12. /\ \A o \in Mods : mod[o].id \in Nat /\ mod[o].id <= Cardinality(G)
       /\ \A o, p \in G : mod[o].id = mod[p].id => o = p
  BY DEF ModulesHold, IdsFit, G
<1>13. /\ \A o \in Mods : mod'[o].id <= Cardinality(H)
       /\ \A o, p \in H : mod'[o].id = mod'[p].id => o = p
  <2>1. CASE i = mod[m].id
    <3>1. \A o \in Mods : mod'[o].id = mod[o].id
      BY <1>6, <1>7, <2>1
    <3>2. H = G
      BY <1>9, <1>10, <1>11, <3>1
    <3> QED BY <1>9, <1>12, <3>1, <3>2
  <2>2. CASE i # mod[m].id
    <3>1. mod[m].id = 0 /\ i = NewId
      BY <1>2, <1>3, <2>2
    <3>2. m \notin G /\ H = G \cup {m}
      <4>1. m \notin G /\ m \in H
        BY <1>4, <1>6, <1>7, <1>10, <3>1
      <4>2. \A o \in Mods : o # m => (o \in H <=> o \in G)
        BY <1>7, <1>10
      <4> QED BY <1>9, <1>11, <4>1, <4>2
    <3>3. Cardinality(H) = Cardinality(G) + 1
      BY <1>9, <3>2, FS_AddElement
    <3>4. mod'[m].id = NewId /\ \A o \in Mods : o # m => mod'[o].id = mod[o].id
      BY <1>6, <1>7, <3>1
    <3>5. \A o \in Mods : mod'[o].id <= Cardinality(H)
      <4>1. SUFFICES ASSUME NEW o \in Mods PROVE mod'[o].id <= Cardinality(H)
        OBVIOUS
      <4>2. CASE o = m
        BY <1>4, <3>3, <3>4, <4>2
      <4>3. CASE o # m
        BY <1>9, <1>12, <3>3, <3>4, <4>3
      <4> QED BY <4>2, <4>3
    <3>6. \A o, p \in H : mod'[o].id = mod'[p].id => o = p
      BY <1>4, <1>9, <1>12, <3>2, <3>4
    <3> QED BY <3>5, <3>6
  <2> QED BY <2>1, <2>2
<1>14. Agreed(Registered')
  <2>1. t = [client |-> t.client, has |-> t.has]
    BY DEF Agreed
  <2>2. Registered' = t
    BY <2>1 DEF Registered, NowRegistered
  <2> QED BY <2>2
<1>15. ASSUME NEW o \in Mods, mod'[o].state # "up" PROVE has'[o] = <<>>
  <2>1. CASE o = m
    BY <1>6, <1>7, <1>15, <2>1 DEF NowRegistered
  <2>2. CASE o # m
    <3>1. has'[o] = has[o] /\ mod[o].state # "up"
      BY <1>7, <1>15, <2>2 DEF NowRegistered, Only, Registered
    <3> QED BY <3>1 DEF ModulesHold
  <2> QED BY <2>1, <2>2
<1>16. IdsStay
  <2> SUFFICES ASSUME NEW o \in GivenIds PROVE mod'[o].id = mod[o].id
    BY DEF IdsStay
  <2>1. o \in Mods /\ mod[o].id # 0
    BY DEF GivenIds
  <2> QED BY <1>2, <1>6, <1>7, <2>1
<1>17. ModulesHold'
  BY <1>8, <1>13, <1>14, <1>15 DEF ModulesHold, IdsFit, H
<1> QED BY <1>16, <1>17

LEMMA LoadSteps ==
  ASSUME ModulesHold, NEW m \in Mods, Load(m)
  PROVE  ModulesHold' /\ IdsStay
<1> DEFINE t == After(Registered, m, Len(Static[m]))
<1>1. has[m] = <<>> /\ Registered.has[m] = has[m] /\ Agreed(Registered)
  BY DEF ModulesHold, Load, Loaded, Registered
<1>2. Len(Static[m]) \in Nat
  BY InList
<1>3. Len(Static[m]) \in 0 .. Len(Static[m])
  BY <1>2
<1>4. Agreed(t) /\ \E D : Only(Registered, t, m, D)
  BY <1>1, <1>3, AfterAgrees DEF Load, InitGoes
<1> HIDE DEF t
<1>5. mod' = [mod EXCEPT ![m] = [state |-> "up", id |-> IdFor(m)]] /\ NowRegistered(t)
  BY DEF Load, t
<1>6. "up" \in States
  BY DEF States
<1> QED BY <1>4, <1>5, <1>6, ModuleSteps

LEMMA LoadFailsSteps ==
  ASSUME ModulesHold, NEW m \in Mods, LoadFails(m)
  PROVE  ModulesHold' /\ IdsStay
<1>1. has[m] = <<>> /\ Registered.has[m] = has[m] /\ Agreed(Registered)
  BY DEF ModulesHold, LoadFails, Loaded, Registered
<1>2. PICK k \in 0 .. Len(Static[m]) :
        /\ \A j \in 1 .. k : ~ Clash(After(Registered, m, j - 1), Static[m][j])
        /\ NowRegistered(Cleaned(After(Registered, m, k), m))
  BY DEF LoadFails
<1>3. PICK st \in {"removed", "stuck"} :
        mod' = [mod EXCEPT ![m] = [state |-> st, id |-> IdFor(m)]]
  BY DEF LoadFails
<1> DEFINE s == After(Registered, m, k)
           t == Cleaned(s, m)
<1>4. Agreed(s) /\ \E D : Only(Registered, s, m, D)
  BY <1>1, <1>2, AfterAgrees
<1> HIDE DEF s
<1>5. Agreed(t) /\ Only(s, t, m, {})
  BY <1>4, CleanedAgrees
<1>6. NowRegistered(t)
  BY <1>2 DEF s
<1> HIDE DEF t
<1>7. Only(Registered, t, m, {})
  BY <1>4, <1>5, OnlyAfterOnly
<1>8. t.has[m] = <<>>
  <2> DEFINE mine == t.has[m]
  <2>1. mine \in Seq(Decls) /\ Elements(mine) = {}
    BY <1>5 DEF Agreed, Only
  <2> HIDE DEF mine
  <2>2. mine = <<>>
    BY <2>1, InList
  <2> QED BY <2>2 DEF mine
<1>9. st \in States
  BY DEF States
<1> QED BY <1>3, <1>5, <1>6, <1>7, <1>8, <1>9, ModuleSteps

LEMMA UnloadSteps ==
  ASSUME ModulesHold, NEW m \in Mods, Unload(m) \/ UnloadSticks(m)
  PROVE  ModulesHold' /\ IdsStay
<1> DEFINE s == Deinited(Registered, m)
           t == Cleaned(s, m)
<1>1. Agreed(Registered)
  BY DEF ModulesHold
<1>2. Agreed(s) /\ \E D : Only(Registered, s, m, D)
  BY <1>1, DeinitedAgrees
<1> HIDE DEF s
<1>3. Agreed(t) /\ Only(s, t, m, {})
  BY <1>2, CleanedAgrees
<1>4. NowRegistered(t)
  BY DEF Unload, UnloadSticks, s
<1> HIDE DEF t
<1>5. Only(Registered, t, m, {})
  BY <1>2, <1>3, OnlyAfterOnly
<1>6. t.has[m] = <<>>
  <2> DEFINE mine == t.has[m]
  <2>1. mine \in Seq(Decls) /\ Elements(mine) = {}
    BY <1>3 DEF Agreed, Only
  <2> HIDE DEF mine
  <2>2. mine = <<>>
    BY <2>1, InList
  <2> QED BY <2>2 DEF mine
<1>7. PICK st \in {"removed", "stuck"} : mod' = [mod EXCEPT ![m].state = st]
  BY DEF Unload, UnloadSticks
<1>8. st \in States
  BY DEF States
<1>9. mod' = [mod EXCEPT ![m] = [state |-> st, id |-> mod[m].id]]
  <2> DEFINE r == mod[m]
  <2>1. r \in [state : States, id : Nat]
    BY DEF ModulesHold
  <2>2. mod' = [mod EXCEPT ![m] = [r EXCEPT !.state = st]]
    BY <1>7
  <2> HIDE DEF r
  <2>3. [r EXCEPT !.state = st] = [state |-> st, id |-> r.id]
    BY <2>1
  <2> QED BY <2>2, <2>3 DEF r
<1> QED BY <1>3, <1>4, <1>5, <1>6, <1>8, <1>9, ModuleSteps

LEMMA RunningSteps ==
  ASSUME ModulesHold, NEW d \in Decls, Register(d) \/ Unregister(d)
  PROVE  ModulesHold' /\ IdsStay
<1> DEFINE m == ModOf[d]
           t == IF Register(d) THEN Added(Registered, d) ELSE Deleted(Registered, d)
<1>1. m \in Mods /\ mod[m].state = "up" /\ mod' = mod /\ NowRegistered(t)
  BY DEF Register, Unregister
<1>2. Agreed(Registered) /\ Registered.has = has
  BY DEF ModulesHold, Registered
<1>3. Agreed(t) /\ \E D : Only(Registered, t, m, D)
  <2>1. CASE Register(d)
    <3>1. d \notin Elements(Registered.has[m]) /\ ~ Clash(Registered, d)
      BY <1>2, <2>1 DEF Register
    <3> QED BY <1>2, <2>1, <3>1, AddedAgrees
  <2>2. CASE ~ Register(d)
    BY <1>2, <2>2, DeletedAgrees
  <2> QED BY <2>1, <2>2
<1> HIDE DEF t
<1>4. mod' = [mod EXCEPT ![m] = [state |-> "up", id |-> mod[m].id]]
  BY <1>1 DEF ModulesHold
<1>5. "up" \in States
  BY DEF States
<1> HIDE DEF m
<1> QED BY <1>1, <1>3, <1>4, <1>5, ModuleSteps

LEMMA HoldIsRegistered ==
  ModulesHold => ModulesTypeOK /\ OwnerAnswers /\ RegisteredBothWays /\ EveryCommandAnswered
<1> SUFFICES ASSUME ModulesHold
             PROVE  ModulesTypeOK /\ OwnerAnswers /\ RegisteredBothWays /\ EveryCommandAnswered
  OBVIOUS
<1>1. Agreed(Registered) /\ Registered.has = has /\ Registered.client = client
  BY DEF ModulesHold, Registered
<1>2. /\ has \in [Mods -> Seq(Decls)] /\ DOMAIN client \subseteq Names
      /\ \A m \in Mods : NoTwice(has[m]) /\ \A d \in Elements(has[m]) : ModOf[d] = m
      /\ \A n \in DOMAIN client :
           /\ client[n].list \in Seq(Decls) /\ NoTwice(client[n].list)
           /\ client[n].owner \in Elements(client[n].list)
           /\ \A d \in Elements(client[n].list) : NameOf[d] = n
           /\ \A d, e \in Elements(client[n].list) :
                d # e => CommandsOf[d] \cap CommandsOf[e] = {}
      /\ \A d \in Decls :
           d \in Elements(has[ModOf[d]])
             <=> NameOf[d] \in DOMAIN client /\ d \in Elements(client[NameOf[d]].list)
  BY <1>1 DEF Agreed
<1>3. ModulesTypeOK
  <2>1. mod \in [Mods -> [state : States, id : 0 .. Cardinality(Mods)]]
    <3>1. GivenIds \in SUBSET Mods
      BY DEF GivenIds
    <3>2. /\ Cardinality(GivenIds) \in Nat /\ Cardinality(Mods) \in Nat
          /\ Cardinality(GivenIds) <= Cardinality(Mods)
      BY <3>1, FS_Subset, FS_CardinalityType
    <3>3. mod \in [Mods -> [state : States, id : Nat]]
      BY DEF ModulesHold
    <3>4. \A m \in Mods : mod[m].id <= Cardinality(GivenIds)
      BY DEF ModulesHold, IdsFit
    <3>5. ASSUME NEW m \in Mods PROVE mod[m] \in [state : States, id : 0 .. Cardinality(Mods)]
      <4> DEFINE r == mod[m]
      <4>1. r \in [state : States, id : Nat] /\ r.id <= Cardinality(GivenIds)
        BY <3>3, <3>4
      <4> HIDE DEF r
      <4>2. r.id \in 0 .. Cardinality(Mods)
        BY <3>2, <4>1
      <4>3. r \in [state : States, id : 0 .. Cardinality(Mods)]
        BY <4>1, <4>2
      <4> QED BY <4>3 DEF r
    <3> QED BY <3>3, <3>5
  <2>2. ASSUME NEW n \in DOMAIN client PROVE client[n].owner \in Decls
    <3> DEFINE list == client[n].list
    <3>1. list \in Seq(Decls) /\ client[n].owner \in Elements(list)
      BY <1>2
    <3> HIDE DEF list
    <3> QED BY <3>1, InList
  <2> QED BY <1>2, <2>1, <2>2 DEF ModulesTypeOK, States
<1>4. RegisteredBothWays
  <2>1. \A n \in DOMAIN client : client[n].list # <<>>
    <3>1. Elements(<<>>) = {}
      BY DEF Elements
    <3> QED BY <1>2, <3>1
  <2>2. \A m \in Mods : mod[m].state # "up" => has[m] = <<>>
    BY DEF ModulesHold
  <2> QED BY <1>2, <2>1, <2>2 DEF RegisteredBothWays
<1>5. OwnerAnswers
  <2>1. SUFFICES ASSUME NEW n \in DOMAIN client
                 PROVE  /\ client[n].owner \in Elements(client[n].list)
                        /\ mod[ModOf[client[n].owner]].state = "up"
    BY DEF OwnerAnswers
  <2> DEFINE d == client[n].owner
  <2>2. d \in Elements(client[n].list) /\ NameOf[d] = n
    BY <1>2
  <2>3. d \in Decls
    BY <1>2, <2>2, InList
  <2> HIDE DEF d
  <2>4. d \in Elements(has[ModOf[d]]) /\ ModOf[d] \in Mods
    BY <1>2, <2>2, <2>3
  <2>5. has[ModOf[d]] # <<>>
    <3>1. Elements(<<>>) = {}
      BY DEF Elements
    <3> QED BY <2>4, <3>1
  <2>6. mod[ModOf[d]].state = "up"
    BY <2>4, <2>5 DEF ModulesHold
  <2> QED BY <2>2, <2>6 DEF d
<1>6. EveryCommandAnswered
  <2>1. SUFFICES ASSUME NEW m \in Mods, NEW d \in Elements(has[m]), NEW c \in CommandsOf[d]
                 PROVE  Answer(NameOf[d], c) = {d}
    BY DEF EveryCommandAnswered
  <2> DEFINE n == NameOf[d]
             list == client[n].list
             who == {k \in 1 .. Len(list) : c \in CommandsOf[list[k]]}
  <2>2. d \in Decls /\ ModOf[d] = m
    BY <1>2, InList
  <2>3. n \in DOMAIN client /\ d \in Elements(list)
    BY <1>2, <2>2
  <2>4. list \in Seq(Decls) /\ \A e \in Elements(list) : c \in CommandsOf[e] => e = d
    BY <1>2, <2>3
  <2>5. Answer(n, c) = IF who = {} THEN {} ELSE {list[Min(who)]}
    BY DEF Answer
  <2> HIDE DEF n, list
  <2>6. Len(list) \in Nat /\ \A k \in 1 .. Len(list) : list[k] \in Elements(list)
    BY <2>4, InList
  <2>7. PICK k \in 1 .. Len(list) : list[k] = d
    BY <2>3 DEF Elements
  <2>8. k \in who /\ who \subseteq Nat
    BY <2>6, <2>7
  <2>9. \A j \in who : list[j] = d
    BY <2>4, <2>6
  <2> HIDE DEF who
  <2>10. Min(who) \in who
    BY <2>8, MinIsLeast
  <2> QED BY <2>5, <2>8, <2>9, <2>10 DEF n
<1> QED BY <1>3, <1>4, <1>5, <1>6

-----------------------------------------------------------------------------
(* x comes before y in the list s.                                         *)
Ahead(s, x, y) == \E p, q \in 1 .. Len(s) : p < q /\ s[p] = x /\ s[q] = y

(* What is in t comes in the same order in s.                              *)
InLine(t, s) == \A j, k \in 1 .. Len(t) : j < k => Ahead(s, t[j], t[k])

LEMMA OneWay ==
  ASSUME NEW S, NEW s \in Seq(S), NoTwice(s), NEW x, NEW y, Ahead(s, x, y)
  PROVE  /\ x # y /\ ~ Ahead(s, y, x)
         /\ x \in Elements(s) /\ y \in Elements(s)
<1>1. Len(s) \in Nat
  BY InList
<1>2. PICK p, q \in 1 .. Len(s) : p < q /\ s[p] = x /\ s[q] = y
  BY DEF Ahead
<1>3. p # q
  BY <1>1, <1>2
<1>4. x # y
  BY <1>2, <1>3 DEF NoTwice
<1>5. ASSUME Ahead(s, y, x) PROVE FALSE
  <2>1. PICK a, b \in 1 .. Len(s) : a < b /\ s[a] = y /\ s[b] = x
    BY <1>5 DEF Ahead
  <2>2. a = q /\ b = p
    BY <1>2, <2>1 DEF NoTwice
  <2> QED BY <1>1, <1>2, <2>1, <2>2
<1>6. x \in Elements(s) /\ y \in Elements(s)
  BY <1>2 DEF Elements
<1> QED BY <1>4, <1>5, <1>6

LEMMA KeepAhead ==
  ASSUME NEW S, NEW s \in Seq(S), NEW K, NEW x \in K, NEW y \in K, Ahead(s, x, y), NoTwice(s)
  PROVE  Ahead(Keep(s, K), x, y)
<1> DEFINE t == Keep(s, K)
<1>1. PICK p, q \in 1 .. Len(s) : p < q /\ s[p] = x /\ s[q] = y
  BY DEF Ahead
<1>2. t \in Seq(S) /\ Len(t) \in Nat /\ Len(s) \in Nat
  BY KeepPlaces, InList
<1>3. PICK at : KeptFrom(s, K, t, at)
  BY KeepPlaces
<1> HIDE DEF t
<1>4. PICK a \in 1 .. Len(t) : at[a] = p
  BY <1>1, <1>3 DEF KeptFrom
<1>5. PICK b \in 1 .. Len(t) : at[b] = q
  BY <1>1, <1>3 DEF KeptFrom
<1>6. t[a] = x /\ t[b] = y
  BY <1>1, <1>3, <1>4, <1>5 DEF KeptFrom
<1>7. ~ (b < a) /\ a # b
  <2>1. b < a => q < p
    BY <1>3, <1>4, <1>5 DEF KeptFrom
  <2> QED BY <1>1, <1>2, <1>4, <1>5, <2>1
<1>8. a < b
  BY <1>2, <1>7
<1>9. Ahead(t, x, y)
  BY <1>6, <1>8 DEF Ahead
<1> QED BY <1>9 DEF t

LEMMA KeepInLine ==
  ASSUME NEW S, NEW t \in Seq(S), NEW K, NEW s, InLine(t, s)
  PROVE  InLine(Keep(t, K), s)
<1> DEFINE u == Keep(t, K)
<1>1. PICK at : KeptFrom(t, K, u, at)
  BY KeepPlaces
<1> HIDE DEF u
<1>2. ASSUME NEW j \in 1 .. Len(u), NEW k \in 1 .. Len(u), j < k
      PROVE  Ahead(s, u[j], u[k])
  <2>1. at[j] \in 1 .. Len(t) /\ at[k] \in 1 .. Len(t) /\ u[j] = t[at[j]] /\ u[k] = t[at[k]]
    BY <1>1 DEF KeptFrom
  <2>2. at[j] < at[k]
    BY <1>1, <1>2 DEF KeptFrom
  <2> QED BY <2>1, <2>2 DEF InLine
<1>3. InLine(u, s)
  BY <1>2 DEF InLine
<1> QED BY <1>3 DEF u

LEMMA AppendKeeps ==
  ASSUME NEW S, NEW s \in Seq(S), NEW z \in S, NoTwice(s), z \notin Elements(s)
  PROVE  /\ Append(s, z) \in Seq(S) /\ NoTwice(Append(s, z))
         /\ Elements(Append(s, z)) = Elements(s) \cup {z}
         /\ Append(s, z) # <<>> /\ LastOf(Append(s, z)) = z
         /\ \A x, y : Ahead(s, x, y) => Ahead(Append(s, z), x, y)
         /\ \A x \in Elements(s) : Ahead(Append(s, z), x, z)
<1> DEFINE t == Append(s, z)
           n == Len(s)
<1>1. /\ t \in Seq(S) /\ Len(t) = n + 1 /\ n \in Nat
      /\ t[n + 1] = z /\ \A k \in 1 .. n : t[k] = s[k]
  <2>1. n \in Nat
    BY InList
  <2> QED BY <2>1, AppendProperties
<1> HIDE DEF t, n
<1>2. /\ n + 1 \in 1 .. Len(t)
      /\ \A k \in 1 .. n : k \in 1 .. Len(t) /\ k < n + 1
      /\ \A k \in 1 .. Len(t) : k \in 1 .. n \/ k = n + 1
  BY <1>1
<1>3. Elements(t) = Elements(s) \cup {z}
  <2>1. \A x \in Elements(t) : x \in Elements(s) \cup {z}
    BY <1>1, <1>2 DEF Elements, n
  <2>2. \A x \in Elements(s) : x \in Elements(t)
    BY <1>1, <1>2 DEF Elements, n
  <2>3. z \in Elements(t)
    BY <1>1, <1>2 DEF Elements
  <2> QED BY <2>1, <2>2, <2>3
<1>4. \A k \in 1 .. n : s[k] # z
  BY DEF Elements, n
<1>5. NoTwice(t)
  BY <1>1, <1>2, <1>4 DEF NoTwice, n
<1>6. t # <<>>
  <2>1. t # <<>> <=> Elements(t) # {}
    BY <1>1, InList
  <2> QED BY <1>3, <2>1
<1>7. LastOf(t) = z
  BY <1>1, <1>6 DEF LastOf
<1>8. ASSUME NEW x, NEW y, Ahead(s, x, y) PROVE Ahead(t, x, y)
  <2>1. PICK p, q \in 1 .. n : p < q /\ s[p] = x /\ s[q] = y
    BY <1>8 DEF Ahead, n
  <2>2. p \in 1 .. Len(t) /\ q \in 1 .. Len(t) /\ t[p] = x /\ t[q] = y
    BY <1>1, <1>2, <2>1
  <2> QED BY <2>1, <2>2 DEF Ahead
<1>9. ASSUME NEW x \in Elements(s) PROVE Ahead(t, x, z)
  <2>1. PICK p \in 1 .. n : s[p] = x
    BY DEF Elements, n
  <2>2. p \in 1 .. Len(t) /\ t[p] = x /\ p < n + 1
    BY <1>1, <1>2, <2>1
  <2> QED BY <1>1, <1>2, <2>2 DEF Ahead
<1> QED BY <1>1, <1>3, <1>5, <1>6, <1>7, <1>8, <1>9 DEF t

LEMMA AppendInLine ==
  ASSUME NEW S, NEW t \in Seq(S), NEW z \in S, NEW s, InLine(t, s),
         \A x \in Elements(t) : Ahead(s, x, z)
  PROVE  InLine(Append(t, z), s)
<1> DEFINE u == Append(t, z)
           n == Len(t)
<1>1. Len(u) = n + 1 /\ n \in Nat /\ u[n + 1] = z /\ \A k \in 1 .. n : u[k] = t[k]
  <2>1. n \in Nat
    BY InList
  <2> QED BY <2>1, AppendProperties
<1> HIDE DEF u, n
<1>2. ASSUME NEW j \in 1 .. Len(u), NEW k \in 1 .. Len(u), j < k PROVE Ahead(s, u[j], u[k])
  <2>1. j \in 1 .. n /\ u[j] = t[j] /\ t[j] \in Elements(t)
    BY <1>1, <1>2 DEF Elements, n
  <2>2. CASE k = n + 1
    BY <1>1, <2>1, <2>2
  <2>3. CASE k # n + 1
    <3>1. k \in 1 .. n /\ u[k] = t[k]
      BY <1>1, <2>3
    <3> QED BY <1>2, <2>1, <3>1 DEF InLine, n
  <2> QED BY <2>2, <2>3
<1>3. InLine(u, s)
  BY <1>2 DEF InLine
<1> QED BY <1>3 DEF u

LEMMA TailKeeps ==
  ASSUME NEW S, NEW s \in Seq(S), NoTwice(s), s # <<>>
  PROVE  /\ Head(s) \in Elements(s) /\ Head(s) \in S
         /\ Tail(s) \in Seq(S) /\ NoTwice(Tail(s))
         /\ Elements(Tail(s)) = Elements(s) \ {Head(s)}
         /\ \A x \in Elements(Tail(s)) : Ahead(s, Head(s), x)
         /\ \A u : InLine(s, u) => InLine(Tail(s), u)
<1> DEFINE t == Tail(s)
           n == Len(s)
<1>1. /\ t \in Seq(S) /\ Len(t) = n - 1 /\ n \in Nat /\ n # 0
      /\ Head(s) = s[1] /\ \A k \in 1 .. n - 1 : t[k] = s[k + 1]
  <2>1. n \in Nat /\ n # 0
    BY InList
  <2> QED BY <2>1, HeadTailProperties
<1>2. Head(s) \in Elements(s) /\ Head(s) \in S
  BY <1>1, InList
<1> HIDE DEF t, n
<1>3. /\ 1 \in 1 .. n
      /\ \A k \in 1 .. Len(t) : k + 1 \in 1 .. n /\ k + 1 # 1 /\ 1 < k + 1 /\ t[k] = s[k + 1]
      /\ \A k \in 1 .. n : k # 1 => k - 1 \in 1 .. Len(t) /\ t[k - 1] = s[k]
  <2>1. ASSUME NEW k \in 1 .. n, k # 1 PROVE k - 1 \in 1 .. Len(t) /\ t[k - 1] = s[k]
    <3>1. k - 1 \in 1 .. Len(t) /\ k - 1 \in 1 .. n - 1 /\ (k - 1) + 1 = k
      BY <1>1, <2>1
    <3>2. t[k - 1] = s[(k - 1) + 1]
      BY <1>1, <3>1
    <3> QED BY <3>1, <3>2
  <2>2. 1 \in 1 .. n /\ Len(t) = n - 1 /\ n \in Nat
    BY <1>1
  <2>3. ASSUME NEW k \in 1 .. Len(t)
        PROVE  k + 1 \in 1 .. n /\ k + 1 # 1 /\ 1 < k + 1 /\ t[k] = s[k + 1]
    <3>1. k + 1 \in 1 .. n /\ k + 1 # 1 /\ 1 < k + 1
      BY <2>2
    <3> QED BY <1>1, <3>1
  <2> QED BY <2>1, <2>2, <2>3
<1>4. NoTwice(t)
  <2>1. SUFFICES ASSUME NEW i \in 1 .. Len(t), NEW j \in 1 .. Len(t), t[i] = t[j] PROVE i = j
    BY DEF NoTwice
  <2>2. i + 1 = j + 1
    BY <1>3, <2>1 DEF NoTwice, n
  <2> QED BY <1>1, <2>2
<1>5. \A k \in 1 .. n : s[k] = s[1] => k = 1
  BY <1>3 DEF NoTwice, n
<1>6. Elements(t) = Elements(s) \ {Head(s)}
  <2>1. Elements(t) \subseteq Elements(s) \ {Head(s)}
    BY <1>1, <1>3, <1>5 DEF Elements, n
  <2>2. ASSUME NEW x \in Elements(s), x # Head(s) PROVE x \in Elements(t)
    <3>1. PICK k \in 1 .. n : s[k] = x
      BY DEF Elements, n
    <3>2. k - 1 \in 1 .. Len(t) /\ t[k - 1] = x
      BY <1>1, <1>3, <2>2, <3>1
    <3> QED BY <3>2 DEF Elements
  <2> QED BY <2>1, <2>2
<1>7. ASSUME NEW x \in Elements(t) PROVE Ahead(s, Head(s), x)
  <2>1. PICK k \in 1 .. Len(t) : t[k] = x
    BY DEF Elements
  <2> QED BY <1>1, <1>3, <2>1 DEF Ahead, n
<1>8. ASSUME NEW u, InLine(s, u) PROVE InLine(t, u)
  <2>1. SUFFICES ASSUME NEW j \in 1 .. Len(t), NEW k \in 1 .. Len(t), j < k
                 PROVE  Ahead(u, t[j], t[k])
    BY DEF InLine
  <2>2. j + 1 < k + 1
    BY <1>1, <2>1
  <2> QED BY <1>3, <1>8, <2>2 DEF InLine, n
<1> QED BY <1>1, <1>2, <1>4, <1>6, <1>7, <1>8 DEF t

(* The loop that unloads starts at the end of the list and comes by every  *)
(* module.                                                                 *)
LEMMA LastIsLast ==
  ASSUME NEW S, NEW s \in Seq(S), s # <<>>
  PROVE  /\ LastOf(s) \in Elements(s)
         /\ \A x \in Elements(s) : x = LastOf(s) \/ Ahead(s, x, LastOf(s))
<1> DEFINE n == Len(s)
<1>1. n \in Nat /\ n # 0 /\ s[n] \in Elements(s)
  BY InList
<1>2. LastOf(s) = s[n]
  BY DEF LastOf
<1> HIDE DEF n
<1>3. ASSUME NEW x \in Elements(s), x # s[n] PROVE Ahead(s, x, s[n])
  <2>1. PICK k \in 1 .. n : s[k] = x
    BY DEF Elements, n
  <2>2. k < n /\ n \in 1 .. n
    BY <1>1, <1>3, <2>1
  <2> QED BY <2>1, <2>2 DEF Ahead, n
<1> QED BY <1>1, <1>2, <1>3

LEMMA BeforeIsBefore ==
  ASSUME NEW S, NEW s \in Seq(S), NULL \notin S, NoTwice(s), NEW x \in Elements(s)
  PROVE  LET b == Before(s, x)
         IN  /\ b = NULL => \A y : ~ Ahead(s, y, x)
             /\ b # NULL => /\ b \in Elements(s) /\ b # x
                            /\ \A y : Ahead(s, y, x) => y = b \/ Ahead(s, y, b)
<1> DEFINE n == Len(s)
           b == Before(s, x)
           A == {k \in 1 .. n - 1 : s[k + 1] = x}
           k == CHOOSE j \in 1 .. n - 1 : s[j + 1] = x
<1>1. /\ n \in Nat /\ n # 0 /\ Elements(s) \subseteq S
      /\ \A i \in 1 .. n : s[i] \in Elements(s)
  <2>1. s # <<>>
    BY DEF Elements
  <2> QED BY <2>1, InList
<1> HIDE DEF n
<1>2. PICK i \in 1 .. n : s[i] = x
  BY DEF Elements, n
<1>3. \A j \in 1 .. n : s[j] = x => j = i
  BY <1>2 DEF NoTwice, n
<1>4. CASE s[1] = x
  <2>1. i = 1
    BY <1>1, <1>3, <1>4
  <2>2. b = NULL
    BY <1>4 DEF Before
  <2>3. ASSUME NEW y, Ahead(s, y, x) PROVE FALSE
    <3>1. PICK p, q \in 1 .. n : p < q /\ s[p] = y /\ s[q] = x
      BY <2>3 DEF Ahead, n
    <3>2. q = 1
      BY <1>3, <2>1, <3>1
    <3> QED BY <1>1, <3>1, <3>2
  <2> QED BY <2>2, <2>3
<1>5. CASE s[1] # x
  <2>1. i # 1
    BY <1>2, <1>5
  <2>2. i - 1 \in 1 .. n - 1 /\ (i - 1) + 1 = i
    BY <1>1, <1>2, <2>1
  <2>3. k \in 1 .. n - 1 /\ s[k + 1] = x
    BY <1>2, <2>2
  <2> HIDE DEF k
  <2>4. b = s[k]
    BY <1>5 DEF Before, k, n
  <2>5. k + 1 = i /\ k \in 1 .. n
    BY <1>1, <1>3, <2>3
  <2>6. b \in Elements(s) /\ b # NULL /\ b # x
    <3>1. b \in Elements(s)
      BY <1>1, <2>4, <2>5
    <3>2. s[k] # x
      BY <1>1, <1>3, <2>5
    <3> QED BY <1>1, <2>4, <3>1, <3>2
  <2>7. ASSUME NEW y, Ahead(s, y, x), y # b PROVE Ahead(s, y, b)
    <3>1. PICK p, q \in 1 .. n : p < q /\ s[p] = y /\ s[q] = x
      BY <2>7 DEF Ahead, n
    <3>2. p < k
      <4>1. q = k + 1 /\ p # k
        BY <1>3, <2>4, <2>5, <2>7, <3>1
      <4> QED BY <1>1, <2>5, <3>1, <4>1
    <3> QED BY <2>4, <2>5, <3>1, <3>2 DEF Ahead, n
  <2> HIDE DEF b
  <2>8. \A y : Ahead(s, y, x) => y = b \/ Ahead(s, y, b)
    BY <2>7
  <2> QED BY <2>6, <2>8 DEF b
<1> QED BY <1>4, <1>5

-----------------------------------------------------------------------------
LEMMA PlaceInFront ==
  ASSUME NEW s, NEW u, NEW k \in 1 .. Len(s) + 1
  PROVE  PushFront(u, s)[k] = IF k = 1 THEN u ELSE s[k - 1]
BY DEF PushFront

LEMMA InFront ==
  ASSUME NEW S, NEW s \in Seq(S), NEW u \in S
  PROVE  /\ PushFront(u, s) \in Seq(S)
         /\ Len(PushFront(u, s)) = Len(s) + 1
         /\ Elements(PushFront(u, s)) = Elements(s) \cup {u}
<1> DEFINE p == PushFront(u, s)
           n == Len(s)
<1>1. n \in Nat /\ \A k \in 1 .. n : s[k] \in S
  BY LenProperties, ElementOfSeq
<1>2. p \in [1 .. n + 1 -> S]
  BY <1>1 DEF PushFront
<1>3. p \in Seq(S) /\ Len(p) = n + 1
  BY <1>1, <1>2, SeqDef, LenProperties
<1>4. p[1] = u /\ \A k \in 1 .. n : p[k + 1] = s[k]
  BY <1>1 DEF PushFront
<1> HIDE DEF p, n
<1>5. /\ 1 \in 1 .. Len(p) /\ \A k \in 1 .. n : k + 1 \in 1 .. Len(p)
      /\ \A k \in 1 .. Len(p) : k = 1 \/ (k - 1 \in 1 .. n /\ (k - 1) + 1 = k)
  BY <1>1, <1>3
<1>6. Elements(p) = Elements(s) \cup {u}
  <2>1. \A x \in Elements(p) : x \in Elements(s) \cup {u}
    <3>1. SUFFICES ASSUME NEW k \in 1 .. Len(p) PROVE p[k] \in Elements(s) \cup {u}
      BY DEF Elements
    <3>2. CASE k = 1
      BY <1>4, <3>2
    <3>3. CASE k # 1
      <4>1. k - 1 \in 1 .. n /\ (k - 1) + 1 = k
        BY <1>5, <3>3
      <4>2. p[(k - 1) + 1] = s[k - 1]
        BY <1>4, <4>1
      <4>3. p[k] = s[k - 1]
        BY <4>1, <4>2
      <4> QED BY <4>1, <4>3 DEF Elements, n
    <3> QED BY <3>2, <3>3
  <2>2. ASSUME NEW x \in Elements(s) PROVE x \in Elements(p)
    <3>1. PICK k \in 1 .. n : s[k] = x
      BY DEF Elements, n
    <3>2. k + 1 \in 1 .. Len(p) /\ p[k + 1] = x
      BY <1>4, <1>5, <3>1
    <3> QED BY <3>2 DEF Elements
  <2>3. u \in Elements(p)
    BY <1>4, <1>5 DEF Elements
  <2> HIDE DEF p
  <2> QED BY <2>1, <2>2, <2>3
<1> QED BY <1>3, <1>4, <1>6 DEF p, n

OneName(s) == \A j, k \in 1 .. Len(s) : s[j].name = s[k].name => j = k

LEMMA ServerTakenFits ==
  ASSUME NEW s \in Seq(ServerRecords), NEW sc \in ServerRecords
  PROVE  LET t == ServerTaken(s, sc)
         IN  /\ t \in Seq(ServerRecords)
             /\ OneName(s) => OneName(t)
             /\ sc.pass => sc \in Elements(t)
             /\ \A x \in Elements(s) : x.name # sc.name => x \in Elements(t)
<1> DEFINE t == ServerTaken(s, sc)
           n == Len(s)
           known == {k \in 1 .. n : s[k].name = sc.name}
           i == Min(known)
<1>1. n \in Nat /\ \A k \in 1 .. n : s[k] \in ServerRecords
  BY LenProperties, ElementOfSeq
<1>2. t = IF ~ sc.pass THEN s ELSE IF known = {} THEN PushFront(sc, s) ELSE [s EXCEPT ![i] = sc]
  BY DEF ServerTaken
<1>3. known # {} => i \in known /\ i \in 1 .. n
  <2>1. known \subseteq Nat
    BY <1>1
  <2>2. known # {} => i \in known
    <3> HIDE DEF known
    <3> QED BY <2>1, MinIsLeast
  <2> HIDE DEF i
  <2> QED BY <2>2
<1>4. \A k \in 1 .. n : k \in known <=> s[k].name = sc.name
  OBVIOUS
<1> HIDE DEF known, n, i
<1>5. CASE ~ sc.pass
  BY <1>2, <1>5
<1>6. CASE sc.pass /\ known = {}
  <2>1. t = PushFront(sc, s)
    BY <1>2, <1>6
  <2>2. t \in Seq(ServerRecords) /\ Len(t) = n + 1 /\ Elements(t) = Elements(s) \cup {sc}
    BY <2>1, InFront DEF n
  <2>3. \A k \in 1 .. n + 1 : t[k] = IF k = 1 THEN sc ELSE s[k - 1]
    BY <2>1, PlaceInFront DEF n
  <2> HIDE DEF t
  <2>4. ASSUME OneName(s) PROVE OneName(t)
    <3>1. SUFFICES ASSUME NEW j \in 1 .. Len(t), NEW k \in 1 .. Len(t), t[j].name = t[k].name
                   PROVE  j = k
      BY DEF OneName
    <3>2. \A l \in 1 .. Len(t) : l = 1 \/ (l - 1 \in 1 .. n /\ t[l] = s[l - 1])
      <4>1. ASSUME NEW l \in 1 .. Len(t), l # 1 PROVE l - 1 \in 1 .. n /\ t[l] = s[l - 1]
        <5>1. l - 1 \in 1 .. n
          BY <1>1, <2>2, <4>1
        <5>2. t[l] = s[l - 1]
          BY <2>2, <2>3, <4>1
        <5> QED BY <5>1, <5>2
      <4> QED BY <4>1
    <3>3. \A l \in 1 .. n : s[l].name # sc.name
      BY <1>4, <1>6
    <3>4. t[1] = sc
      BY <1>1, <2>3
    <3>5. CASE j = 1
      BY <3>1, <3>2, <3>3, <3>5, <3>4
    <3>6. CASE k = 1
      BY <3>1, <3>2, <3>3, <3>6, <3>4
    <3>7. CASE j # 1 /\ k # 1
      <4>1. /\ j - 1 \in 1 .. n /\ k - 1 \in 1 .. n
            /\ s[j - 1].name = s[k - 1].name
        BY <3>1, <3>2, <3>7
      <4>2. j - 1 = k - 1
        BY <2>4, <4>1 DEF OneName, n
      <4> QED BY <1>1, <2>2, <4>2
    <3> QED BY <3>5, <3>6, <3>7
  <2> QED BY <2>2, <2>4 DEF t
<1>7. CASE sc.pass /\ known # {}
  <2>1. t = [s EXCEPT ![i] = sc]
    BY <1>2, <1>7
  <2>2. i \in 1 .. n /\ s[i].name = sc.name
    BY <1>3, <1>4, <1>7
  <2>3. t \in Seq(ServerRecords) /\ Len(t) = n
    BY <2>1, <2>2, ExceptSeq DEF n
  <2>4. t[i] = sc /\ \A k \in 1 .. n : k # i => t[k] = s[k]
    <3>1. DOMAIN s = 1 .. n
      BY LenProperties DEF n
    <3> QED BY <2>1, <2>2, <3>1
  <2> HIDE DEF t
  <2>5. \A k \in 1 .. n : t[k].name = s[k].name
    BY <2>2, <2>4
  <2>6. OneName(s) => OneName(t)
    BY <2>3, <2>5 DEF OneName, n
  <2>7. sc \in Elements(t)
    BY <2>2, <2>3, <2>4 DEF Elements
  <2>8. ASSUME NEW x \in Elements(s), x.name # sc.name PROVE x \in Elements(t)
    <3>1. PICK k \in 1 .. n : s[k] = x
      BY DEF Elements, n
    <3>2. t[k] = x
      BY <2>2, <2>4, <2>8, <3>1
    <3> QED BY <2>3, <3>2 DEF Elements
  <2> QED BY <2>3, <2>6, <2>7, <2>8 DEF t
<1> HIDE DEF t
<1> QED BY <1>5, <1>6, <1>7 DEF t

(* The same of the loops of a rehash over servers and listeners.           *)
ServerLoop(s, ss, n, f) ==
  f = [j \in 0 .. n |-> IF j = 0 THEN s ELSE ServerTaken(f[j - 1], ss[j])]

LEMMA ServersTakenSteps ==
  ASSUME NEW s, NEW ss, Len(ss) \in Nat, NEW k \in 0 .. Len(ss)
  PROVE  ServersTaken(s, ss, k)
           = IF k = 0 THEN s ELSE ServerTaken(ServersTaken(s, ss, k - 1), ss[k])
<1> DEFINE A == {n \in Nat : \E f : ServerLoop(s, ss, n, f)}
           h == CHOOSE f : ServerLoop(s, ss, Len(ss), f)
<1>1. 0 \in A
  <2>1. ServerLoop(s, ss, 0, [j \in 0 .. 0 |-> s])
    BY DEF ServerLoop
  <2> QED BY <2>1
<1>2. ASSUME NEW n \in Nat, n \in A PROVE n + 1 \in A
  <2>1. PICK f : ServerLoop(s, ss, n, f)
    BY <1>2
  <2> DEFINE new == ServerTaken(f[n], ss[n + 1])
             g == [j \in 0 .. n + 1 |-> IF j = n + 1 THEN new ELSE f[j]]
  <2>2. \A j \in 0 .. n : f[j] = IF j = 0 THEN s ELSE ServerTaken(f[j - 1], ss[j])
    BY <2>1 DEF ServerLoop
  <2>3. g[n + 1] = new /\ \A j \in 0 .. n : g[j] = f[j]
    OBVIOUS
  <2>4. n \in 0 .. n /\ (n + 1) - 1 = n /\ n + 1 # 0
    OBVIOUS
  <2>5. ASSUME NEW j \in 0 .. n + 1
        PROVE  g[j] = IF j = 0 THEN s ELSE ServerTaken(g[j - 1], ss[j])
    <3>1. CASE j = n + 1
      BY <2>3, <2>4, <3>1
    <3>2. CASE j # n + 1
      <4>1. j \in 0 .. n /\ (j # 0 => j - 1 \in 0 .. n)
        BY <3>2
      <4> HIDE DEF g
      <4> QED BY <2>2, <2>3, <4>1
    <3> QED BY <3>1, <3>2
  <2>6. g = [j \in 0 .. n + 1 |-> g[j]]
    OBVIOUS
  <2> HIDE DEF g
  <2>7. ServerLoop(s, ss, n + 1, g)
    BY <2>5, <2>6 DEF ServerLoop
  <2> QED BY <2>7
<1> HIDE DEF A
<1>3. Nat \subseteq A
  BY <1>1, <1>2, Induction
<1>4. \E f : ServerLoop(s, ss, Len(ss), f)
  BY <1>3 DEF A
<1>5. ServerLoop(s, ss, Len(ss), h)
  BY <1>4
<1>6. h[k] = IF k = 0 THEN s ELSE ServerTaken(h[k - 1], ss[k])
  <2> HIDE DEF h
  <2> QED BY <1>5 DEF ServerLoop
<1>7. \A j : ServersTaken(s, ss, j) = h[j]
  BY DEF ServersTaken, ServerLoop
<1> HIDE DEF h
<1> QED BY <1>6, <1>7

ListenerLoop(s, addrs, bound, n, f) ==
  f = [j \in 0 .. n |-> IF j = 0 THEN s ELSE ListenerTaken(f[j - 1], addrs[j], bound)]

LEMMA ListenersTakenSteps ==
  ASSUME NEW s, NEW addrs, NEW bound, Len(addrs) \in Nat, NEW k \in 0 .. Len(addrs)
  PROVE  ListenersTaken(s, addrs, bound, k)
           = IF k = 0 THEN s
             ELSE ListenerTaken(ListenersTaken(s, addrs, bound, k - 1), addrs[k], bound)
<1> DEFINE A == {n \in Nat : \E f : ListenerLoop(s, addrs, bound, n, f)}
           h == CHOOSE f : ListenerLoop(s, addrs, bound, Len(addrs), f)
<1>1. 0 \in A
  <2>1. ListenerLoop(s, addrs, bound, 0, [j \in 0 .. 0 |-> s])
    BY DEF ListenerLoop
  <2> QED BY <2>1
<1>2. ASSUME NEW n \in Nat, n \in A PROVE n + 1 \in A
  <2>1. PICK f : ListenerLoop(s, addrs, bound, n, f)
    BY <1>2
  <2> DEFINE new == ListenerTaken(f[n], addrs[n + 1], bound)
             g == [j \in 0 .. n + 1 |-> IF j = n + 1 THEN new ELSE f[j]]
  <2>2. \A j \in 0 .. n : f[j] = IF j = 0 THEN s ELSE ListenerTaken(f[j - 1], addrs[j], bound)
    BY <2>1 DEF ListenerLoop
  <2>3. g[n + 1] = new /\ \A j \in 0 .. n : g[j] = f[j]
    <3> HIDE DEF new
    <3> QED OBVIOUS
  <2>4. n \in 0 .. n /\ (n + 1) - 1 = n /\ n + 1 # 0
    OBVIOUS
  <2>5. ASSUME NEW j \in 0 .. n + 1
        PROVE  g[j] = IF j = 0 THEN s ELSE ListenerTaken(g[j - 1], addrs[j], bound)
    <3>1. CASE j = n + 1
      BY <2>3, <2>4, <3>1
    <3>2. CASE j # n + 1
      <4>1. j \in 0 .. n /\ (j # 0 => j - 1 \in 0 .. n)
        BY <3>2
      <4> HIDE DEF g
      <4> QED BY <2>2, <2>3, <4>1
    <3> QED BY <3>1, <3>2
  <2>6. g = [j \in 0 .. n + 1 |-> g[j]]
    OBVIOUS
  <2> HIDE DEF g
  <2>7. ListenerLoop(s, addrs, bound, n + 1, g)
    BY <2>5, <2>6 DEF ListenerLoop
  <2>8. \E e : ListenerLoop(s, addrs, bound, n + 1, e)
    BY <2>7
  <2>9. n + 1 \in Nat
    OBVIOUS
  <2> HIDE DEF g
  <2> QED BY ZenonT(30), <2>8, <2>9
<1> HIDE DEF A
<1>3. Nat \subseteq A
  BY <1>1, <1>2, Induction
<1>4. \E f : ListenerLoop(s, addrs, bound, Len(addrs), f)
  BY <1>3 DEF A
<1>5. ListenerLoop(s, addrs, bound, Len(addrs), h)
  BY <1>4
<1>6. h[k] = IF k = 0 THEN s ELSE ListenerTaken(h[k - 1], addrs[k], bound)
  <2> HIDE DEF h
  <2> QED BY <1>5 DEF ListenerLoop
<1>7. \A j : ListenersTaken(s, addrs, bound, j) = h[j]
  BY DEF ListenersTaken, ListenerLoop
<1> HIDE DEF h
<1> QED BY <1>6, <1>7

LEMMA ServersTakenFits ==
  ASSUME NEW s \in Seq(ServerRecords), NEW ss \in Seq(ServerRecords), NEW k \in 0 .. Len(ss)
  PROVE  /\ ServersTaken(s, ss, k) \in Seq(ServerRecords)
         /\ OneName(s) => OneName(ServersTaken(s, ss, k))
         /\ OneName(ss) =>
              \A j \in 1 .. k : ss[j].pass => ss[j] \in Elements(ServersTaken(s, ss, k))
<1> DEFINE n == Len(ss)
           T(j) == ServersTaken(s, ss, j)
           Typed(j) == T(j) \in Seq(ServerRecords) /\ (OneName(s) => OneName(T(j)))
           There(j) == OneName(ss) => \A i \in 1 .. j : ss[i].pass => ss[i] \in Elements(T(j))
           A == {j \in Nat : j <= n => Typed(j) /\ There(j)}
<1>1. n \in Nat /\ \A i \in 1 .. n : ss[i] \in ServerRecords
  BY LenProperties, ElementOfSeq
<1>2. T(0) = s
  <2>1. 0 \in 0 .. n
    BY <1>1
  <2>2. T(0) = IF 0 = 0 THEN s ELSE ServerTaken(T(0 - 1), ss[0])
    BY <1>1, <2>1, ServersTakenSteps
  <2> QED BY <2>2
<1>3. ASSUME NEW j \in 1 .. n PROVE T(j) = ServerTaken(T(j - 1), ss[j])
  <2>1. j \in 0 .. n /\ j # 0
    OBVIOUS
  <2>2. T(j) = IF j = 0 THEN s ELSE ServerTaken(T(j - 1), ss[j])
    BY <1>1, <2>1, ServersTakenSteps
  <2> QED BY <2>1, <2>2
<1> HIDE DEF T
<1>4. 0 \in A
  BY <1>2
<1>5. ASSUME NEW j \in Nat, j \in A PROVE j + 1 \in A
  <2>1. SUFFICES ASSUME j + 1 <= n PROVE Typed(j + 1) /\ There(j + 1)
    OBVIOUS
  <2>2. Typed(j) /\ There(j)
    BY <1>1, <1>5, <2>1
  <2>3. j + 1 \in 1 .. n /\ (j + 1) - 1 = j
    BY <1>1, <2>1
  <2> DEFINE a == T(j)
             b == T(j + 1)
             sc == ss[j + 1]
  <2>4. b = ServerTaken(a, sc)
    BY <1>3, <2>3
  <2>5. a \in Seq(ServerRecords) /\ sc \in ServerRecords
    BY <1>1, <2>2, <2>3
  <2> HIDE DEF a, b, sc
  <2>6. /\ b \in Seq(ServerRecords)
        /\ OneName(a) => OneName(b)
        /\ sc.pass => sc \in Elements(b)
        /\ \A x \in Elements(a) : x.name # sc.name => x \in Elements(b)
    BY <2>4, <2>5, ServerTakenFits
  <2>7. Typed(j + 1)
    BY <2>2, <2>6 DEF a, b
  <2>8. ASSUME OneName(ss), NEW i \in 1 .. j + 1, ss[i].pass PROVE ss[i] \in Elements(b)
    <3>1. CASE i = j + 1
      BY <2>6, <2>8, <3>1 DEF sc
    <3>2. CASE i # j + 1
      <4>1. i \in 1 .. j /\ i \in 1 .. n
        BY <1>1, <2>1, <3>2
      <4>2. ss[i] \in Elements(a)
        BY <2>2, <2>8, <4>1 DEF a
      <4>3. ss[i].name # sc.name
        BY <2>3, <2>8, <3>2, <4>1 DEF OneName, sc
      <4> QED BY <2>6, <4>2, <4>3
    <3> QED BY <3>1, <3>2
  <2> QED BY <2>7, <2>8 DEF b
<1>6. k \in A /\ k \in Nat /\ k <= n
  <2>1. k \in Nat /\ k <= n
    BY <1>1
  <2> HIDE DEF A
  <2> QED BY <1>4, <1>5, <2>1, Induction
<1>7. Typed(k) /\ There(k)
  BY <1>6
<1> QED BY <1>7 DEF T

LEMMA KeptOneName ==
  ASSUME NEW S, NEW s \in Seq(S), NEW K, OneName(s)
  PROVE  OneName(Keep(s, K))
<1> DEFINE t == Keep(s, K)
<1>1. PICK at : KeptFrom(s, K, t, at)
  BY KeepPlaces
<1>2. t \in Seq(S)
  BY KeepPlaces
<1>3. Len(t) \in Nat /\ Len(s) \in Nat
  <2> HIDE DEF t
  <2> QED BY <1>2, LenProperties
<1> HIDE DEF t
<1>4. ASSUME NEW j \in 1 .. Len(t), NEW k \in 1 .. Len(t), t[j].name = t[k].name PROVE j = k
  <2>1. at[j] \in 1 .. Len(s) /\ at[k] \in 1 .. Len(s) /\ t[j] = s[at[j]] /\ t[k] = s[at[k]]
    BY <1>1 DEF KeptFrom
  <2>2. at[j] = at[k]
    BY <1>4, <2>1 DEF OneName
  <2>3. ~ (j < k) /\ ~ (k < j)
    BY <1>1, <1>3, <2>1, <2>2 DEF KeptFrom
  <2> QED BY <1>3, <2>3
<1>5. OneName(t)
  BY <1>4 DEF OneName
<1> QED BY <1>5 DEF t

LEMMA JustOne ==
  ASSUME NEW s \in Seq(ServerRecords), OneName(s), NEW sc \in Elements(s)
  PROVE  Cardinality({k \in DOMAIN s : s[k].name = sc.name}) = 1
<1>1. DOMAIN s = 1 .. Len(s)
  BY LenProperties
<1>2. PICK k \in 1 .. Len(s) : s[k] = sc
  BY DEF Elements
<1>3. {i \in DOMAIN s : s[i].name = sc.name} = {k}
  BY <1>1, <1>2 DEF OneName
<1> QED BY <1>3, FS_Singleton

-----------------------------------------------------------------------------
Listener == [addr : Addresses, con : {"open", "none", "unset"}]

OneAddr(s) == \A j, k \in 1 .. Len(s) : s[j].addr = s[k].addr => j = k

Addrs(s) == {l.addr : l \in Elements(s)}

(* No two listeners have a socket for the same address.                    *)
OneOpen(s) == \A j, k \in 1 .. Len(s) : s[j].con = "open" /\ s[k] = s[j] => j = k

(* The addresses of s there is a socket for.                               *)
Opens(s) == {l.addr : l \in {g \in Elements(s) : g.con = "open"}}

LEMMA ListenerTakenFits ==
  ASSUME NEW s \in Seq(Listener), NEW a \in Addresses, NEW bound
  PROVE  LET t == ListenerTaken(s, a, bound)
         IN  /\ t \in Seq(Listener)
             /\ OneAddr(s) => OneAddr(t)
             /\ OneOpen(s) => OneOpen(t)
             /\ Addrs(t) = Addrs(s) \cup {a}
             /\ a \in Addrs(s) => Opens(t) = Opens(s)
             /\ a \notin Addrs(s) => Opens(t) = Opens(s) \cup (bound \cap {a})
<1> DEFINE t == ListenerTaken(s, a, bound)
           l == [addr |-> a, con |-> IF a \in bound THEN "open" ELSE "unset"]
           p == PushFront(l, s)
           n == Len(s)
<1>1. n \in Nat /\ DOMAIN s = 1 .. n
  BY LenProperties
<1>2. (\E k \in DOMAIN s : s[k].addr = a) <=> a \in Addrs(s)
  <2>1. (\E e \in Elements(s) : e.addr = a) <=> a \in Addrs(s)
    BY DEF Addrs
  <2>2. (\E k \in DOMAIN s : s[k].addr = a) <=> \E e \in Elements(s) : e.addr = a
    BY <1>1 DEF Elements
  <2> QED BY <2>1, <2>2
<1>3. t = IF a \in Addrs(s) THEN s ELSE p
  BY <1>2 DEF ListenerTaken
<1>4. CASE a \in Addrs(s)
  BY <1>3, <1>4
<1>5. CASE a \notin Addrs(s)
  <2>1. l \in Listener /\ l.addr = a /\ (l.con = "open" <=> a \in bound)
    BY DEF Listener
  <2> HIDE DEF l
  <2>2. p \in Seq(Listener) /\ Len(p) = n + 1 /\ Elements(p) = Elements(s) \cup {l}
    <3> DEFINE S == Listener
    <3>1. s \in Seq(S) /\ l \in S
      BY <2>1
    <3> HIDE DEF S
    <3>2. p \in Seq(S) /\ Len(p) = n + 1 /\ Elements(p) = Elements(s) \cup {l}
      BY <3>1, InFront
    <3> QED BY <3>2 DEF S
  <2>3. \A k \in 1 .. n + 1 : p[k] = IF k = 1 THEN l ELSE s[k - 1]
    BY PlaceInFront
  <2>4. t = p
    BY <1>3, <1>5
  <2> HIDE DEF p, n, t
  <2>5. Addrs(p) = Addrs(s) \cup {a}
    BY <2>1, <2>2 DEF Addrs
  <2>6. Opens(p) = Opens(s) \cup (bound \cap {a})
    BY <2>1, <2>2 DEF Opens
  <2>7. ASSUME NEW i \in 1 .. Len(p), i # 1 PROVE i - 1 \in 1 .. n /\ p[i] = s[i - 1]
    <3>1. i - 1 \in 1 .. n
      BY <1>1, <2>2, <2>7
    <3>2. p[i] = s[i - 1]
      BY <2>2, <2>3, <2>7
    <3> QED BY <3>1, <3>2
  <2>8. \A i \in 1 .. n : s[i].addr # a
    BY <1>5 DEF Addrs, Elements, n
  <2>9. p[1] = l
    <3>1. 1 \in 1 .. n + 1
      BY <1>1
    <3> QED BY <2>3, <3>1
  <2>10. ASSUME NEW j \in 1 .. Len(p), NEW k \in 1 .. Len(p), p[j].addr = p[k].addr,
                j = 1 \/ k = 1
         PROVE  j = k
    <3>1. CASE j = 1
      BY <2>1, <2>7, <2>8, <2>9, <2>10, <3>1
    <3>2. CASE k = 1
      BY <2>1, <2>7, <2>8, <2>9, <2>10, <3>2
    <3> QED BY <2>10, <3>1, <3>2
  <2>11. ASSUME OneAddr(s) PROVE OneAddr(p)
    <3>1. SUFFICES ASSUME NEW j \in 1 .. Len(p), NEW k \in 1 .. Len(p), p[j].addr = p[k].addr,
                          j # 1, k # 1
                   PROVE  j = k
      BY <2>10 DEF OneAddr
    <3>2. j - 1 \in 1 .. n /\ k - 1 \in 1 .. n /\ s[j - 1].addr = s[k - 1].addr
      BY <2>7, <3>1
    <3>3. j - 1 = k - 1
      BY <2>11, <3>2 DEF OneAddr, n
    <3> QED BY <1>1, <2>2, <3>3
  <2>12. ASSUME OneOpen(s) PROVE OneOpen(p)
    <3>1. SUFFICES ASSUME NEW j \in 1 .. Len(p), NEW k \in 1 .. Len(p), p[j].con = "open",
                          p[k] = p[j], j # 1, k # 1
                   PROVE  j = k
      BY <2>10 DEF OneOpen
    <3>2. /\ j - 1 \in 1 .. n /\ k - 1 \in 1 .. n /\ s[k - 1] = s[j - 1]
          /\ s[j - 1].con = "open"
      BY <2>7, <3>1
    <3>3. j - 1 = k - 1
      BY <2>12, <3>2 DEF OneOpen, n
    <3> QED BY <1>1, <2>2, <3>3
  <2> QED BY <1>5, <2>2, <2>4, <2>5, <2>6, <2>11, <2>12 DEF t
<1> QED BY <1>4, <1>5

LEMMA ListenersTakenFits ==
  ASSUME NEW s \in Seq(Listener), OneOpen(s), NEW addrs \in Seq(Addresses),
         NEW k \in 0 .. Len(addrs),
         NEW bound, bound \subseteq {addrs[i] : i \in 1 .. k} \ Addrs(s)
  PROVE  LET t == ListenersTaken(s, addrs, bound, k)
         IN  /\ t \in Seq(Listener) /\ (OneAddr(s) => OneAddr(t)) /\ OneOpen(t)
             /\ Addrs(t) = Addrs(s) \cup {addrs[i] : i \in 1 .. k}
             /\ Opens(t) = Opens(s) \cup bound
<1> DEFINE n == Len(addrs)
           T(j) == ListenersTaken(s, addrs, bound, j)
           first(j) == {addrs[i] : i \in 1 .. j}
           Fits(j) == /\ T(j) \in Seq(Listener) /\ (OneAddr(s) => OneAddr(T(j))) /\ OneOpen(T(j))
                      /\ Addrs(T(j)) = Addrs(s) \cup first(j)
                      /\ Opens(T(j)) = Opens(s) \cup (bound \cap first(j))
           A == {j \in Nat : j <= n => Fits(j)}
<1>1. n \in Nat /\ \A i \in 1 .. n : addrs[i] \in Addresses
  BY LenProperties, ElementOfSeq
<1>2. T(0) = s
  <2>1. 0 \in 0 .. n
    BY <1>1
  <2>2. T(0) = IF 0 = 0 THEN s ELSE ListenerTaken(T(0 - 1), addrs[0], bound)
    BY <1>1, <2>1, ListenersTakenSteps
  <2> QED BY <2>2
<1>3. ASSUME NEW j \in 1 .. n PROVE T(j) = ListenerTaken(T(j - 1), addrs[j], bound)
  <2>1. j \in 0 .. n /\ j # 0
    OBVIOUS
  <2>2. T(j) = IF j = 0 THEN s ELSE ListenerTaken(T(j - 1), addrs[j], bound)
    BY <1>1, <2>1, ListenersTakenSteps
  <2> QED BY <2>1, <2>2
<1> HIDE DEF T
<1>4. 0 \in A
  <2>1. first(0) = {}
    OBVIOUS
  <2> HIDE DEF first
  <2> QED BY <1>2, <2>1
<1>5. ASSUME NEW j \in Nat, j \in A PROVE j + 1 \in A
  <2>1. SUFFICES ASSUME j + 1 <= n PROVE Fits(j + 1)
    OBVIOUS
  <2>2. Fits(j)
    BY <1>1, <1>5, <2>1
  <2>3. j + 1 \in 1 .. n /\ (j + 1) - 1 = j
    <3> HIDE DEF n, first
    <3> QED BY <1>1, <2>1
  <2> DEFINE u == T(j)
             v == T(j + 1)
             a == addrs[j + 1]
             F == first(j)
             G == first(j + 1)
  <2>4. v = ListenerTaken(u, a, bound)
    BY <1>3, <2>3
  <2>5. a \in Addresses
    BY <1>1, <2>3
  <2>6. G = F \cup {a}
    <3>1. 1 .. j + 1 = (1 .. j) \cup {j + 1}
      OBVIOUS
    <3> QED BY <3>1
  <2>7. /\ u \in Seq(Listener) /\ (OneAddr(s) => OneAddr(u)) /\ OneOpen(u)
        /\ Addrs(u) = Addrs(s) \cup F
        /\ Opens(u) = Opens(s) \cup (bound \cap F)
    BY <2>2
  <2>8. SUFFICES /\ v \in Seq(Listener) /\ (OneAddr(s) => OneAddr(v)) /\ OneOpen(v)
                 /\ Addrs(v) = Addrs(s) \cup G
                 /\ Opens(v) = Opens(s) \cup (bound \cap G)
    OBVIOUS
  <2> HIDE DEF u, v, a, F, G
  <2>9. /\ v \in Seq(Listener) /\ (OneAddr(u) => OneAddr(v)) /\ (OneOpen(u) => OneOpen(v))
        /\ Addrs(v) = Addrs(u) \cup {a}
        /\ a \in Addrs(u) => Opens(v) = Opens(u)
        /\ a \notin Addrs(u) => Opens(v) = Opens(u) \cup (bound \cap {a})
    BY <2>4, <2>5, <2>7, ListenerTakenFits
  <2>10. a \in Addrs(u) => a \in F \/ a \notin bound
    BY <2>7
  <2> QED BY <2>6, <2>7, <2>9, <2>10
<1>6. k \in A /\ k \in Nat /\ k <= n
  <2>1. k \in Nat /\ k <= n
    BY <1>1
  <2> HIDE DEF A
  <2> QED BY <1>4, <1>5, <2>1, Induction
<1>7. Fits(k)
  BY <1>6
<1>8. bound \cap first(k) = bound
  OBVIOUS
<1>9. first(k) = {addrs[i] : i \in 1 .. k}
  OBVIOUS
<1> HIDE DEF first
<1> QED BY <1>7, <1>8, <1>9 DEF T

LEMMA DistinctCount ==
  ASSUME NEW S, NEW s \in Seq(S), NoTwice(s)
  PROVE  Cardinality(Elements(s)) = Len(s)
<1> DEFINE n == Len(s)
           f == [k \in 1 .. n |-> s[k]]
<1>1. n \in Nat
  BY LenProperties
<1>2. IsFiniteSet(1 .. n) /\ Cardinality(1 .. n) = n
  <2> HIDE DEF n
  <2>1. 1 \in Int /\ n \in Int
    BY <1>1
  <2>2. Cardinality(1 .. n) = IF 1 > n THEN 0 ELSE n - 1 + 1
    BY <2>1, FS_Interval, Zenon
  <2>3. IsFiniteSet(1 .. n)
    BY <2>1, FS_Interval
  <2> QED BY <1>1, <2>2, <2>3
<1>3. f \in Bijection(1 .. n, Elements(s))
  <2>1. \A k \in 1 .. n : f[k] = s[k]
    OBVIOUS
  <2>2. f \in [1 .. n -> Elements(s)]
    BY DEF Elements
  <2> HIDE DEF f
  <2>3. f \in Injection(1 .. n, Elements(s))
    BY <2>1, <2>2 DEF Injection, IsInjective, NoTwice
  <2>4. \A x \in Elements(s) : \E k \in 1 .. n : f[k] = x
    BY <2>1 DEF Elements
  <2> QED BY <2>2, <2>3, <2>4 DEF Bijection, Surjection
<1>4. ExistsBijection(1 .. n, Elements(s))
  BY <1>3 DEF ExistsBijection
<1> HIDE DEF n
<1>5. Cardinality(Elements(s)) = Cardinality(1 .. n)
  BY <1>2, <1>4, FS_Bijection
<1> QED BY <1>2, <1>5 DEF n

LEMMA SameLen ==
  ASSUME NEW s \in Seq(Listener), OneAddr(s), NEW addrs \in Seq(Addresses), NoTwice(addrs),
         Addrs(s) = Elements(addrs)
  PROVE  Len(s) = Len(addrs)
<1> DEFINE n == Len(s)
           u == [k \in 1 .. n |-> s[k].addr]
<1>1. n \in Nat /\ \A k \in 1 .. n : s[k] \in Listener
  BY LenProperties, ElementOfSeq
<1>2. u \in [1 .. n -> Addresses] /\ \A k \in 1 .. n : u[k] = s[k].addr
  BY <1>1 DEF Listener
<1> HIDE DEF u
<1>3. u \in Seq(Addresses) /\ Len(u) = n
  <2> HIDE DEF n
  <2>1. u \in Seq(Addresses)
    BY <1>1, <1>2, SeqDef
  <2>2. DOMAIN u = 1 .. n
    BY <1>2
  <2> QED BY <1>1, <2>1, <2>2, LenProperties
<1>4. NoTwice(u)
  BY <1>2, <1>3 DEF NoTwice, OneAddr
<1>5. Elements(u) = Addrs(s)
  <2>1. \A x \in Elements(u) : x \in Addrs(s)
    BY <1>2, <1>3 DEF Elements, Addrs
  <2>2. ASSUME NEW x \in Addrs(s) PROVE x \in Elements(u)
    <3>1. PICK l \in Elements(s) : l.addr = x
      BY DEF Addrs
    <3>2. PICK k \in 1 .. n : s[k] = l
      BY DEF Elements
    <3>3. k \in 1 .. Len(u) /\ u[k] = x
      BY <1>2, <1>3, <3>1, <3>2
    <3> QED BY <3>3 DEF Elements
  <2> QED BY <2>1, <2>2
<1>6. Cardinality(Elements(u)) = Len(u)
  BY <1>3, <1>4, DistinctCount
<1>7. Cardinality(Elements(addrs)) = Len(addrs)
  BY DistinctCount
<1> QED BY <1>3, <1>5, <1>6, <1>7

(* The listeners that stay, and the sockets of those that go.              *)
Staying(s, stays) == Keep(s, {l \in Elements(s) : l.addr \in stays})

Going(s, stays) ==
  {l.addr : l \in {g \in {e \in Elements(s) : e.addr \notin stays} : g.con = "open"}}

LEMMA KeptListeners ==
  ASSUME NEW s \in Seq(Listener), NEW stays
  PROVE  LET t == Staying(s, stays)
         IN  /\ t \in Seq(Listener) /\ (OneAddr(s) => OneAddr(t)) /\ (OneOpen(s) => OneOpen(t))
             /\ Addrs(t) = Addrs(s) \cap stays
             /\ Opens(t) = Opens(s) \ Going(s, stays)
<1> DEFINE K == {l \in Elements(s) : l.addr \in stays}
           t == Keep(s, K)
<1>1. t \in Seq(Listener) /\ Elements(t) = Elements(s) \cap K
  BY KeepKeeps
<1>2. PICK at : KeptFrom(s, K, t, at)
  BY KeepPlaces
<1>3. Len(t) \in Nat /\ Len(s) \in Nat
  <2> HIDE DEF t
  <2> QED BY <1>1, LenProperties
<1> HIDE DEF t
<1>4. ASSUME NEW j \in 1 .. Len(t), NEW k \in 1 .. Len(t)
      PROVE  /\ at[j] \in 1 .. Len(s) /\ at[k] \in 1 .. Len(s) /\ t[j] = s[at[j]] /\ t[k] = s[at[k]]
             /\ at[j] = at[k] => j = k
  <2>1. at[j] \in 1 .. Len(s) /\ at[k] \in 1 .. Len(s) /\ t[j] = s[at[j]] /\ t[k] = s[at[k]]
    BY <1>2 DEF KeptFrom
  <2>2. ASSUME at[j] = at[k] PROVE j = k
    <3>1. ~ (j < k) /\ ~ (k < j)
      BY <1>2, <1>3, <2>1, <2>2 DEF KeptFrom
    <3> QED BY <1>3, <3>1
  <2> QED BY <2>1, <2>2
<1>5. (OneAddr(s) => OneAddr(t)) /\ (OneOpen(s) => OneOpen(t))
  <2>1. ASSUME OneAddr(s), NEW j \in 1 .. Len(t), NEW k \in 1 .. Len(t), t[j].addr = t[k].addr
        PROVE  j = k
    <3>1. s[at[j]].addr = s[at[k]].addr /\ at[j] \in 1 .. Len(s) /\ at[k] \in 1 .. Len(s)
      BY <1>4, <2>1
    <3>2. at[j] = at[k]
      BY <2>1, <3>1 DEF OneAddr
    <3> QED BY <1>4, <3>2
  <2>2. ASSUME OneOpen(s), NEW j \in 1 .. Len(t), NEW k \in 1 .. Len(t), t[j].con = "open",
               t[k] = t[j]
        PROVE  j = k
    <3>1. /\ s[at[k]] = s[at[j]] /\ s[at[j]].con = "open"
          /\ at[j] \in 1 .. Len(s) /\ at[k] \in 1 .. Len(s)
      BY <1>4, <2>2
    <3>2. at[j] = at[k]
      BY <2>2, <3>1 DEF OneOpen
    <3> QED BY <1>4, <3>2
  <2> QED BY <2>1, <2>2 DEF OneAddr, OneOpen
<1>6. \A l : l \in Elements(t) <=> l \in Elements(s) /\ l.addr \in stays
  BY <1>1
<1>7. Addrs(t) = Addrs(s) \cap stays
  BY <1>6 DEF Addrs
<1>8. Opens(t) = Opens(s) \ {l.addr : l \in {g \in {e \in Elements(s) : e.addr \notin stays} :
                                               g.con = "open"}}
  <2>1. ASSUME NEW x \in Opens(t)
        PROVE  x \in Opens(s) /\ x \in stays
    BY <1>6 DEF Opens
  <2>2. ASSUME NEW x \in Opens(s), x \in stays PROVE x \in Opens(t)
    BY <1>6, <2>2 DEF Opens
  <2>3. ASSUME NEW x \in Opens(s), x \notin stays
        PROVE  x \in {l.addr : l \in {g \in {e \in Elements(s) : e.addr \notin stays} :
                                        g.con = "open"}}
    BY <2>3 DEF Opens
  <2> QED BY <2>1, <2>2, <2>3
<1> QED BY <1>1, <1>5, <1>7, <1>8 DEF t, Staying, Going

(* The listeners at the start.                                             *)
First(addrs, bound) ==
  [k \in DOMAIN addrs |->
     [addr |-> addrs[k],
      con |-> IF addrs[k] \in bound /\ Foremost(addrs, k) THEN "open" ELSE "none"]]

LEMMA FirstListeners ==
  ASSUME NEW addrs \in Seq(Addresses), NEW bound, bound \subseteq Elements(addrs)
  PROVE  LET s == First(addrs, bound)
         IN  /\ s \in Seq(Listener) /\ (NoTwice(addrs) => OneAddr(s)) /\ OneOpen(s)
             /\ Addrs(s) = Elements(addrs) /\ Opens(s) = bound
<1> DEFINE n == Len(addrs)
           s == First(addrs, bound)
<1>1. n \in Nat /\ DOMAIN addrs = 1 .. n /\ \A k \in 1 .. n : addrs[k] \in Addresses
  BY LenProperties, ElementOfSeq
<1> HIDE DEF n
<1>2. s = [k \in 1 .. n |->
            [addr |-> addrs[k],
             con |-> IF addrs[k] \in bound /\ Foremost(addrs, k) THEN "open" ELSE "none"]]
  BY <1>1 DEF First
<1> HIDE DEF s
<1>3. \A k \in 1 .. n : /\ s[k] \in Listener /\ s[k].addr = addrs[k]
                        /\ s[k].con = "open" <=> addrs[k] \in bound /\ Foremost(addrs, k)
  BY <1>1, <1>2 DEF Listener
<1>4. s \in [1 .. n -> Listener]
  BY <1>2, <1>3
<1>5. s \in Seq(Listener) /\ Len(s) = n
  <2>1. s \in Seq(Listener)
    BY <1>1, <1>4, SeqDef
  <2>2. DOMAIN s = 1 .. n
    BY <1>4
  <2> QED BY <1>1, <2>1, <2>2, LenProperties
<1>6. NoTwice(addrs) => OneAddr(s)
  BY <1>3, <1>5 DEF OneAddr, NoTwice, n
<1>7. OneOpen(s)
  <2>1. SUFFICES ASSUME NEW j \in 1 .. n, NEW k \in 1 .. n, s[j].con = "open", s[k] = s[j]
                 PROVE  j = k
    BY <1>5 DEF OneOpen
  <2>2. Foremost(addrs, j) /\ Foremost(addrs, k) /\ addrs[j] = addrs[k]
    BY <1>3, <2>1
  <2>3. ~ (j < k) /\ ~ (k < j)
    <3>1. j < k => j \in 1 .. k - 1
      BY <1>1
    <3>2. k < j => k \in 1 .. j - 1
      BY <1>1
    <3> QED BY <2>2, <3>1, <3>2 DEF Foremost
  <2> QED BY <1>1, <2>3
<1>8. Addrs(s) = Elements(addrs)
  <2>1. ASSUME NEW x \in Addrs(s) PROVE x \in Elements(addrs)
    <3>1. PICK k \in 1 .. n : s[k].addr = x
      BY <1>5 DEF Addrs, Elements
    <3> QED BY <1>3, <3>1 DEF Elements, n
  <2>2. ASSUME NEW x \in Elements(addrs) PROVE x \in Addrs(s)
    <3>1. PICK k \in 1 .. n : addrs[k] = x
      BY DEF Elements, n
    <3>2. s[k] \in Elements(s) /\ s[k].addr = x
      BY <1>3, <1>5, <3>1 DEF Elements
    <3> QED BY <3>2 DEF Addrs
  <2> QED BY <2>1, <2>2
<1>9. Opens(s) = bound
  <2>1. ASSUME NEW x \in Opens(s) PROVE x \in bound
    <3>1. PICK l \in Elements(s) : l.con = "open" /\ l.addr = x
      BY DEF Opens
    <3>2. PICK k \in 1 .. n : s[k] = l
      BY <1>5 DEF Elements
    <3> QED BY <1>3, <3>1, <3>2
  <2>2. ASSUME NEW x \in bound PROVE x \in Opens(s)
    <3> DEFINE at == {k \in 1 .. n : addrs[k] = x}
               k == Min(at)
    <3>1. at # {}
      BY DEF Elements, n
    <3>2. at \subseteq Nat
      BY <1>1
    <3>3. \A j \in 1 .. n : j \in at <=> addrs[j] = x
      OBVIOUS
    <3>4. at \subseteq 1 .. n
      OBVIOUS
    <3> HIDE DEF at
    <3>5. k \in at /\ \A j \in at : k <= j
      BY <3>1, <3>2, MinIsLeast
    <3> HIDE DEF k
    <3>6. k \in 1 .. n /\ addrs[k] = x
      BY <3>3, <3>4, <3>5
    <3>7. Foremost(addrs, k)
      <4>1. SUFFICES ASSUME NEW j \in 1 .. k - 1, addrs[j] = addrs[k] PROVE FALSE
        BY DEF Foremost
      <4>2. j \in 1 .. n /\ j < k
        BY <1>1, <3>6
      <4>3. j \in at /\ ~ (k <= j)
        BY <1>1, <3>3, <3>6, <4>1, <4>2
      <4> QED BY <3>5, <4>3
    <3>8. s[k] \in Elements(s) /\ s[k].addr = x /\ s[k].con = "open"
      BY <1>3, <1>5, <3>6, <3>7 DEF Elements
    <3> QED BY <3>8 DEF Opens
  <2> QED BY <2>1, <2>2
<1> QED BY <1>5, <1>6, <1>7, <1>8, <1>9 DEF s

-----------------------------------------------------------------------------
Up == {m \in Mods : mod[m].state = "up"}

(* What is in the lists in every phase of siconf_parse: the file is read   *)
(* in some of them, and only they have modules still to load.              *)
PhasesFit ==
  /\ phase \in {"off", "boot", "unload", "load", "remove", "idle"}
  /\ file \in Files \cup {NULL} /\ applied \in Files \cup {NULL} /\ refused \subseteq Mods
  /\ phase \in {"boot", "load"} => file # NULL
  /\ phase \in {"off", "idle"} => file = NULL
  /\ phase \notin {"boot", "load"} => todo = <<>>
  /\ phase # "idle" => applied = NULL
  /\ phase \in {"off", "unload"} => refused = {}
  /\ phase = "off" => listed = <<>> /\ order = <<>>

(* The modules that are up are the ones in the order they were loaded in,  *)
(* and in the list, which has them in that order too.                      *)
ListsFit ==
  /\ listed \in Seq(Mods) /\ NoTwice(listed)
  /\ todo \in Seq(Mods) /\ NoTwice(todo)
  /\ order \in Seq(Mods) /\ NoTwice(order)
  /\ Elements(order) = Up /\ Up \subseteq Elements(listed) /\ InLine(order, listed)
  /\ \A m \in Elements(listed) : Loaded(m) \/ (phase = "boot" /\ m \in Elements(todo))
  /\ last \in Mods \cup {NULL} /\ cursor \in Mods \cup {NULL}
  /\ phase # "unload" => last = LastOf(listed)

(* The loop that unloads has come by every module from the end on, and     *)
(* all that are up are before it.                                          *)
CursorFits ==
  phase = "unload" =>
    /\ cursor # NULL => cursor \in Elements(listed)
    /\ \A m \in Up : cursor # NULL /\ (m = cursor \/ Ahead(listed, m, cursor))

(* At the start the list is the file's, and what is loaded comes in it     *)
(* before what is still to load.                                           *)
BootFits ==
  phase = "boot" =>
    /\ InLine(todo, listed) /\ Elements(todo) \subseteq Elements(listed)
    /\ \A x \in Elements(order), y \in Elements(todo) : Ahead(listed, x, y)

(* The modules that are up are those of the file the loop came by, but for *)
(* the refused ones and those that could not be unloaded.                  *)
UpFrom(f) ==
  Up = {m \in Elements(f.mods) \ (refused \cup Elements(todo)) : mod[m].state # "stuck"}

FileFits ==
  /\ file # NULL /\ phase \in {"boot", "load", "remove"} =>
       /\ UpFrom(file) /\ Elements(todo) \subseteq Elements(file.mods)
       /\ refused \cap Elements(todo) = {}
  /\ applied # NULL => UpFrom(applied)

ModulesInOrder == PhasesFit /\ ListsFit /\ CursorFits /\ BootFits /\ FileFits

OneEverywhere == \A f \in Files : OneEach(f)

(* A file's servers that have passwords are known.                         *)
KnownServers(f) == \A sc \in Elements(f.servers) : sc.pass => sc \in Elements(servers)

ServersHold ==
  /\ servers \in Seq(ServerRecords)
  /\ phase = "boot" => servers = file.servers
  /\ OneEverywhere =>
       /\ OneName(servers)
       /\ file # NULL /\ phase \in {"load", "remove"} => KnownServers(file)
       /\ applied # NULL => KnownServers(applied)
  /\ applied # NULL => \A sc \in Elements(servers) : AddressIn(applied, sc)

NoPortTwice == \A f \in Files : NoTwice(f.listeners)

PortsHold ==
  /\ listeners \in Seq(Listener) /\ OneOpen(listeners) /\ open = Opens(listeners)
  /\ NoPortTwice => OneAddr(listeners)
  /\ phase = "boot" => Addrs(listeners) = Elements(file.listeners)
  /\ file # NULL /\ phase \in {"load", "remove"} =>
       Elements(file.listeners) \subseteq Addrs(listeners)
  /\ applied # NULL => Addrs(listeners) = Elements(applied.listeners)

RehashHolds == ModulesHold /\ ModulesInOrder /\ ServersHold /\ PortsHold

(* How one module's state moves.                                           *)
Moves(m, S) ==
  /\ mod'[m].state \in S
  /\ \A o \in Mods : o # m => mod'[o].state = mod[o].state

LEMMA StatesMove ==
  ASSUME ModulesHold, NEW m \in Mods
  PROVE  /\ Load(m) => ~ Loaded(m) /\ Moves(m, {"up"})
         /\ LoadFails(m) => ~ Loaded(m) /\ Moves(m, {"removed", "stuck"})
         /\ LoadRefused(m) => ~ Loaded(m) /\ Moves(m, {mod[m].state}) /\ UNCHANGED modvars
         /\ Unload(m) => Moves(m, {"removed"})
         /\ UnloadSticks(m) => Moves(m, {"stuck"})
<1>1. mod \in [Mods -> [state : States, id : Nat]]
  BY DEF ModulesHold
<1>2. ASSUME NEW st, NEW i, mod' = [mod EXCEPT ![m] = [state |-> st, id |-> i]]
      PROVE  Moves(m, {st})
  BY <1>1, <1>2 DEF Moves
<1>3. ASSUME NEW st, mod' = [mod EXCEPT ![m].state = st] PROVE Moves(m, {st})
  <2> DEFINE r == mod[m]
  <2>1. r \in [state : States, id : Nat]
    BY <1>1
  <2>2. mod' = [mod EXCEPT ![m] = [r EXCEPT !.state = st]]
    BY <1>3
  <2> HIDE DEF r
  <2>3. [r EXCEPT !.state = st].state = st
    BY <2>1
  <2> QED BY <1>1, <2>2, <2>3 DEF Moves
<1>4. Load(m) => ~ Loaded(m) /\ Moves(m, {"up"})
  BY <1>2 DEF Load
<1>5. LoadFails(m) => ~ Loaded(m) /\ Moves(m, {"removed", "stuck"})
  <2>1. SUFFICES ASSUME LoadFails(m) PROVE Moves(m, {"removed", "stuck"}) /\ ~ Loaded(m)
    OBVIOUS
  <2>2. PICK st \in {"removed", "stuck"} :
          mod' = [mod EXCEPT ![m] = [state |-> st, id |-> IdFor(m)]]
    BY <2>1 DEF LoadFails
  <2>3. Moves(m, {st})
    BY <1>2, <2>2
  <2> QED BY <2>1, <2>2, <2>3 DEF LoadFails, Moves
<1>6. LoadRefused(m) => ~ Loaded(m) /\ Moves(m, {mod[m].state}) /\ UNCHANGED modvars
  BY DEF LoadRefused, Moves, modvars
<1>7. Unload(m) => Moves(m, {"removed"})
  BY <1>3 DEF Unload
<1>8. UnloadSticks(m) => Moves(m, {"stuck"})
  BY <1>3 DEF UnloadSticks
<1> QED BY <1>4, <1>5, <1>6, <1>7, <1>8

LEMMA UpMoves ==
  ASSUME NEW m \in Mods, NEW S, Moves(m, S)
  PROVE  /\ S = {"up"} => Up' = Up \cup {m}
         /\ "up" \notin S => Up' = Up \ {m}
         /\ \A x \in Mods : x # m => (Loaded(x)' <=> Loaded(x))
         /\ \A x \in Mods : x # m => mod'[x].state = mod[x].state
         /\ mod'[m].state \in S
<1>1. \A x \in Mods : x # m => mod'[x].state = mod[x].state
  BY DEF Moves
<1>2. mod'[m].state \in S
  BY DEF Moves
<1>3. \A x \in Mods : x # m => (Loaded(x)' <=> Loaded(x))
  BY <1>1 DEF Loaded
<1> QED BY <1>1, <1>2, <1>3 DEF Up

(* Modules that were loaded later are not up when one before them goes.    *)
NewestGoes ==
  \A j, k \in DOMAIN order :
    (j < k /\ phase' # "off" /\ mod'[order[j]].state # "up") => mod'[order[k]].state # "up"

LEMMA UpStays ==
  ASSUME ListsFit, \A x \in Up : mod'[x].state = "up"
  PROVE  NewestGoes
<1>1. \A k \in DOMAIN order : order[k] \in Up
  <2>1. order \in Seq(Mods) /\ Elements(order) = Up
    BY DEF ListsFit
  <2>2. DOMAIN order = 1 .. Len(order)
    BY <2>1, LenProperties
  <2> QED BY <2>1, <2>2 DEF Elements
<1> QED BY <1>1 DEF NewestGoes

LEMMA NobodyUp ==
  ASSUME ListsFit, phase = "off" \/ (phase = "unload" /\ cursor = NULL), PhasesFit, CursorFits
  PROVE  Up = {} /\ order = <<>> /\ InLine(order, listed)
<1>1. order \in Seq(Mods) /\ Elements(order) = Up /\ InLine(order, listed)
  BY DEF ListsFit
<1>2. CASE phase = "off"
  <2>1. order = <<>>
    BY <1>2 DEF PhasesFit
  <2>2. Elements(<<>>) = {}
    BY DEF Elements
  <2> QED BY <1>1, <2>1, <2>2
<1>3. CASE phase = "unload" /\ cursor = NULL
  <2>1. Up = {}
    BY <1>3 DEF CursorFits
  <2> QED BY <1>1, <2>1, InList
<1> QED BY <1>2, <1>3

LEMMA UnloadNextOrders ==
  ASSUME ModulesHold, ModulesInOrder, UnloadNext
  PROVE  ModulesInOrder' /\ NewestGoes
<1> DEFINE c == cursor
           b == cursor'
           l == listed'
           o == order'
<1>1. /\ phase = "unload" /\ phase' = "unload" /\ c # NULL
      /\ b = Before(listed, c) /\ o = Keep(order, Mods \ {c})
      /\ file' = file /\ last' = last /\ todo' = todo /\ applied' = applied /\ refused' = refused
  BY DEF UnloadNext
<1>2. /\ listed \in Seq(Mods) /\ NoTwice(listed) /\ order \in Seq(Mods) /\ NoTwice(order)
      /\ Elements(order) = Up /\ Up \subseteq Elements(listed) /\ InLine(order, listed)
      /\ \A m \in Elements(listed) : Loaded(m)
  BY <1>1 DEF ModulesInOrder, ListsFit
<1>3. c \in Elements(listed) /\ c \in Mods /\ Elements(listed) \subseteq Mods
  <2>1. c \in Elements(listed)
    BY <1>1 DEF ModulesInOrder, CursorFits
  <2>2. Elements(listed) \subseteq Mods
    BY <1>2, InList
  <2> QED BY <2>1, <2>2
<1>4. \/ Unload(c) /\ l = Keep(listed, Mods \ {c})
      \/ UnloadSticks(c) /\ l = listed
  BY <1>2, <1>3 DEF UnloadNext
<1>5. \/ Moves(c, {"removed"}) /\ l = Keep(listed, Mods \ {c})
      \/ Moves(c, {"stuck"}) /\ l = listed
  BY <1>3, <1>4, StatesMove
<1> HIDE DEF c, b, l, o
<1>6. /\ l \in Seq(Mods) /\ NoTwice(l)
      /\ \A x : x \in Elements(l) => x \in Elements(listed)
      /\ \A x \in Elements(listed) : x # c => x \in Elements(l)
      /\ \A x, y \in Mods : x # c /\ y # c /\ Ahead(listed, x, y) => Ahead(l, x, y)
  <2>1. CASE l = listed
    BY <1>2, <2>1
  <2>2. CASE l = Keep(listed, Mods \ {c})
    <3>1. /\ l \in Seq(Mods) /\ NoTwice(l)
          /\ Elements(l) = Elements(listed) \cap (Mods \ {c})
      BY <1>2, <2>2, KeepKeeps
    <3>2. ASSUME NEW x \in Mods, NEW y \in Mods, x # c, y # c, Ahead(listed, x, y)
          PROVE  Ahead(l, x, y)
      <4>1. x \in Mods \ {c} /\ y \in Mods \ {c}
        BY <3>2
      <4> QED BY <1>2, <2>2, <3>2, <4>1, KeepAhead
    <3> QED BY <1>3, <3>1, <3>2
  <2> QED BY <1>5, <2>1, <2>2
<1>7. /\ Up' = Up \ {c}
      /\ \A x \in Mods : x # c => (Loaded(x)' <=> Loaded(x))
      /\ \A x \in Mods : x # c => mod'[x].state = mod[x].state
  BY <1>3, <1>5, UpMoves
<1>8. /\ o \in Seq(Mods) /\ NoTwice(o) /\ Elements(o) = Up'
      /\ InLine(o, listed)
  <2>1. o \in Seq(Mods) /\ NoTwice(o) /\ Elements(o) = Up \cap (Mods \ {c})
    BY <1>1, <1>2, KeepKeeps
  <2>2. Up \subseteq Mods
    BY DEF Up
  <2>3. InLine(o, listed)
    BY <1>1, <1>2, KeepInLine
  <2> QED BY <1>7, <2>1, <2>2, <2>3
<1>9. InLine(o, l)
  <2>1. SUFFICES ASSUME NEW j \in 1 .. Len(o), NEW k \in 1 .. Len(o), j < k
                 PROVE  Ahead(l, o[j], o[k])
    BY DEF InLine
  <2>2. Ahead(listed, o[j], o[k])
    BY <1>8, <2>1 DEF InLine
  <2>3. o[j] \in Up' /\ o[k] \in Up'
    BY <1>8 DEF Elements
  <2>4. \A x \in Up' : x \in Mods /\ x # c
    BY <1>7 DEF Up
  <2> QED BY <1>6, <2>2, <2>3, <2>4
<1>10. Up' \subseteq Elements(l)
  BY <1>2, <1>6, <1>7
<1>11. ASSUME NEW m \in Elements(l) PROVE Loaded(m)'
  <2>1. m \in Elements(listed) /\ m \in Mods /\ Loaded(m)
    BY <1>2, <1>3, <1>6
  <2>2. CASE m # c
    BY <1>7, <2>1, <2>2
  <2>3. CASE m = c
    <3>1. l # Keep(listed, Mods \ {c})
      <4>1. Elements(Keep(listed, Mods \ {c})) = Elements(listed) \cap (Mods \ {c})
        BY <1>2, KeepKeeps
      <4> QED BY <2>3, <4>1
    <3>2. mod'[c].state = "stuck"
      BY <1>5, <3>1 DEF Moves
    <3> QED BY <2>3, <3>2 DEF Loaded
  <2> QED BY <2>2, <2>3
<1>12. NULL \notin Mods
  BY RehashAssumption
<1>13. /\ b = NULL => \A y : ~ Ahead(listed, y, c)
       /\ b # NULL => /\ b \in Elements(listed) /\ b # c
                      /\ \A y : Ahead(listed, y, c) => y = b \/ Ahead(listed, y, b)
  BY <1>1, <1>2, <1>3, <1>12, BeforeIsBefore
<1>14. b # NULL => b \in Elements(l) /\ b \in Mods
  BY <1>3, <1>6, <1>13
<1>15. ASSUME NEW m \in Up' PROVE b # NULL /\ (m = b \/ Ahead(l, m, b))
  <2>1. m \in Up /\ m # c /\ m \in Mods
    BY <1>7 DEF Up
  <2>2. Ahead(listed, m, c)
    BY <1>1, <2>1 DEF ModulesInOrder, CursorFits, c
  <2> QED BY <1>3, <1>6, <1>13, <2>1, <2>2
<1>16. ListsFit'
  BY <1>1, <1>6, <1>8, <1>9, <1>10, <1>11, <1>14 DEF ModulesInOrder, ListsFit, b, l, o
<1>17. PhasesFit' /\ CursorFits' /\ BootFits' /\ FileFits'
  <2>1. PhasesFit'
    BY <1>1 DEF ModulesInOrder, PhasesFit
  <2>2. CursorFits'
    BY <1>1, <1>14, <1>15 DEF CursorFits, b, l
  <2>3. BootFits' /\ FileFits'
    BY <1>1 DEF ModulesInOrder, PhasesFit, BootFits, FileFits
  <2> QED BY <2>1, <2>2, <2>3
<1>18. NewestGoes
  <2>1. SUFFICES ASSUME NEW j \in DOMAIN order, NEW k \in DOMAIN order, j < k,
                        mod'[order[j]].state # "up", mod'[order[k]].state = "up"
                 PROVE  FALSE
    BY DEF NewestGoes
  <2>2. j \in 1 .. Len(order) /\ k \in 1 .. Len(order)
    BY <1>2, LenProperties
  <2>3. Ahead(listed, order[j], order[k])
    BY <1>2, <2>1, <2>2 DEF InLine
  <2>4. order[j] \in Up /\ order[k] \in Up
    BY <1>2, <2>2 DEF Elements
  <2>5. order[j] = c
    BY <1>7, <2>1, <2>4 DEF Up
  <2>6. order[k] # c /\ ~ Ahead(listed, order[k], c)
    BY <1>2, <2>3, <2>5, OneWay
  <2>7. order[k] = c \/ Ahead(listed, order[k], c)
    BY <1>1, <2>4 DEF ModulesInOrder, CursorFits, c
  <2> QED BY <2>6, <2>7
<1> QED BY <1>16, <1>17, <1>18 DEF ModulesInOrder

LEMMA EmptyList ==
  /\ Elements(<<>>) = {} /\ NoTwice(<<>>) /\ LastOf(<<>>) = NULL
  /\ \A S : <<>> \in Seq(S)
  /\ \A s : InLine(<<>>, s)
BY DEF Elements, NoTwice, LastOf, InLine

LEMMA LastIsSome ==
  ASSUME NEW s \in Seq(Mods)
  PROVE  LastOf(s) \in Mods \cup {NULL}
<1>1. s # <<>> => LastOf(s) \in Elements(s)
  BY LastIsLast
<1>2. Elements(s) \subseteq Mods
  BY InList
<1>3. s = <<>> => LastOf(s) = NULL
  BY DEF LastOf
<1> QED BY <1>1, <1>2, <1>3

LEMMA FilesMods ==
  ASSUME NEW f \in Files
  PROVE  /\ f.mods \in Seq(Mods) /\ NoTwice(f.mods) /\ f # NULL
         /\ f.servers \in Seq(ServerRecords)
         /\ f.listeners \in Seq(Addresses)
BY RehashAssumption

(* Nothing but its own place changes for a module that stays in line.      *)
LEMMA OwnLine ==
  ASSUME NEW S, NEW s \in Seq(S)
  PROVE  InLine(s, s)
<1>1. ASSUME NEW j \in 1 .. Len(s), NEW k \in 1 .. Len(s), j < k PROVE Ahead(s, s[j], s[k])
  BY <1>1 DEF Ahead
<1> QED BY <1>1 DEF InLine

LEMMA StartOrders ==
  ASSUME ModulesInOrder, NEW f \in Files, Start(f)
  PROVE  ModulesInOrder' /\ NewestGoes
<1>1. /\ phase = "off" /\ phase' = "boot" /\ file' = f /\ todo' = f.mods
      /\ listed' = f.mods /\ last' = LastOf(f.mods)
      /\ mod' = mod /\ cursor' = cursor /\ applied' = applied /\ refused' = refused
      /\ order' = order
  BY DEF Start, modvars
<1>2. Up = {} /\ order = <<>>
  BY <1>1, NobodyUp DEF ModulesInOrder
<1>3. Up' = Up
  BY <1>1 DEF Up
<1>4. f.mods \in Seq(Mods) /\ NoTwice(f.mods) /\ f # NULL
  BY FilesMods
<1>5. refused = {} /\ applied = NULL /\ f \in Files \cup {NULL}
  BY <1>1 DEF ModulesInOrder, PhasesFit
<1>6. PhasesFit'
  <2>1. refused \subseteq Mods /\ applied \in Files \cup {NULL}
    BY DEF ModulesInOrder, PhasesFit
  <2> QED BY <1>1, <1>4, <1>5, <2>1 DEF PhasesFit
<1>7. ListsFit'
  <2>1. LastOf(f.mods) \in Mods \cup {NULL} /\ cursor \in Mods \cup {NULL}
    BY <1>4, LastIsSome DEF ModulesInOrder, ListsFit
  <2>2. /\ order' \in Seq(Mods) /\ NoTwice(order') /\ Elements(order') = Up'
        /\ InLine(order', listed')
    BY <1>1, <1>2, <1>3, EmptyList
  <2> QED BY <1>1, <1>2, <1>3, <1>4, <2>1, <2>2 DEF ListsFit
<1>8. CursorFits' /\ BootFits'
  <2>1. InLine(f.mods, f.mods)
    BY <1>4, OwnLine
  <2> QED BY <1>1, <1>2, <2>1, EmptyList DEF CursorFits, BootFits
<1>9. FileFits'
  BY <1>1, <1>2, <1>3, <1>5 DEF FileFits, UpFrom
<1>10. NewestGoes
  BY <1>2, UpStays DEF ModulesInOrder
<1> QED BY <1>6, <1>7, <1>8, <1>9, <1>10 DEF ModulesInOrder

LEMMA HupOrders ==
  ASSUME ModulesInOrder, NEW f \in Files \cup {NULL}, Hup(f)
  PROVE  ModulesInOrder' /\ NewestGoes
<1>1. /\ phase = "idle" /\ phase' = "unload" /\ file' = f /\ cursor' = last
      /\ refused' = {} /\ applied' = NULL
      /\ mod' = mod /\ listed' = listed /\ last' = last /\ todo' = todo /\ order' = order
  BY DEF Hup, modvars
<1>2. Up' = Up /\ \A m \in Mods : Loaded(m)' <=> Loaded(m)
  BY <1>1 DEF Up, Loaded
<1>3. PhasesFit'
  BY <1>1 DEF ModulesInOrder, PhasesFit
<1>4. /\ listed \in Seq(Mods) /\ last = LastOf(listed) /\ Up \subseteq Elements(listed)
      /\ \A m \in Elements(listed) : Loaded(m)
      /\ Elements(listed) \subseteq Mods
  <2>1. /\ listed \in Seq(Mods) /\ last = LastOf(listed) /\ Up \subseteq Elements(listed)
        /\ \A m \in Elements(listed) : Loaded(m)
    BY <1>1 DEF ModulesInOrder, ListsFit
  <2> QED BY <2>1, InList
<1>5. ListsFit'
  BY <1>1, <1>2, <1>4 DEF ModulesInOrder, ListsFit
<1>6. CursorFits'
  <2>1. CASE listed = <<>>
    <3>1. last = NULL /\ Up = {}
      BY <1>4, <2>1, EmptyList
    <3> QED BY <1>1, <1>2, <3>1 DEF CursorFits
  <2>2. CASE listed # <<>>
    <3>1. /\ last \in Elements(listed)
          /\ \A x \in Elements(listed) : x = last \/ Ahead(listed, x, last)
      BY <1>4, <2>2, LastIsLast
    <3>2. last # NULL
      BY <1>4, <3>1, RehashAssumption
    <3> QED BY <1>1, <1>2, <1>4, <3>1, <3>2 DEF CursorFits
  <2> QED BY <2>1, <2>2
<1>7. BootFits' /\ FileFits'
  BY <1>1 DEF BootFits, FileFits
<1>8. NewestGoes
  BY <1>1, UpStays DEF ModulesInOrder, Up
<1> QED BY <1>3, <1>5, <1>6, <1>7, <1>8 DEF ModulesInOrder

LEMMA TakeOverOrders ==
  ASSUME ModulesInOrder, TakeOver
  PROVE  ModulesInOrder' /\ NewestGoes
<1>1. /\ phase = "unload" /\ cursor = NULL /\ last' = LastOf(listed)
      /\ file' = IF phase' = "idle" THEN NULL ELSE file
      /\ mod' = mod /\ listed' = listed /\ cursor' = cursor /\ applied' = applied
      /\ refused' = refused /\ order' = order
  BY DEF TakeOver, modvars
<1>2. \/ file = NULL /\ phase' = "remove" /\ todo' = todo
      \/ file # NULL /\ phase' = "load" /\ todo' = file.mods
      \/ file # NULL /\ phase' = "idle" /\ todo' = todo
  BY DEF TakeOver
<1>3. Up = {} /\ order = <<>> /\ InLine(order, listed)
  BY <1>1, NobodyUp DEF ModulesInOrder
<1>4. Up' = Up /\ \A m \in Mods : Loaded(m)' <=> Loaded(m)
  BY <1>1 DEF Up, Loaded
<1>5. todo = <<>> /\ applied = NULL /\ refused = {} /\ file \in Files \cup {NULL}
  BY <1>1 DEF ModulesInOrder, PhasesFit
<1>6. file # NULL => file.mods \in Seq(Mods) /\ NoTwice(file.mods)
  BY <1>5, FilesMods
<1>7. PhasesFit'
  BY <1>1, <1>2, <1>5 DEF PhasesFit
<1>8. ListsFit'
  <2>1. /\ listed \in Seq(Mods) /\ NoTwice(listed) /\ order \in Seq(Mods) /\ NoTwice(order)
        /\ todo \in Seq(Mods) /\ NoTwice(todo) /\ Elements(order) = Up
        /\ Up \subseteq Elements(listed) /\ cursor \in Mods \cup {NULL}
        /\ \A m \in Elements(listed) : Loaded(m)
    BY <1>1 DEF ModulesInOrder, ListsFit
  <2>2. LastOf(listed) \in Mods \cup {NULL} /\ Elements(listed) \subseteq Mods
    BY <2>1, LastIsSome, InList
  <2>3. todo' \in Seq(Mods) /\ NoTwice(todo')
    BY <1>2, <1>6, <2>1
  <2>4. \A m \in Elements(listed) : Loaded(m)'
    BY <1>4, <2>1, <2>2
  <2> QED BY <1>1, <1>3, <1>4, <2>1, <2>2, <2>3, <2>4 DEF ListsFit
<1>9. CursorFits' /\ BootFits'
  BY <1>2 DEF CursorFits, BootFits
<1>10. FileFits'
  <2>1. applied' = NULL
    BY <1>1, <1>5
  <2>2. ASSUME file' # NULL, phase' \in {"boot", "load", "remove"}
        PROVE  /\ UpFrom(file)' /\ Elements(todo') \subseteq Elements(file'.mods)
               /\ refused' \cap Elements(todo') = {}
    <3>1. phase' = "load" /\ todo' = file.mods /\ file' = file
      BY <1>1, <1>2, <2>2
    <3> QED BY <1>1, <1>3, <1>4, <1>5, <3>1 DEF UpFrom
  <2> QED BY <2>1, <2>2 DEF FileFits
<1>11. NewestGoes
  BY <1>3, UpStays DEF ModulesInOrder
<1> QED BY <1>7, <1>8, <1>9, <1>10, <1>11 DEF ModulesInOrder

LEMMA LoadDoneOrders ==
  ASSUME ModulesInOrder, LoadDone
  PROVE  ModulesInOrder' /\ NewestGoes
<1>1. /\ phase \in {"boot", "load"} /\ todo = <<>>
      /\ phase' = IF phase = "boot" THEN "idle" ELSE "remove"
      /\ file' = IF phase = "boot" THEN NULL ELSE file
      /\ applied' = IF phase = "boot" THEN file ELSE applied
      /\ mod' = mod /\ listed' = listed /\ last' = last /\ cursor' = cursor
      /\ todo' = todo /\ refused' = refused /\ order' = order
  BY DEF LoadDone, modvars
<1>2. Up' = Up /\ \A m \in Mods : Loaded(m)' <=> Loaded(m)
  BY <1>1 DEF Up, Loaded
<1>3. file # NULL /\ UpFrom(file) /\ applied = NULL /\ Elements(todo) = {}
  BY <1>1, EmptyList DEF ModulesInOrder, FileFits, PhasesFit
<1>4. PhasesFit'
  BY <1>1, <1>3 DEF ModulesInOrder, PhasesFit
<1>5. ListsFit'
  <2>1. /\ listed \in Seq(Mods) /\ last = LastOf(listed)
        /\ \A m \in Elements(listed) : Loaded(m)
    BY <1>1, <1>3 DEF ModulesInOrder, ListsFit
  <2>2. Elements(listed) \subseteq Mods
    BY <2>1, InList
  <2> QED BY <1>1, <1>2, <2>1, <2>2 DEF ModulesInOrder, ListsFit
<1>6. CursorFits' /\ BootFits'
  BY <1>1 DEF CursorFits, BootFits
<1>7. \A f : UpFrom(f) => UpFrom(f)'
  BY <1>1, <1>2 DEF UpFrom
<1>8. FileFits'
  <2>1. applied' # NULL => UpFrom(applied)'
    <3>1. CASE phase = "boot"
      <4>1. applied' = file
        BY <1>1, <3>1
      <4>2. Up' = {m \in Elements(file.mods) \ (refused' \cup Elements(todo')) :
                     mod'[m].state # "stuck"}
        BY <1>1, <1>2, <1>3 DEF UpFrom
      <4> QED BY <4>1, <4>2 DEF UpFrom
    <3>2. CASE phase # "boot"
      BY <1>1, <1>3, <3>2
    <3> QED BY <3>1, <3>2
  <2>2. file' # NULL /\ phase' \in {"boot", "load", "remove"} =>
          /\ UpFrom(file)' /\ Elements(todo') \subseteq Elements(file'.mods)
          /\ refused' \cap Elements(todo') = {}
    <3>1. SUFFICES ASSUME file' # NULL
                   PROVE  /\ UpFrom(file)' /\ Elements(todo') \subseteq Elements(file'.mods)
                          /\ refused' \cap Elements(todo') = {}
      OBVIOUS
    <3>2. file' = file
      BY <1>1, <3>1
    <3>3. Up' = {m \in Elements(file.mods) \ (refused' \cup Elements(todo')) :
                   mod'[m].state # "stuck"}
      BY <1>1, <1>2, <1>3 DEF UpFrom
    <3> QED BY <1>1, <1>3, <3>2, <3>3 DEF UpFrom
  <2> QED BY <2>1, <2>2 DEF FileFits
<1>9. NewestGoes
  BY <1>1, UpStays DEF ModulesInOrder, Up
<1> QED BY <1>4, <1>5, <1>6, <1>8, <1>9 DEF ModulesInOrder

(* The module the loop comes to is not up yet.                             *)
LEMMA Coming ==
  ASSUME ModulesInOrder, phase \in {"boot", "load"}, todo # <<>>
  PROVE  /\ Head(todo) \in Mods /\ Head(todo) \in Elements(todo)
         /\ Tail(todo) \in Seq(Mods) /\ NoTwice(Tail(todo))
         /\ Elements(Tail(todo)) = Elements(todo) \ {Head(todo)}
         /\ file # NULL /\ Head(todo) \in Elements(file.mods)
         /\ Head(todo) \notin refused /\ Head(todo) \notin Up
         /\ phase = "boot" =>
              /\ InLine(Tail(todo), listed) /\ Head(todo) \in Elements(listed)
              /\ \A x \in Elements(Tail(todo)) : Ahead(listed, Head(todo), x)
<1>1. todo \in Seq(Mods) /\ NoTwice(todo)
  BY DEF ModulesInOrder, ListsFit
<1>2. /\ Head(todo) \in Elements(todo) /\ Head(todo) \in Mods
      /\ Tail(todo) \in Seq(Mods) /\ NoTwice(Tail(todo))
      /\ Elements(Tail(todo)) = Elements(todo) \ {Head(todo)}
      /\ \A x \in Elements(Tail(todo)) : Ahead(todo, Head(todo), x)
      /\ \A u : InLine(todo, u) => InLine(Tail(todo), u)
  BY <1>1, TailKeeps
<1>3. /\ file # NULL /\ UpFrom(file) /\ Elements(todo) \subseteq Elements(file.mods)
      /\ refused \cap Elements(todo) = {}
  BY DEF ModulesInOrder, PhasesFit, FileFits
<1>4. Head(todo) \notin Up
  BY <1>2, <1>3 DEF UpFrom
<1>5. ASSUME phase = "boot"
      PROVE  /\ InLine(Tail(todo), listed) /\ Head(todo) \in Elements(listed)
             /\ \A x \in Elements(Tail(todo)) : Ahead(listed, Head(todo), x)
  <2>1. InLine(todo, listed) /\ Elements(todo) \subseteq Elements(listed)
    BY <1>5 DEF ModulesInOrder, BootFits
  <2>2. ASSUME NEW x \in Elements(Tail(todo)) PROVE Ahead(listed, Head(todo), x)
    <3>1. PICK p, q \in 1 .. Len(todo) : p < q /\ todo[p] = Head(todo) /\ todo[q] = x
      BY <1>2 DEF Ahead
    <3> QED BY <2>1, <3>1 DEF InLine
  <2> QED BY <1>2, <2>1, <2>2
<1> QED BY <1>2, <1>3, <1>4, <1>5

(* What the loop leaves alone.                                             *)
LEMMA LoadNextRest ==
  ASSUME ModulesInOrder, LoadNext, refused' \subseteq Mods
  PROVE  PhasesFit' /\ CursorFits' /\ applied' = NULL /\ phase' = phase /\ file' = file
         /\ cursor' = cursor /\ cursor \in Mods \cup {NULL} /\ todo' = Tail(todo)
         /\ phase \in {"boot", "load"} /\ todo # <<>>
<1>1. /\ phase \in {"boot", "load"} /\ todo # <<>> /\ phase' = phase /\ file' = file
      /\ applied' = applied /\ cursor' = cursor /\ todo' = Tail(todo)
  BY DEF LoadNext
<1>2. applied = NULL /\ cursor \in Mods \cup {NULL}
  BY <1>1 DEF ModulesInOrder, PhasesFit, ListsFit
<1>3. PhasesFit'
  BY <1>1 DEF ModulesInOrder, PhasesFit
<1>4. CursorFits'
  BY <1>1 DEF CursorFits
<1> QED BY <1>1, <1>2, <1>3, <1>4

(* A module that is there already: stuck since it was deinited.            *)
LEMMA LoadAlready ==
  ASSUME ModulesInOrder, LoadNext, UNCHANGED modvars, Loaded(Head(todo)),
         UNCHANGED <<refused, order>>,
         \/ phase = "load" /\ Head(todo) \in Elements(listed) /\ UNCHANGED <<listed, last>>
         \/ ~ (phase = "load" /\ Head(todo) \in Elements(listed)) /\ ListNext(Head(todo))
  PROVE  ModulesInOrder' /\ NewestGoes
<1> DEFINE m == Head(todo)
           l == listed'
<1>1. /\ PhasesFit' /\ CursorFits' /\ applied' = NULL /\ phase' = phase /\ file' = file
      /\ cursor' = cursor /\ cursor \in Mods \cup {NULL} /\ todo' = Tail(todo)
      /\ phase \in {"boot", "load"} /\ todo # <<>> /\ refused' = refused /\ order' = order
  BY LoadNextRest DEF ModulesInOrder, PhasesFit
<1>2. /\ m \in Mods /\ Tail(todo) \in Seq(Mods) /\ NoTwice(Tail(todo))
      /\ Elements(Tail(todo)) = Elements(todo) \ {m}
      /\ file # NULL /\ m \notin refused /\ m \notin Up
      /\ phase = "boot" => InLine(Tail(todo), listed)
  BY <1>1, Coming
<1>3. /\ listed \in Seq(Mods) /\ NoTwice(listed) /\ order \in Seq(Mods) /\ NoTwice(order)
      /\ Elements(order) = Up /\ Up \subseteq Elements(listed) /\ InLine(order, listed)
      /\ \A x \in Elements(listed) : Loaded(x) \/ (phase = "boot" /\ x \in Elements(todo))
      /\ last = LastOf(listed)
  BY <1>1 DEF ModulesInOrder, ListsFit
<1>4. Up' = Up /\ mod' = mod /\ \A x : Loaded(x)' <=> Loaded(x)
  BY DEF Up, Loaded, modvars
<1>5. Loaded(m)
  OBVIOUS
<1>6. /\ l \in Seq(Mods) /\ NoTwice(l) /\ last' = LastOf(l)
      /\ \A x : x \in Elements(listed) => x \in Elements(l)
      /\ \A x : x \in Elements(l) => x \in Elements(listed) \/ x = m
      /\ \A x, y : Ahead(listed, x, y) => Ahead(l, x, y)
  <2>1. CASE l = listed /\ last' = last
    BY <1>3, <2>1
  <2>2. CASE phase = "load" /\ m \notin Elements(listed) /\ l = Append(listed, m) /\ last' = m
    <3>1. /\ Append(listed, m) \in Seq(Mods) /\ NoTwice(Append(listed, m))
          /\ Elements(Append(listed, m)) = Elements(listed) \cup {m}
          /\ LastOf(Append(listed, m)) = m
          /\ \A x, y : Ahead(listed, x, y) => Ahead(Append(listed, m), x, y)
      <4> HIDE DEF m, l
      <4> QED BY <1>2, <1>3, <2>2, AppendKeeps
    <3> QED BY <2>2, <3>1
  <2>3. \/ l = listed /\ last' = last
        \/ phase = "load" /\ m \notin Elements(listed) /\ l = Append(listed, m) /\ last' = m
    BY <1>1 DEF ListNext
  <2> QED BY <2>1, <2>2, <2>3
<1>7. phase # "load" => l = listed
  BY DEF ListNext
<1> HIDE DEF m, l
<1>8. InLine(order, l)
  BY <1>3, <1>6 DEF InLine
<1>9. \A x \in Elements(l) : Loaded(x)' \/ (phase = "boot" /\ x \in Elements(Tail(todo)))
  BY <1>2, <1>3, <1>4, <1>5, <1>6
<1>10. ListsFit'
  <2>1. LastOf(l) \in Mods \cup {NULL}
    BY <1>6, LastIsSome
  <2>2. Up \subseteq Elements(l)
    BY <1>3, <1>6
  <2> QED BY <1>1, <1>2, <1>3, <1>4, <1>6, <1>8, <1>9, <2>1, <2>2 DEF ListsFit, l
<1>11. BootFits'
  <2>1. SUFFICES ASSUME phase = "boot" PROVE BootFits'
    BY <1>1 DEF BootFits
  <2>2. l = listed
    BY <1>7, <2>1
  <2>3. /\ Elements(todo) \subseteq Elements(listed)
        /\ \A x \in Elements(order), y \in Elements(todo) : Ahead(listed, x, y)
    BY <2>1 DEF ModulesInOrder, BootFits
  <2> QED BY <1>1, <1>2, <2>1, <2>2, <2>3 DEF BootFits, l
<1>12. FileFits'
  <2>1. /\ UpFrom(file) /\ Elements(todo) \subseteq Elements(file.mods)
        /\ refused \cap Elements(todo) = {}
    BY <1>1, <1>2 DEF ModulesInOrder, FileFits
  <2>2. mod[m].state = "stuck"
    BY <1>2, <1>5 DEF Loaded, Up
  <2>3. Up' = {x \in Elements(file.mods) \ (refused' \cup Elements(todo')) :
                 mod'[x].state # "stuck"}
    BY <1>1, <1>2, <1>4, <2>1, <2>2 DEF UpFrom
  <2>4. UpFrom(file)'
    BY <1>1, <2>3 DEF UpFrom
  <2> QED BY <1>1, <1>2, <2>1, <2>4 DEF FileFits
<1>13. NewestGoes
  BY <1>4, UpStays DEF ModulesInOrder, Up
<1> QED BY <1>1, <1>10, <1>11, <1>12, <1>13 DEF ModulesInOrder

LEMMA LoadGoes ==
  ASSUME ModulesHold, ModulesInOrder, LoadNext, Load(Head(todo)), UNCHANGED refused,
         order' = Append(order, Head(todo)), ListNext(Head(todo)),
         ~ (phase = "load" /\ Head(todo) \in Elements(listed))
  PROVE  ModulesInOrder' /\ NewestGoes
<1> DEFINE m == Head(todo)
           l == listed'
           o == order'
<1>1. /\ PhasesFit' /\ CursorFits' /\ applied' = NULL /\ phase' = phase /\ file' = file
      /\ cursor' = cursor /\ cursor \in Mods \cup {NULL} /\ todo' = Tail(todo)
      /\ phase \in {"boot", "load"} /\ todo # <<>> /\ refused' = refused
  BY LoadNextRest DEF ModulesInOrder, PhasesFit
<1>2. /\ m \in Mods /\ m \in Elements(todo) /\ Tail(todo) \in Seq(Mods) /\ NoTwice(Tail(todo))
      /\ Elements(Tail(todo)) = Elements(todo) \ {m}
      /\ file # NULL /\ m \in Elements(file.mods) /\ m \notin refused /\ m \notin Up
      /\ phase = "boot" => /\ InLine(Tail(todo), listed) /\ m \in Elements(listed)
                           /\ \A x \in Elements(Tail(todo)) : Ahead(listed, m, x)
  BY <1>1, Coming
<1>3. /\ listed \in Seq(Mods) /\ NoTwice(listed) /\ order \in Seq(Mods) /\ NoTwice(order)
      /\ Elements(order) = Up /\ Up \subseteq Elements(listed) /\ InLine(order, listed)
      /\ \A x \in Elements(listed) : Loaded(x) \/ (phase = "boot" /\ x \in Elements(todo))
      /\ last = LastOf(listed) /\ Elements(listed) \subseteq Mods
  <2>1. listed \in Seq(Mods)
    BY DEF ModulesInOrder, ListsFit
  <2>2. Elements(listed) \subseteq Mods
    BY <2>1, InList
  <2> QED BY <1>1, <2>2 DEF ModulesInOrder, ListsFit
<1>4. /\ Up' = Up \cup {m} /\ mod'[m].state = "up"
      /\ \A x \in Mods : x # m => (Loaded(x)' <=> Loaded(x)) /\ mod'[x].state = mod[x].state
  <2> HIDE DEF m
  <2>1. Moves(m, {"up"})
    BY <1>2, StatesMove DEF m
  <2>2. /\ Up' = Up \cup {m} /\ mod'[m].state \in {"up"}
        /\ \A x \in Mods : x # m => (Loaded(x)' <=> Loaded(x))
        /\ \A x \in Mods : x # m => mod'[x].state = mod[x].state
    BY <1>2, <2>1, UpMoves
  <2> QED BY <2>2
<1>5. \/ phase = "boot" /\ l = listed /\ last' = last
      \/ phase = "load" /\ m \notin Elements(listed) /\ l = Append(listed, m) /\ last' = m
  BY <1>1 DEF ListNext
<1>6. o = Append(order, m)
  OBVIOUS
<1> HIDE DEF m, l, o
<1>7. /\ l \in Seq(Mods) /\ NoTwice(l) /\ last' = LastOf(l)
      /\ Elements(l) = Elements(listed) \cup {m}
      /\ \A x, y : Ahead(listed, x, y) => Ahead(l, x, y)
      /\ \A x \in Up : Ahead(l, x, m)
  <2>1. CASE phase = "boot" /\ l = listed /\ last' = last
    <3>1. \A x \in Elements(order), y \in Elements(todo) : Ahead(listed, x, y)
      BY <2>1 DEF ModulesInOrder, BootFits
    <3> QED BY <1>2, <1>3, <2>1, <3>1
  <2>2. CASE phase = "load" /\ m \notin Elements(listed) /\ l = Append(listed, m) /\ last' = m
    <3>1. /\ Append(listed, m) \in Seq(Mods) /\ NoTwice(Append(listed, m))
          /\ Elements(Append(listed, m)) = Elements(listed) \cup {m}
          /\ LastOf(Append(listed, m)) = m
          /\ \A x, y : Ahead(listed, x, y) => Ahead(Append(listed, m), x, y)
          /\ \A x \in Elements(listed) : Ahead(Append(listed, m), x, m)
      BY <1>2, <1>3, <2>2, AppendKeeps
    <3> QED BY <1>3, <2>2, <3>1
  <2> QED BY <1>5, <2>1, <2>2
<1>8. /\ o \in Seq(Mods) /\ NoTwice(o) /\ Elements(o) = Up' /\ InLine(o, l)
  <2>1. /\ Append(order, m) \in Seq(Mods) /\ NoTwice(Append(order, m))
        /\ Elements(Append(order, m)) = Elements(order) \cup {m}
    BY <1>2, <1>3, AppendKeeps
  <2>2. InLine(order, l)
    BY <1>3, <1>7 DEF InLine
  <2>3. InLine(Append(order, m), l)
    BY <1>2, <1>3, <1>7, <2>2, AppendInLine
  <2> QED BY <1>3, <1>4, <1>6, <2>1, <2>3
<1>9. \A x \in Elements(l) : Loaded(x)' \/ (phase = "boot" /\ x \in Elements(Tail(todo)))
  <2> TAKE x \in Elements(l)
  <2>1. CASE x = m
    BY <1>4, <2>1 DEF Loaded
  <2>2. CASE x # m
    <3>1. x \in Elements(listed) /\ x \in Mods
      BY <1>3, <1>7, <2>2
    <3>2. CASE Loaded(x)
      BY <1>4, <2>2, <3>1, <3>2
    <3>3. CASE phase = "boot" /\ x \in Elements(todo)
      BY <1>2, <2>2, <3>3
    <3> QED BY <1>3, <3>1, <3>2, <3>3
  <2> QED BY <2>1, <2>2
<1>10. ListsFit'
  <2>1. LastOf(l) \in Mods \cup {NULL}
    BY <1>7, LastIsSome
  <2>2. Up' \subseteq Elements(l)
    BY <1>3, <1>4, <1>7
  <2> QED BY <1>1, <1>2, <1>7, <1>8, <1>9, <2>1, <2>2 DEF ListsFit, l, o
<1>11. BootFits'
  <2>1. SUFFICES ASSUME phase = "boot" PROVE BootFits'
    BY <1>1 DEF BootFits
  <2>2. l = listed
    BY <1>5, <2>1
  <2>3. /\ Elements(todo) \subseteq Elements(listed)
        /\ \A x \in Elements(order), y \in Elements(todo) : Ahead(listed, x, y)
    BY <2>1 DEF ModulesInOrder, BootFits
  <2>4. \A x \in Elements(o), y \in Elements(Tail(todo)) : Ahead(listed, x, y)
    BY <1>2, <1>3, <1>4, <1>8, <2>1, <2>3
  <2>5. Elements(Tail(todo)) \subseteq Elements(listed)
    BY <1>2, <2>3
  <2> QED BY <1>1, <1>2, <2>1, <2>2, <2>4, <2>5 DEF BootFits, l, o
<1>12. FileFits'
  <2>1. /\ UpFrom(file) /\ Elements(todo) \subseteq Elements(file.mods)
        /\ refused \cap Elements(todo) = {} /\ Elements(file.mods) \subseteq Mods
    <3>1. file.mods \in Seq(Mods)
      BY <1>2, FilesMods DEF ModulesInOrder, PhasesFit
    <3>2. Elements(file.mods) \subseteq Mods
      BY <3>1, InList
    <3> QED BY <1>1, <1>2, <3>2 DEF ModulesInOrder, FileFits
  <2>2. Up' = {x \in Elements(file.mods) \ (refused' \cup Elements(todo')) :
                 mod'[x].state # "stuck"}
    <3>1. ASSUME NEW x \in Up' PROVE x \in Elements(file.mods) \ (refused \cup Elements(Tail(todo)))
                                     /\ mod'[x].state # "stuck"
      BY <1>2, <1>4, <2>1 DEF UpFrom
    <3>2. ASSUME NEW x \in Elements(file.mods) \ (refused \cup Elements(Tail(todo))),
                 mod'[x].state # "stuck"
          PROVE  x \in Up'
      BY <1>2, <1>4, <2>1, <3>2 DEF UpFrom
    <3> QED BY <1>1, <3>1, <3>2
  <2>3. UpFrom(file)'
    BY <1>1, <2>2 DEF UpFrom
  <2> QED BY <1>1, <1>2, <2>1, <2>3 DEF FileFits
<1>13. NewestGoes
  BY <1>2, <1>4, UpStays DEF ModulesInOrder, Up
<1> QED BY <1>1, <1>10, <1>11, <1>12, <1>13 DEF ModulesInOrder

(* A module that could not be loaded.                                      *)
LEMMA LoadRefusedOrders ==
  ASSUME ModulesHold, ModulesInOrder, LoadNext, UNCHANGED order, Refuse(Head(todo)),
         LoadFails(Head(todo)) \/ LoadRefused(Head(todo)),
         ~ (phase = "load" /\ Head(todo) \in Elements(listed))
  PROVE  ModulesInOrder' /\ NewestGoes
<1> DEFINE m == Head(todo)
           l == listed'
           K == Mods \ {m}
<1>1. m \in Mods
  BY Coming DEF LoadNext
<1>2. /\ refused' = refused \cup {m} /\ order' = order
      /\ \/ phase = "boot" /\ l = Keep(listed, K) /\ last' = LastOf(l)
         \/ phase # "boot" /\ l = listed /\ last' = last
  BY DEF Refuse
<1>3. refused' \subseteq Mods
  BY <1>1, <1>2 DEF ModulesInOrder, PhasesFit
<1>4. /\ PhasesFit' /\ CursorFits' /\ applied' = NULL /\ phase' = phase /\ file' = file
      /\ cursor' = cursor /\ cursor \in Mods \cup {NULL} /\ todo' = Tail(todo)
      /\ phase \in {"boot", "load"} /\ todo # <<>>
  BY <1>3, LoadNextRest
<1>5. /\ m \in Elements(todo) /\ Tail(todo) \in Seq(Mods) /\ NoTwice(Tail(todo))
      /\ Elements(Tail(todo)) = Elements(todo) \ {m}
      /\ file # NULL /\ m \in Elements(file.mods) /\ m \notin refused /\ m \notin Up
      /\ phase = "boot" => /\ InLine(Tail(todo), listed) /\ m \in Elements(listed)
                           /\ \A x \in Elements(Tail(todo)) : Ahead(listed, m, x)
  BY <1>4, Coming
<1>6. /\ listed \in Seq(Mods) /\ NoTwice(listed) /\ order \in Seq(Mods) /\ NoTwice(order)
      /\ Elements(order) = Up /\ Up \subseteq Elements(listed) /\ InLine(order, listed)
      /\ \A x \in Elements(listed) : Loaded(x) \/ (phase = "boot" /\ x \in Elements(todo))
      /\ last = LastOf(listed) /\ Elements(listed) \subseteq Mods
  <2>1. listed \in Seq(Mods)
    BY DEF ModulesInOrder, ListsFit
  <2>2. Elements(listed) \subseteq Mods
    BY <2>1, InList
  <2> QED BY <1>4, <2>2 DEF ModulesInOrder, ListsFit
<1>7. /\ Up' = Up
      /\ \A x \in Mods : x # m => (Loaded(x)' <=> Loaded(x)) /\ mod'[x].state = mod[x].state
  <2> HIDE DEF m
  <2>1. PICK S : Moves(m, S) /\ "up" \notin S
    <3>1. CASE LoadFails(m)
      <4>1. Moves(m, {"removed", "stuck"})
        BY <1>1, <3>1, StatesMove
      <4> QED BY <4>1
    <3>2. CASE LoadRefused(m)
      <4>1. Moves(m, {mod[m].state}) /\ ~ Loaded(m)
        BY <1>1, <3>2, StatesMove
      <4> QED BY <4>1 DEF Loaded
    <3> QED BY <3>1, <3>2 DEF m
  <2>2. /\ Up' = Up \ {m}
        /\ \A x \in Mods : x # m => (Loaded(x)' <=> Loaded(x))
        /\ \A x \in Mods : x # m => mod'[x].state = mod[x].state
    BY <1>1, <2>1, UpMoves
  <2> QED BY <1>5, <2>2
<1> HIDE DEF m, l, K
<1>8. /\ l \in Seq(Mods) /\ NoTwice(l) /\ last' = LastOf(l)
      /\ Elements(l) = Elements(listed) \ {m}
      /\ \A x, y : Ahead(listed, x, y) /\ x # m /\ y # m => Ahead(l, x, y)
  <2>1. CASE phase = "boot" /\ l = Keep(listed, K) /\ last' = LastOf(l)
    <3>1. /\ Keep(listed, K) \in Seq(Mods) /\ NoTwice(Keep(listed, K))
          /\ Elements(Keep(listed, K)) = Elements(listed) \cap K
      BY <1>6, KeepKeeps
    <3>2. ASSUME NEW x, NEW y, Ahead(listed, x, y), x # m, y # m PROVE Ahead(l, x, y)
      <4>1. x \in K /\ y \in K
        BY <1>6, <3>2, OneWay DEF K
      <4>2. Ahead(Keep(listed, K), x, y)
        BY <1>6, <3>2, <4>1, KeepAhead
      <4> QED BY <2>1, <4>2
    <3>3. Elements(listed) \cap K = Elements(listed) \ {m}
      BY <1>6 DEF K
    <3> QED BY <2>1, <3>1, <3>2, <3>3
  <2>2. CASE phase # "boot" /\ l = listed /\ last' = last
    <3>1. m \notin Elements(listed)
      BY <1>4, <2>2 DEF m
    <3> QED BY <1>6, <2>2, <3>1
  <2> QED BY <1>2, <2>1, <2>2 DEF l, K
<1>9. InLine(order, l)
  <2>1. ASSUME NEW j \in 1 .. Len(order), NEW k \in 1 .. Len(order), j < k
        PROVE  Ahead(l, order[j], order[k])
    <3>1. Ahead(listed, order[j], order[k])
      BY <1>6, <2>1 DEF InLine
    <3>2. order[j] \in Up /\ order[k] \in Up
      BY <1>6, <2>1 DEF Elements
    <3> QED BY <1>5, <1>8, <3>1, <3>2
  <2> QED BY <2>1 DEF InLine
<1>10. \A x \in Elements(l) : Loaded(x)' \/ (phase = "boot" /\ x \in Elements(Tail(todo)))
  <2> TAKE x \in Elements(l)
  <2>1. x \in Elements(listed) /\ x \in Mods /\ x # m
    BY <1>6, <1>8
  <2>2. CASE Loaded(x)
    BY <1>7, <2>1, <2>2
  <2>3. CASE phase = "boot" /\ x \in Elements(todo)
    BY <1>5, <2>1, <2>3
  <2> QED BY <1>6, <2>1, <2>2, <2>3
<1>11. ListsFit'
  <2>1. LastOf(l) \in Mods \cup {NULL}
    BY <1>8, LastIsSome
  <2>2. Up \subseteq Elements(l)
    BY <1>5, <1>6, <1>8
  <2> QED BY <1>2, <1>4, <1>5, <1>6, <1>7, <1>8, <1>9, <1>10, <2>1, <2>2 DEF ListsFit, l
<1>12. BootFits'
  <2>1. SUFFICES ASSUME phase = "boot" PROVE BootFits'
    BY <1>4 DEF BootFits
  <2>2. /\ Elements(todo) \subseteq Elements(listed)
        /\ \A x \in Elements(order), y \in Elements(todo) : Ahead(listed, x, y)
    BY <2>1 DEF ModulesInOrder, BootFits
  <2>3. Elements(Tail(todo)) \subseteq Elements(l)
    BY <1>5, <1>8, <2>2
  <2>4. \A x \in Elements(order), y \in Elements(Tail(todo)) : Ahead(l, x, y)
    <3> TAKE x \in Elements(order), y \in Elements(Tail(todo))
    <3>1. x # m /\ y # m /\ Ahead(listed, x, y)
      BY <1>5, <1>6, <2>2
    <3> QED BY <1>8, <3>1
  <2>5. InLine(Tail(todo), l)
    <3>1. ASSUME NEW j \in 1 .. Len(Tail(todo)), NEW k \in 1 .. Len(Tail(todo)), j < k
          PROVE  Ahead(l, Tail(todo)[j], Tail(todo)[k])
      <4>1. Ahead(listed, Tail(todo)[j], Tail(todo)[k])
        BY <1>5, <2>1, <3>1 DEF InLine
      <4>2. Tail(todo)[j] \in Elements(Tail(todo)) /\ Tail(todo)[k] \in Elements(Tail(todo))
        BY DEF Elements
      <4> QED BY <1>5, <1>8, <4>1, <4>2
    <3> QED BY <3>1 DEF InLine
  <2> QED BY <1>2, <1>4, <2>3, <2>4, <2>5 DEF BootFits, l
<1>13. FileFits'
  <2>1. /\ UpFrom(file) /\ Elements(todo) \subseteq Elements(file.mods)
        /\ refused \cap Elements(todo) = {} /\ Elements(file.mods) \subseteq Mods
    <3>1. file.mods \in Seq(Mods)
      BY <1>5, FilesMods DEF ModulesInOrder, PhasesFit
    <3>2. Elements(file.mods) \subseteq Mods
      BY <3>1, InList
    <3> QED BY <1>4, <1>5, <3>2 DEF ModulesInOrder, FileFits
  <2>2. UpFrom(file)'
    <3>1. ASSUME NEW x \in Up
          PROVE  x \in Elements(file.mods) \ (refused' \cup Elements(Tail(todo)))
                 /\ mod'[x].state # "stuck"
      BY <1>2, <1>5, <1>7, <2>1, <3>1 DEF UpFrom, m
    <3>2. ASSUME NEW x \in Elements(file.mods) \ (refused' \cup Elements(Tail(todo))),
                 mod'[x].state # "stuck"
          PROVE  x \in Up
      BY <1>2, <1>5, <1>7, <2>1, <3>2 DEF UpFrom, m
    <3>3. Up' = {x \in Elements(file.mods) \ (refused' \cup Elements(todo')) :
                   mod'[x].state # "stuck"}
      BY <1>4, <1>7, <3>1, <3>2
    <3> QED BY <1>4, <3>3 DEF UpFrom
  <2>3. refused' \cap Elements(Tail(todo)) = {}
    BY <1>2, <1>5, <2>1 DEF m
  <2> QED BY <1>4, <1>5, <2>1, <2>2, <2>3 DEF FileFits
<1>14. NewestGoes
  <2>1. \A x \in Up : mod'[x].state = "up"
    BY <1>7 DEF Up
  <2> QED BY <2>1, UpStays DEF ModulesInOrder
<1> QED BY <1>4, <1>11, <1>12, <1>13, <1>14 DEF ModulesInOrder

LEMMA LoadNextOrders ==
  ASSUME ModulesHold, ModulesInOrder, LoadNext
  PROVE  ModulesInOrder' /\ NewestGoes
<1> DEFINE m == Head(todo)
           here == phase = "load" /\ m \in Elements(listed)
<1>1. \/ here /\ UNCHANGED <<modvars, listed, last, refused, order>>
      \/ ~ here /\ Load(m) /\ order' = Append(order, m) /\ ListNext(m) /\ UNCHANGED refused
      \/ ~ here /\ Loaded(m) /\ ListNext(m) /\ UNCHANGED <<modvars, refused, order>>
      \/ ~ here /\ (LoadFails(m) \/ LoadRefused(m)) /\ Refuse(m) /\ UNCHANGED order
  BY DEF LoadNext
<1>2. CASE here /\ UNCHANGED <<modvars, listed, last, refused, order>>
  <2>1. Loaded(m)
    <3>1. phase # "boot"
      BY <1>2
    <3> QED BY <1>2, <3>1 DEF ModulesInOrder, ListsFit
  <2> QED BY <1>2, <2>1, LoadAlready
<1>3. CASE ~ here /\ Load(m) /\ order' = Append(order, m) /\ ListNext(m) /\ UNCHANGED refused
  BY <1>3, LoadGoes
<1>4. CASE ~ here /\ Loaded(m) /\ ListNext(m) /\ UNCHANGED <<modvars, refused, order>>
  BY <1>4, LoadAlready
<1>5. CASE ~ here /\ (LoadFails(m) \/ LoadRefused(m)) /\ Refuse(m) /\ UNCHANGED order
  BY <1>5, LoadRefusedOrders
<1> QED BY <1>1, <1>2, <1>3, <1>4, <1>5

LEMMA RunningOrders ==
  ASSUME ModulesInOrder, UNCHANGED mod, UNCHANGED confvars
  PROVE  ModulesInOrder' /\ NewestGoes
<1>1. /\ phase' = phase /\ file' = file /\ listed' = listed /\ last' = last /\ cursor' = cursor
      /\ todo' = todo /\ applied' = applied /\ refused' = refused /\ order' = order
      /\ mod' = mod
  BY DEF confvars
<1>2. Up' = Up /\ \A m : Loaded(m)' <=> Loaded(m)
  BY <1>1 DEF Up, Loaded
<1>3. \A f : UpFrom(f)' <=> UpFrom(f)
  BY <1>1, <1>2 DEF UpFrom
<1>4. PhasesFit'
  BY <1>1 DEF ModulesInOrder, PhasesFit
<1>5. ListsFit'
  BY <1>1, <1>2 DEF ModulesInOrder, ListsFit
<1>6. CursorFits' /\ BootFits'
  BY <1>1, <1>2 DEF ModulesInOrder, CursorFits, BootFits
<1>7. FileFits'
  <2>1. UpFrom(file) => UpFrom(file)'
    BY <1>1, <1>2 DEF UpFrom
  <2>2. UpFrom(applied) => UpFrom(applied)'
    BY <1>1, <1>2 DEF UpFrom
  <2> QED BY <1>1, <2>1, <2>2 DEF ModulesInOrder, FileFits
<1>8. NewestGoes
  BY <1>1, UpStays DEF ModulesInOrder, Up
<1> QED BY <1>4, <1>5, <1>6, <1>7, <1>8 DEF ModulesInOrder

(* The end of a rehash that goes on.                                       *)
LEMMA RemoveOldOrders ==
  ASSUME ModulesInOrder, phase = "remove", file # NULL, phase' = "idle", file' = NULL,
         applied' = file, UNCHANGED <<modvars, listed, last, cursor, todo, refused, order>>
  PROVE  ModulesInOrder' /\ NewestGoes
<1>1. /\ listed' = listed /\ last' = last /\ cursor' = cursor /\ todo' = todo
      /\ refused' = refused /\ order' = order /\ mod' = mod
  BY DEF modvars
<1>2. Up' = Up /\ \A m : Loaded(m)' <=> Loaded(m)
  BY <1>1 DEF Up, Loaded
<1>3. PhasesFit'
  BY <1>1 DEF ModulesInOrder, PhasesFit
<1>4. ListsFit'
  BY <1>1, <1>2 DEF ModulesInOrder, ListsFit
<1>5. CursorFits' /\ BootFits'
  BY DEF CursorFits, BootFits
<1>6. FileFits'
  <2>1. UpFrom(file)
    BY DEF ModulesInOrder, FileFits
  <2>2. UpFrom(applied)'
    BY <1>1, <1>2, <2>1 DEF UpFrom
  <2> QED BY <2>2 DEF FileFits
<1>7. NewestGoes
  BY <1>1, UpStays DEF ModulesInOrder, Up
<1> QED BY <1>3, <1>4, <1>5, <1>6, <1>7 DEF ModulesInOrder

LEMMA ModulesStay ==
  ASSUME ModulesHold, UNCHANGED modvars
  PROVE  ModulesHold' /\ IdsStay
<1>1. mod' = mod /\ client' = client /\ has' = has
  BY DEF modvars
<1>2. Registered' = Registered /\ GivenIds' = GivenIds
  BY <1>1 DEF Registered, GivenIds
<1>3. IdsFit'
  BY <1>1, <1>2 DEF ModulesHold, IdsFit
<1>4. Agreed(Registered)'
  BY <1>2 DEF ModulesHold, Agreed
<1> QED BY <1>1, <1>3, <1>4 DEF ModulesHold, IdsStay

(* Before anything was read.                                               *)
LEMMA InitHolds == Init => RehashHolds
<1> SUFFICES ASSUME Init PROVE RehashHolds
  OBVIOUS
<1>1. ModulesHold
  <2>1. mod \in [Mods -> [state : States, id : Nat]]
    BY DEF Init, States
  <2>2. GivenIds = {} /\ Cardinality(GivenIds) = 0
    BY FS_EmptySet DEF Init, GivenIds
  <2>3. IdsFit
    BY <2>2 DEF Init, IdsFit
  <2>4. has \in [Mods -> Seq(Decls)] /\ \A m \in Mods : has[m] = <<>>
    BY EmptyList DEF Init
  <2>5. Registered = [client |-> client, has |-> has] /\ DOMAIN client = {}
    BY DEF Init, Registered
  <2>6. \A m \in Mods : NoTwice(has[m]) /\ Elements(has[m]) = {}
    BY <2>4, EmptyList
  <2>7. Agreed(Registered)
    BY <2>4, <2>5, <2>6 DEF Agreed
  <2> QED BY <2>1, <2>3, <2>4, <2>7 DEF ModulesHold
<1>2. Up = {}
  BY DEF Init, Up
<1>3. PhasesFit
  BY DEF Init, PhasesFit
<1>4. ListsFit
  BY <1>2, EmptyList DEF Init, ListsFit
<1>5. CursorFits /\ BootFits
  BY DEF Init, CursorFits, BootFits
<1>6. FileFits
  BY DEF Init, FileFits
<1>7. OneName(<<>>)
  BY EmptyList, InList DEF OneName
<1>8. ServersHold
  BY <1>7, EmptyList DEF Init, ServersHold
<1>9. OneAddr(<<>>) /\ OneOpen(<<>>) /\ Opens(<<>>) = {} /\ Addrs(<<>>) = {}
  BY EmptyList, InList DEF OneAddr, OneOpen, Opens, Addrs
<1>10. PortsHold
  BY <1>9, EmptyList DEF Init, PortsHold
<1> QED BY <1>1, <1>3, <1>4, <1>5, <1>6, <1>8, <1>10 DEF RehashHolds, ModulesInOrder

(* After the end there is nothing, as before the start.                    *)
LEMMA OffHolds ==
  ASSUME Off
  PROVE  RehashHolds' /\ NewestGoes
<1>1. Init'
  BY DEF Off, Init
<1>2. Init' => RehashHolds'
  BY InitHolds, PTL
<1>3. NewestGoes
  BY DEF Off, NewestGoes
<1> QED BY <1>1, <1>2, <1>3

-----------------------------------------------------------------------------
LEMMA ServersAndPortsStay ==
  ASSUME ServersHold, PortsHold, UNCHANGED <<servers, listeners, open>>,
         phase' = "boot" => phase = "boot" /\ file' = file,
         file' # NULL /\ phase' \in {"load", "remove"} =>
           file # NULL /\ phase \in {"load", "remove"} /\ file' = file,
         applied' # NULL => applied' = applied
  PROVE  ServersHold' /\ PortsHold'
<1>1. servers' = servers /\ listeners' = listeners /\ open' = open
  OBVIOUS
<1>2. ServersHold'
  BY <1>1 DEF ServersHold, KnownServers
<1>3. PortsHold'
  BY <1>1 DEF PortsHold
<1> QED BY <1>2, <1>3

LEMMA OwnNames ==
  ASSUME NEW f \in Files, OneEverywhere
  PROVE  OneName(f.servers)
<1>1. f.servers \in Seq(ServerRecords) /\ OneEach(f)
  BY FilesMods DEF OneEverywhere
<1>2. DOMAIN f.servers = 1 .. Len(f.servers)
  BY <1>1, LenProperties
<1> QED BY <1>1, <1>2 DEF OneEach, OneName

LEMMA StartServes ==
  ASSUME ModulesInOrder, NEW f \in Files, Start(f)
  PROVE  ServersHold' /\ PortsHold'
<1>1. phase' = "boot" /\ file' = f /\ servers' = f.servers /\ applied' = NULL
  BY DEF Start, ModulesInOrder, PhasesFit
<1>2. ServersHold'
  <2>1. servers' \in Seq(ServerRecords)
    BY <1>1, FilesMods
  <2>2. OneEverywhere => OneName(servers')
    BY <1>1, OwnNames
  <2> QED BY <1>1, <2>1, <2>2 DEF ServersHold
<1>3. PortsHold'
  <2>1. PICK bound \in SUBSET Elements(f.listeners) :
          /\ open' = bound
          /\ listeners' = [k \in DOMAIN f.listeners |->
               [addr |-> f.listeners[k],
                con |-> IF f.listeners[k] \in bound /\ Foremost(f.listeners, k)
                        THEN "open" ELSE "none"]]
    BY DEF Start
  <2>2. f.listeners \in Seq(Addresses) /\ (NoPortTwice => NoTwice(f.listeners))
    BY FilesMods DEF NoPortTwice
  <2>3. /\ listeners' \in Seq(Listener) /\ OneOpen(listeners')
        /\ NoPortTwice => OneAddr(listeners')
        /\ Addrs(listeners') = Elements(f.listeners) /\ Opens(listeners') = bound
    <3> DEFINE addrs == f.listeners
               s == listeners'
    <3>1. s = First(addrs, bound)
      BY <2>1 DEF First
    <3>2. /\ addrs \in Seq(Addresses) /\ (NoPortTwice => NoTwice(addrs))
          /\ bound \subseteq Elements(addrs)
      BY <2>2
    <3>3. addrs = f.listeners /\ s = listeners'
      OBVIOUS
    <3> HIDE DEF addrs, s
    <3>4. /\ s \in Seq(Listener) /\ (NoTwice(addrs) => OneAddr(s)) /\ OneOpen(s)
          /\ Addrs(s) = Elements(addrs) /\ Opens(s) = bound
      BY <3>1, <3>2, FirstListeners
    <3> QED BY <3>2, <3>3, <3>4
  <2> QED BY <1>1, <2>1, <2>3 DEF PortsHold
<1> QED BY <1>2, <1>3

LEMMA TakeOverServes ==
  ASSUME ModulesInOrder, ServersHold, PortsHold, TakeOver
  PROVE  ServersHold' /\ PortsHold'
<1>1. phase = "unload" /\ applied' = NULL /\ file \in Files \cup {NULL}
      /\ file' = IF phase' = "idle" THEN NULL ELSE file
  BY DEF TakeOver, ModulesInOrder, PhasesFit
<1>2. CASE file = NULL
  <2>1. phase' = "remove" /\ UNCHANGED <<listeners, servers, open>> /\ file' = NULL
    BY <1>1, <1>2 DEF TakeOver
  <2> QED BY <1>1, <2>1, ServersAndPortsStay
<1>3. CASE file # NULL
  <2> DEFINE f == file
             known == {listeners[j].addr : j \in DOMAIN listeners}
  <2>1. /\ f \in Files /\ f.servers \in Seq(ServerRecords)
        /\ f.listeners \in Seq(Addresses)
    BY <1>1, <1>3, FilesMods
  <2>2. PICK n \in 0 .. Len(f.listeners) :
          \E bound \in SUBSET (({f.listeners[j] : j \in 1 .. n} \ known) \ open) :
            /\ listeners' = ListenersTaken(listeners, f.listeners, bound, n)
            /\ open' = open \cup bound
            /\ \/ /\ n = Len(f.listeners)
                  /\ servers' = ServersTaken(servers, f.servers, Len(f.servers))
                  /\ phase' = "load"
               \/ /\ \E k \in 1 .. Len(f.servers) :
                       servers' = ServersTaken(servers, f.servers, k - 1)
                  /\ phase' = "idle"
               \/ servers' = servers /\ phase' = "idle"
    BY <1>3 DEF TakeOver
  <2> DEFINE met == {f.listeners[j] : j \in 1 .. n}
  <2>5. PICK bound \in SUBSET ((met \ known) \ open) :
          /\ listeners' = ListenersTaken(listeners, f.listeners, bound, n)
          /\ open' = open \cup bound
          /\ \/ /\ n = Len(f.listeners)
                /\ servers' = ServersTaken(servers, f.servers, Len(f.servers))
                /\ phase' = "load"
             \/ /\ \E k \in 1 .. Len(f.servers) :
                     servers' = ServersTaken(servers, f.servers, k - 1)
                /\ phase' = "idle"
             \/ servers' = servers /\ phase' = "idle"
    BY <2>2
  <2>3. PortsHold'
    <3>1. /\ listeners \in Seq(Listener) /\ OneOpen(listeners) /\ open = Opens(listeners)
          /\ NoPortTwice => OneAddr(listeners)
      BY DEF PortsHold
    <3>2. bound \subseteq met \ Addrs(listeners)
      <4>1. DOMAIN listeners = 1 .. Len(listeners)
        BY <3>1, LenProperties
      <4>2. \A k \in DOMAIN listeners : listeners[k] \in Elements(listeners)
        BY <4>1 DEF Elements
      <4>3. ASSUME NEW l \in Elements(listeners)
            PROVE  \E k \in DOMAIN listeners : listeners[k] = l
        BY <4>1 DEF Elements
      <4>4. ASSUME NEW a \in Addrs(listeners)
            PROVE  a \in {listeners[k].addr : k \in DOMAIN listeners}
        <5>1. PICK l \in Elements(listeners) : a = l.addr
          BY DEF Addrs
        <5> QED BY <4>3, <5>1
      <4> QED BY <2>5, <4>4
    <3> DEFINE addrs == f.listeners
    <3>3. /\ addrs \in Seq(Addresses) /\ n \in 0 .. Len(addrs)
          /\ met = {addrs[j] : j \in 1 .. n}
          /\ n = Len(addrs) => met = Elements(addrs)
      BY <2>1 DEF Elements
    <3> HIDE DEF f, addrs, known, met
    <3>4. /\ ListenersTaken(listeners, addrs, bound, n) \in Seq(Listener)
          /\ OneAddr(listeners) => OneAddr(ListenersTaken(listeners, addrs, bound, n))
          /\ OneOpen(ListenersTaken(listeners, addrs, bound, n))
          /\ Addrs(ListenersTaken(listeners, addrs, bound, n)) = Addrs(listeners) \cup met
          /\ Opens(ListenersTaken(listeners, addrs, bound, n)) = Opens(listeners) \cup bound
      BY <3>1, <3>2, <3>3, ListenersTakenFits
    <3>5. /\ listeners' \in Seq(Listener) /\ (NoPortTwice => OneAddr(listeners'))
          /\ OneOpen(listeners') /\ open' = Opens(listeners')
          /\ n = Len(addrs) => Elements(addrs) \subseteq Addrs(listeners')
      BY <2>5, <3>1, <3>3, <3>4 DEF addrs
    <3>6. file' = NULL \/ (file' = f /\ phase' = "load" /\ n = Len(addrs))
      BY <1>1, <2>5 DEF f, addrs
    <3>7. phase' # "boot"
      BY <2>5
    <3> QED BY <1>1, <3>5, <3>6, <3>7 DEF PortsHold, addrs
  <2>4. ServersHold'
    <3>1. servers \in Seq(ServerRecords) /\ (OneEverywhere => OneName(servers))
      BY DEF ServersHold
    <3> DEFINE ss == f.servers
    <3>2. ss \in Seq(ServerRecords) /\ (OneEverywhere => OneName(ss)) /\ Len(ss) \in Nat
      BY <2>1, OwnNames, InList
    <3>3. \/ servers' = ServersTaken(servers, ss, Len(ss)) /\ phase' = "load"
          \/ phase' = "idle" /\ \E k \in 1 .. Len(ss) : servers' = ServersTaken(servers, ss, k - 1)
          \/ phase' = "idle" /\ servers' = servers
      BY <2>5
    <3>4. file' = NULL \/ file' = f
      BY <1>1
    <3>5. \A sc \in Elements(ss) : \E k \in 1 .. Len(ss) : ss[k] = sc
      BY DEF Elements
    <3>6. ss = f.servers
      OBVIOUS
    <3> HIDE DEF ss, f, known, met
    <3>7. CASE servers' = ServersTaken(servers, ss, Len(ss)) /\ phase' = "load"
      <4>1. Len(ss) \in 0 .. Len(ss)
        BY <3>2
      <4>2. /\ servers' \in Seq(ServerRecords) /\ (OneName(servers) => OneName(servers'))
            /\ OneName(ss) => \A j \in 1 .. Len(ss) : ss[j].pass => ss[j] \in Elements(servers')
        BY <3>1, <3>2, <3>7, <4>1, ServersTakenFits
      <4>3. OneEverywhere => \A sc \in Elements(ss) : sc.pass => sc \in Elements(servers')
        BY <3>2, <3>5, <4>2
      <4> QED BY <1>1, <3>1, <3>4, <3>6, <3>7, <4>2, <4>3 DEF ServersHold, KnownServers
    <3>8. CASE /\ phase' = "idle"
               /\ \E k \in 1 .. Len(ss) : servers' = ServersTaken(servers, ss, k - 1)
      <4>1. PICK k \in 0 .. Len(ss) : servers' = ServersTaken(servers, ss, k)
        <5>1. PICK i \in 1 .. Len(ss) : servers' = ServersTaken(servers, ss, i - 1)
          BY <3>8
        <5>2. i - 1 \in 0 .. Len(ss)
          BY <3>2
        <5> QED BY <5>1, <5>2
      <4>2. servers' \in Seq(ServerRecords) /\ (OneName(servers) => OneName(servers'))
        BY <3>1, <3>2, <4>1, ServersTakenFits
      <4> QED BY <1>1, <3>1, <3>8, <4>2 DEF ServersHold
    <3>9. CASE phase' = "idle" /\ servers' = servers
      BY <1>1, <3>1, <3>9 DEF ServersHold
    <3> QED BY <3>3, <3>7, <3>8, <3>9
  <2> QED BY <2>3, <2>4
<1> QED BY <1>2, <1>3

LEMMA LoadDoneServes ==
  ASSUME ModulesInOrder, ServersHold, PortsHold, LoadDone
  PROVE  ServersHold' /\ PortsHold'
<1>1. /\ phase \in {"boot", "load"} /\ servers' = servers /\ listeners' = listeners
      /\ open' = open
      /\ phase' = IF phase = "boot" THEN "idle" ELSE "remove"
      /\ file' = IF phase = "boot" THEN NULL ELSE file
      /\ applied' = IF phase = "boot" THEN file ELSE applied
  BY DEF LoadDone
<1>2. file \in Files /\ applied = NULL
  BY <1>1 DEF ModulesInOrder, PhasesFit
<1>3. CASE phase = "boot"
  <2>1. phase' = "idle" /\ file' = NULL /\ applied' = file
    BY <1>1, <1>3
  <2>2. servers = file.servers /\ Addrs(listeners) = Elements(file.listeners)
    BY <1>3 DEF ServersHold, PortsHold
  <2>3. PortsHold'
    BY <1>1, <2>1, <2>2 DEF PortsHold
  <2>4. ASSUME NEW sc \in Elements(servers) PROVE AddressIn(file, sc)
    <3>1. PICK k \in 1 .. Len(servers) : servers[k] = sc
      BY DEF Elements
    <3>2. DOMAIN servers = 1 .. Len(servers)
      BY LenProperties DEF ServersHold
    <3>3. k \in DOMAIN file.servers /\ file.servers[k].addr = sc.addr
      BY <2>2, <3>1, <3>2
    <3> QED BY <3>3 DEF AddressIn
  <2>5. ServersHold'
    BY <1>1, <2>1, <2>2, <2>4 DEF ServersHold, KnownServers
  <2> QED BY <2>3, <2>5
<1>4. CASE phase = "load"
  BY <1>1, <1>2, <1>4, ServersAndPortsStay
<1> QED BY <1>1, <1>3, <1>4

LEMMA RemoveOldServes ==
  ASSUME ModulesInOrder, ServersHold, PortsHold, phase = "remove", file # NULL,
         listeners' = Keep(listeners, {l \in Elements(listeners) :
                                         l.addr \in Elements(file.listeners)}),
         open' = KeptOpen({l \in Elements(listeners) : l.addr \notin Elements(file.listeners)}),
         servers' = KeptServers(file), phase' = "idle", file' = NULL, applied' = file
  PROVE  ServersHold' /\ PortsHold'
<1>1. PortsHold'
  <2> DEFINE stays == Elements(file.listeners)
  <2>1. /\ listeners \in Seq(Listener) /\ OneOpen(listeners) /\ open = Opens(listeners)
        /\ NoPortTwice => OneAddr(listeners)
        /\ stays \subseteq Addrs(listeners)
    BY DEF PortsHold
  <2>2. open' = open \ Going(listeners, stays)
    BY DEF KeptOpen, Going
  <2>3. listeners' = Staying(listeners, stays)
    BY DEF Staying
  <2>4. stays = Elements(file.listeners)
    OBVIOUS
  <2> HIDE DEF stays
  <2>5. /\ listeners' \in Seq(Listener) /\ (OneAddr(listeners) => OneAddr(listeners'))
        /\ OneOpen(listeners')
        /\ Addrs(listeners') = Addrs(listeners) \cap stays /\ open' = Opens(listeners')
    BY <2>1, <2>2, <2>3, KeptListeners
  <2>6. Addrs(listeners') = stays
    BY <2>1, <2>5
  <2> QED BY <2>1, <2>4, <2>5, <2>6 DEF PortsHold
<1>2. ServersHold'
  <2> DEFINE K == {sc \in Elements(servers) : AddressIn(file, sc)}
             t == Keep(servers, K)
  <2>1. servers \in Seq(ServerRecords) /\ servers' = t
    BY DEF ServersHold, KeptServers
  <2>2. t \in Seq(ServerRecords) /\ Elements(t) = Elements(servers) \cap K
    BY <2>1, KeepKeeps
  <2>3. OneEverywhere => OneName(t)
    BY <2>1, KeptOneName DEF ServersHold
  <2>4. ASSUME OneEverywhere, NEW sc \in Elements(file.servers), sc.pass PROVE sc \in Elements(t)
    <3>1. sc \in Elements(servers)
      BY <2>4 DEF ServersHold, KnownServers
    <3>2. file.servers \in Seq(ServerRecords)
      BY FilesMods DEF ModulesInOrder, PhasesFit
    <3>3. PICK k \in DOMAIN file.servers : file.servers[k] = sc
      BY <3>2, LenProperties DEF Elements
    <3>4. AddressIn(file, sc)
      BY <3>3 DEF AddressIn
    <3> QED BY <2>2, <3>1, <3>4
  <2>5. \A sc \in Elements(t) : AddressIn(file, sc)
    BY <2>2
  <2> HIDE DEF K, t
  <2> QED BY <2>1, <2>2, <2>3, <2>4, <2>5 DEF ServersHold, KnownServers
<1> QED BY <1>1, <1>2

-----------------------------------------------------------------------------
(* What every step keeps.                                                  *)
Kept == RehashHolds' /\ NewestGoes /\ (Off \/ IdsStay)

LEMMA LoadNextKeeps ==
  ASSUME RehashHolds, LoadNext
  PROVE  ModulesHold' /\ IdsStay
<1> DEFINE m == Head(todo)
<1>1. m \in Mods
  BY Coming DEF LoadNext, RehashHolds
<1>2. UNCHANGED modvars \/ Load(m) \/ LoadFails(m)
  BY DEF LoadNext, LoadRefused
<1> HIDE DEF m
<1>3. CASE UNCHANGED modvars
  BY <1>3, ModulesStay DEF RehashHolds
<1>4. CASE Load(m)
  BY <1>1, <1>4, LoadSteps DEF RehashHolds
<1>5. CASE LoadFails(m)
  BY <1>1, <1>5, LoadFailsSteps DEF RehashHolds
<1> QED BY <1>2, <1>3, <1>4, <1>5

LEMMA UnloadNextKeeps ==
  ASSUME RehashHolds, UnloadNext
  PROVE  ModulesHold' /\ IdsStay
<1>1. cursor \in Mods
  BY DEF UnloadNext, RehashHolds, ModulesInOrder, ListsFit
<1>2. UNCHANGED modvars \/ Unload(cursor) \/ UnloadSticks(cursor)
  BY DEF UnloadNext
<1>3. CASE UNCHANGED modvars
  BY <1>3, ModulesStay DEF RehashHolds
<1>4. CASE Unload(cursor) \/ UnloadSticks(cursor)
  BY <1>1, <1>4, UnloadSteps DEF RehashHolds
<1> QED BY <1>2, <1>3, <1>4

LEMMA RemoveOldKeeps ==
  ASSUME RehashHolds, RemoveOld
  PROVE  Kept
<1> DEFINE going == {l \in Elements(listeners) : l.addr \notin Elements(file.listeners)}
<1>1. \/ Off
      \/ /\ file # NULL
         /\ listeners' = Keep(listeners, {l \in Elements(listeners) :
                                            l.addr \in Elements(file.listeners)})
         /\ open' = KeptOpen(going)
         /\ servers' = KeptServers(file)
         /\ phase' = "idle" /\ file' = NULL /\ applied' = file
         /\ UNCHANGED <<modvars, listed, last, cursor, todo, refused, order>>
  BY DEF RemoveOld
<1>2. CASE Off
  BY <1>2, OffHolds DEF Kept
<1>3. CASE ~ Off
  <2>1. phase = "remove"
    BY DEF RemoveOld
  <2>2. ModulesHold /\ ModulesInOrder /\ ServersHold /\ PortsHold
    BY DEF RehashHolds
  <2>3. ModulesHold' /\ IdsStay
    BY <1>1, <1>3, <2>2, ModulesStay
  <2>4. ModulesInOrder' /\ NewestGoes
    BY <1>1, <1>3, <2>1, <2>2, RemoveOldOrders
  <2>5. ServersHold' /\ PortsHold'
    BY <1>1, <1>3, <2>1, <2>2, RemoveOldServes
  <2> QED BY <2>3, <2>4, <2>5 DEF Kept, RehashHolds
<1> QED BY <1>2, <1>3

LEMMA EveryStepKeeps ==
  RehashHolds /\ [Next]_vars => Kept
<1> SUFFICES ASSUME RehashHolds, [Next]_vars PROVE Kept
  OBVIOUS
<1>1. ModulesHold /\ ModulesInOrder /\ ServersHold /\ PortsHold
  BY DEF RehashHolds
<1>2. phase \notin {"boot", "load", "remove", "unload"} => file = NULL
  BY <1>1 DEF ModulesInOrder, PhasesFit
<1>3. ASSUME NEW f \in Files, Start(f) PROVE Kept
  <2>1. ModulesHold' /\ IdsStay
    BY <1>1, <1>3, ModulesStay DEF Start
  <2>2. ModulesInOrder' /\ NewestGoes
    BY <1>1, <1>3, StartOrders
  <2>3. ServersHold' /\ PortsHold'
    BY <1>1, <1>3, StartServes
  <2> QED BY <2>1, <2>2, <2>3 DEF Kept, RehashHolds
<1>4. ASSUME NEW f \in Files \cup {NULL}, Hup(f) PROVE Kept
  <2>1. ModulesHold' /\ IdsStay
    BY <1>1, <1>4, ModulesStay DEF Hup
  <2>2. ModulesInOrder' /\ NewestGoes
    BY <1>1, <1>4, HupOrders
  <2>3. ServersHold' /\ PortsHold'
    <3>1. /\ UNCHANGED <<servers, listeners, open>> /\ phase' = "unload" /\ applied' = NULL
      BY <1>4 DEF Hup
    <3> QED BY <1>1, <3>1, ServersAndPortsStay
  <2> QED BY <2>1, <2>2, <2>3 DEF Kept, RehashHolds
<1>5. CASE UnloadNext
  <2>1. ModulesHold' /\ IdsStay
    BY <1>5, UnloadNextKeeps
  <2>2. ModulesInOrder' /\ NewestGoes
    BY <1>1, <1>5, UnloadNextOrders
  <2>3. ServersHold' /\ PortsHold'
    <3>1. /\ UNCHANGED <<servers, listeners, open>> /\ phase' = phase /\ applied' = applied
          /\ file' = file
      BY <1>5 DEF UnloadNext
    <3> QED BY <1>1, <3>1, ServersAndPortsStay
  <2> QED BY <2>1, <2>2, <2>3 DEF Kept, RehashHolds
<1>6. CASE TakeOver
  <2>1. ModulesHold' /\ IdsStay
    BY <1>1, <1>6, ModulesStay DEF TakeOver
  <2>2. ModulesInOrder' /\ NewestGoes
    BY <1>1, <1>6, TakeOverOrders
  <2>3. ServersHold' /\ PortsHold'
    BY <1>1, <1>6, TakeOverServes
  <2> QED BY <2>1, <2>2, <2>3 DEF Kept, RehashHolds
<1>7. CASE LoadNext
  <2>1. ModulesHold' /\ IdsStay
    BY <1>7, LoadNextKeeps
  <2>2. ModulesInOrder' /\ NewestGoes
    BY <1>1, <1>7, LoadNextOrders
  <2>3. ServersHold' /\ PortsHold'
    <3>1. /\ UNCHANGED <<servers, listeners, open>> /\ phase' = phase /\ applied' = applied
          /\ file' = file
      BY <1>7 DEF LoadNext
    <3> QED BY <1>1, <3>1, ServersAndPortsStay
  <2> QED BY <2>1, <2>2, <2>3 DEF Kept, RehashHolds
<1>8. CASE LoadDone
  <2>1. ModulesHold' /\ IdsStay
    BY <1>1, <1>8, ModulesStay DEF LoadDone
  <2>2. ModulesInOrder' /\ NewestGoes
    BY <1>1, <1>8, LoadDoneOrders
  <2>3. ServersHold' /\ PortsHold'
    BY <1>1, <1>8, LoadDoneServes
  <2> QED BY <2>1, <2>2, <2>3 DEF Kept, RehashHolds
<1>9. CASE RemoveOld
  BY <1>9, RemoveOldKeeps
<1>10. CASE UNCHANGED confvars /\ (UNCHANGED modvars \/ Running)
  <2>1. UNCHANGED modvars \/ \E d \in Decls : Register(d) \/ Unregister(d)
    BY <1>10 DEF Running
  <2>2. ModulesHold' /\ IdsStay
    <3>1. CASE UNCHANGED modvars
      BY <1>1, <3>1, ModulesStay
    <3>2. CASE \E d \in Decls : Register(d) \/ Unregister(d)
      <4>1. PICK d \in Decls : Register(d) \/ Unregister(d)
        BY <3>2
      <4> QED BY <1>1, <4>1, RunningSteps
    <3> QED BY <2>1, <3>1, <3>2
  <2>3. UNCHANGED mod
    BY <2>1 DEF modvars, Register, Unregister
  <2>4. ModulesInOrder' /\ NewestGoes
    BY <1>1, <1>10, <2>3, RunningOrders
  <2>5. ServersHold' /\ PortsHold'
    <3>1. /\ UNCHANGED <<servers, listeners, open>> /\ phase' = phase /\ applied' = applied
          /\ file' = file
      BY <1>10 DEF confvars
    <3> QED BY <1>1, <3>1, ServersAndPortsStay
  <2> QED BY <2>2, <2>4, <2>5 DEF Kept, RehashHolds
<1>11. CASE Running
  BY <1>10, <1>11 DEF Running
<1>12. CASE UNCHANGED vars
  BY <1>10, <1>12 DEF vars
<1> QED BY <1>3, <1>4, <1>5, <1>6, <1>7, <1>8, <1>9, <1>11, <1>12 DEF Next

LEMMA RehashHoldsAlways == Spec => []RehashHolds
<1>1. RehashHolds /\ [Next]_vars => RehashHolds'
  BY EveryStepKeeps DEF Kept
<1> QED BY InitHolds, <1>1, PTL DEF Spec

LEMMA RegistrationsHold == RehashHolds => RegistrationsSound
<1> SUFFICES ASSUME RehashHolds PROVE RegistrationsSound
  OBVIOUS
<1>1. ModulesTypeOK /\ OwnerAnswers /\ RegisteredBothWays /\ EveryCommandAnswered
  BY HoldIsRegistered DEF RehashHolds
<1>2. /\ phase \in {"off", "boot", "unload", "load", "remove", "idle"}
      /\ file \in Files \cup {NULL} /\ applied \in Files \cup {NULL} /\ refused \subseteq Mods
  BY DEF RehashHolds, ModulesInOrder, PhasesFit
<1>3. /\ listed \in Seq(Mods) /\ last \in Mods \cup {NULL} /\ cursor \in Mods \cup {NULL}
      /\ todo \in Seq(Mods) /\ order \in Seq(Mods)
  BY DEF RehashHolds, ModulesInOrder, ListsFit
<1>4. servers \in Seq(ServerRecords)
  BY DEF RehashHolds, ServersHold
<1>5. listeners \in Seq(Listener) /\ open = Opens(listeners)
  BY DEF RehashHolds, PortsHold
<1>6. open \subseteq Addresses
  <2>1. Elements(listeners) \subseteq Listener
    BY <1>5, InList
  <2> QED BY <1>5, <2>1 DEF Opens, Listener
<1> QED BY <1>1, <1>2, <1>3, <1>4, <1>5, <1>6 DEF RegistrationsSound, TypeOK, Listener

LEMMA EveryoneHolds == RehashHolds => EveryoneIsListed
<1> SUFFICES ASSUME ListsFit PROVE EveryoneIsListed
  BY DEF RehashHolds, ModulesInOrder
<1>1. \A m \in Mods : mod[m].state = "up" => m \in Elements(listed)
  BY DEF ListsFit, Up
<1>2. /\ NoTwice(listed)
      /\ phase = "idle" => last = LastOf(listed) /\ \A m \in Elements(listed) : Loaded(m)
  BY DEF ListsFit
<1> QED BY <1>1, <1>2 DEF EveryoneIsListed

LEMMA FileHolds == RehashHolds => FollowsTheFile
<1> SUFFICES ASSUME ModulesInOrder, ServersHold, PortsHold PROVE FollowsTheFile
  BY DEF RehashHolds
<1>1. ModulesFollowTheFile
  <2>1. SUFFICES ASSUME phase = "idle", applied # NULL
                 PROVE  {m \in Mods : mod[m].state = "up"}
                          = {m \in Elements(applied.mods) \ refused : mod[m].state # "stuck"}
    BY DEF ModulesFollowTheFile
  <2>2. todo = <<>> /\ UpFrom(applied)
    BY <2>1 DEF ModulesInOrder, PhasesFit, FileFits
  <2>3. Elements(todo) = {}
    BY <2>2, EmptyList
  <2> QED BY <2>2, <2>3 DEF UpFrom, Up
<1>2. ServersFollowTheFile
  <2>1. SUFFICES ASSUME phase = "idle", applied # NULL, \A f \in Files : OneEach(f)
                 PROVE  /\ \A sc \in Elements(applied.servers) : sc.pass =>
                             Cardinality({k \in DOMAIN servers : servers[k].name = sc.name}) = 1
                               /\ sc \in Elements(servers)
                        /\ \A sc \in Elements(servers) : AddressIn(applied, sc)
    BY DEF ServersFollowTheFile
  <2>2. /\ servers \in Seq(ServerRecords) /\ OneName(servers) /\ KnownServers(applied)
        /\ \A sc \in Elements(servers) : AddressIn(applied, sc)
    BY <2>1 DEF ServersHold, OneEverywhere
  <2>3. ASSUME NEW sc \in Elements(applied.servers), sc.pass
        PROVE  Cardinality({k \in DOMAIN servers : servers[k].name = sc.name}) = 1
                 /\ sc \in Elements(servers)
    <3>1. sc \in Elements(servers)
      BY <2>2, <2>3 DEF KnownServers
    <3> QED BY <2>2, <3>1, JustOne
  <2> QED BY <2>2, <2>3
<1>3. PortsFollowTheFile
  <2>1. /\ listeners \in Seq(Listener) /\ OneOpen(listeners) /\ open = Opens(listeners)
        /\ NoPortTwice => OneAddr(listeners)
    BY DEF PortsHold
  <2>2. ASSUME phase = "idle", applied # NULL
        PROVE  /\ Addrs(listeners) = Elements(applied.listeners)
               /\ NoPortTwice => Len(listeners) = Len(applied.listeners)
    <3>1. applied \in Files
      BY <2>2 DEF ModulesInOrder, PhasesFit
    <3>2. applied.listeners \in Seq(Addresses) /\ (NoPortTwice => NoTwice(applied.listeners))
      BY <3>1, FilesMods DEF NoPortTwice
    <3>3. Addrs(listeners) = Elements(applied.listeners)
      BY <2>2 DEF PortsHold
    <3> QED BY <2>1, <3>2, <3>3, SameLen
  <2>3. DOMAIN listeners = 1 .. Len(listeners)
    BY <2>1, LenProperties
  <2>4. \A j, k \in DOMAIN listeners :
          listeners[j].con = "open" /\ listeners[k] = listeners[j] => j = k
    BY <2>1, <2>3 DEF OneOpen
  <2> QED BY <2>1, <2>2, <2>4 DEF PortsFollowTheFile, Addrs, Opens, NoPortTwice
<1> QED BY <1>1, <1>2, <1>3 DEF FollowsTheFile

(* An id that was given is nobody else's as long as the process is there.  *)
LEMMA IdsStayGiven ==
  ASSUME RehashHolds', Off \/ IdsStay, NEW o \in Mods, mod'[o].id # 0,
         NEW m \in Mods, mod[m].id # 0
  PROVE  mod'[m].id = mod[m].id /\ \A p \in Mods \ {m} : mod'[p].id # mod[m].id
<1>1. ~ Off
  BY DEF Off
<1>2. mod'[m].id = mod[m].id
  BY <1>1 DEF IdsStay, GivenIds
<1>3. \A p, q \in GivenIds' : mod'[p].id = mod'[q].id => p = q
  BY DEF RehashHolds, ModulesHold, IdsFit
<1>4. ASSUME NEW p \in Mods, mod'[p].id = mod[m].id PROVE p = m
  BY <1>2, <1>3, <1>4 DEF GivenIds
<1> QED BY <1>2, <1>4

-----------------------------------------------------------------------------
(* Whatever fails while modules are loaded and unloaded, every command of  *)
(* a module that runs is answered by a declaration of its own, and nothing *)
(* of a module that is gone can be reached (simodule_load, -unload,        *)
(* simodule_add_client, simodule_del_client).                              *)
THEOREM RegistrationsAlwaysSound == Spec => []RegistrationsSound
BY RehashHoldsAlways, RegistrationsHold, PTL

(* The list that the next rehash walks over has every module that runs,    *)
(* once, and c_lastmodule is its end (siconf_parse).                       *)
THEOREM ListsAreComplete == Spec => []EveryoneIsListed
BY RehashHoldsAlways, EveryoneHolds, PTL

(* Whatever the configurations before it were, a rehash that got through   *)
(* leaves the modules, servers and ports of its file (siconf_parse).       *)
THEOREM FilesAreFollowed == Spec => []FollowsTheFile
BY RehashHoldsAlways, FileHolds, PTL

(* No module is unloaded before one that was loaded after it, and none is  *)
(* given another's id (siconf_parse, simodule_load).                       *)
THEOREM OrderAndIdsAlwaysKept == Spec => OrderAndIdsKept
<1>1. RehashHolds /\ [Next]_vars =>
        [\A j, k \in DOMAIN order :
           (j < k /\ phase' # "off" /\ mod'[order[j]].state # "up")
             => mod'[order[k]].state # "up"]_vars
  BY EveryStepKeeps DEF Kept, NewestGoes
<1>2. RehashHolds /\ [Next]_vars =>
        [(\E m \in Mods : mod'[m].id # 0) =>
           \A m \in Mods : mod[m].id # 0 =>
             /\ mod'[m].id = mod[m].id
             /\ \A o \in Mods \ {m} : mod'[o].id # mod[m].id]_modvars
  BY EveryStepKeeps, IdsStayGiven DEF Kept
<1>3. Spec => NewestGoesFirst
  BY RehashHoldsAlways, <1>1, PTL DEF Spec, NewestGoesFirst
<1>4. Spec => IdsAreForever
  BY RehashHoldsAlways, <1>2, PTL DEF Spec, IdsAreForever
<1> QED BY <1>3, <1>4 DEF OrderAndIdsKept
=============================================================================
