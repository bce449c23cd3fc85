---------------------------- MODULE NetworkProofs -----------------------------
(***************************************************************************)
(* Proofs about Network, and about Admin, whose sessions are of clients of *)
(* the network, for any names, addresses, connections and channels, and    *)
(* any accounts, masks and numbers of failures, edits and ticks.           *)
(*                                                                         *)
(* Network.  NetworkSound and EveryoneKnown are not inductive.  That the   *)
(* counts stay right when a link goes needs that all who came over it are  *)
(* behind its server, that is, that the structures are trees: Trees, which *)
(* says it of every set that has the roots and whoever's parent it has, so *)
(* that no path has to be followed.  That siclient_find finds somebody     *)
(* needs the list that the pointers of the bucket are (Linked) and the     *)
(* order of those in it who have the same name (NamesAre).  FreedFrom      *)
(* takes a set out one by one in an order that is not known: UnlinksAll    *)
(* is the induction that carries a relation between who has gone and what  *)
(* the hash is through it, and Bucket's walk is followed by another.  Once *)
(* memory that is free has been used, nothing is claimed of the bucket.    *)
(*                                                                         *)
(* Admin.  What the second part of a handler does is right because of what *)
(* its first part found and the lock has kept since: HandlerOK.  A minute  *)
(* reaches into two windows of the counter, and the guesses of the older   *)
(* one are not counted any more: GuessInv says that those of either are no *)
(* more than a window takes.                                               *)
(***************************************************************************)
EXTENDS Network, Admin, DataProofs

(* What a pointer to a structure holds, and a structure.                   *)
Pointers == Ids \cup {NULL}

Client ==
  [name : ServerNames \cup Nicks, kind : {"server", "user"}, parent : Pointers,
   from : Conns \cup {NULL}, jupe : BOOLEAN, oper : BOOLEAN,
   burst : {"no", "sent", "got"}, hnext : Pointers, hprev : Pointers]

(* The structures in memory, and the hash over them.                       *)
Tables == UNION {[D -> Client] : D \in SUBSET Ids}

Hashes == [cli : Tables, head : Pointers, wild : BOOLEAN]

(* The same structure but for its place in the bucket.                     *)
SameFace(r, t) ==
  /\ t.name = r.name /\ t.kind = r.kind /\ t.parent = r.parent /\ t.from = r.from
  /\ t.jupe = r.jupe /\ t.oper = r.oper /\ t.burst = r.burst

(* d is c without D; d is c with r at the address i.                       *)
Left(c, D, d) ==
  /\ DOMAIN d = DOMAIN c \ D
  /\ \A j \in DOMAIN d : SameFace(c[j], d[j])

Taken(c, i, r, d) ==
  /\ DOMAIN d = DOMAIN c \cup {i}
  /\ SameFace(r, d[i])
  /\ \A j \in DOMAIN c \ {i} : SameFace(c[j], d[j])

(* What a table of structures is, of one and all.                          *)
LEMMA TableFacts ==
  ASSUME NEW c \in Tables
  PROVE  /\ DOMAIN c \subseteq Ids /\ c \in [DOMAIN c -> Client]
         /\ \A i \in DOMAIN c : c[i] \in Client
<1>1. PICK D \in SUBSET Ids : c \in [D -> Client]
  BY DEF Tables
<1> QED BY <1>1

(* A function from addresses to structures is a table.                     *)
LEMMA TableIs ==
  ASSUME NEW D \in SUBSET Ids, NEW c \in [D -> Client]
  PROVE  c \in Tables /\ DOMAIN c = D
BY DEF Tables

(* siclient_hash_add puts r at i, and of the others only pointers change.  *)
LEMMA PushedFaces ==
  ASSUME NEW h \in Hashes, NEW i \in Ids, NEW r \in Client
  PROVE  /\ Pushed(h, i, r) \in Hashes /\ Pushed(h, i, r).wild = h.wild
         /\ Pushed(h, i, r).head = i
         /\ Taken(h.cli, i, r, Pushed(h, i, r).cli)
<1> DEFINE c == [j \in DOMAIN h.cli \cup {i} |->
                   IF j = i THEN [r EXCEPT !.hnext = h.head, !.hprev = NULL]
                   ELSE IF j = h.head THEN [h.cli[j] EXCEPT !.hprev = i]
                   ELSE h.cli[j]]
<1>1. h.cli \in Tables /\ h.head \in Pointers /\ h.wild \in BOOLEAN
  BY DEF Hashes
<1>2. DOMAIN h.cli \subseteq Ids /\ \A j \in DOMAIN h.cli : h.cli[j] \in Client
  BY <1>1, TableFacts
<1>3. [r EXCEPT !.hnext = h.head, !.hprev = NULL] \in Client
  BY <1>1 DEF Client, Pointers
<1>4. \A j \in DOMAIN h.cli : [h.cli[j] EXCEPT !.hprev = i] \in Client
  BY <1>2 DEF Client, Pointers
<1>5. c \in [DOMAIN h.cli \cup {i} -> Client]
  BY <1>2, <1>3, <1>4
<1>6. DOMAIN h.cli \cup {i} \in SUBSET Ids
  BY <1>2
<1>7. c \in Tables /\ DOMAIN c = DOMAIN h.cli \cup {i}
  <2> HIDE DEF c
  <2> QED BY <1>5, <1>6, TableIs
<1>8. Pushed(h, i, r) = [h EXCEPT !.head = i, !.cli = c]
  BY DEF Pushed
<1>9. Taken(h.cli, i, r, c)
  <2>1. SameFace(r, c[i])
    BY DEF SameFace, Client
  <2>2. ASSUME NEW j \in DOMAIN h.cli \ {i} PROVE SameFace(h.cli[j], c[j])
    <3>1. h.cli[j] \in Client
      BY <1>2
    <3> QED BY <3>1 DEF SameFace, Client
  <2> QED BY <1>7, <2>1, <2>2 DEF Taken
<1> HIDE DEF c
<1>10. [h EXCEPT !.head = i, !.cli = c] \in Hashes
  BY <1>7 DEF Hashes, Pointers
<1>11. [h EXCEPT !.head = i, !.cli = c].wild = h.wild /\ [h EXCEPT !.head = i, !.cli = c].cli = c
       /\ [h EXCEPT !.head = i, !.cli = c].head = i
  BY DEF Hashes
<1> QED BY <1>8, <1>9, <1>10, <1>11

(* siclient_hash_del changes pointers only.                                *)
LEMMA UnlinkedFaces ==
  ASSUME NEW h \in Hashes, NEW i \in DOMAIN h.cli
  PROVE  /\ Unlinked(h, i) \in Hashes
         /\ Left(h.cli, {}, Unlinked(h, i).cli)
<1> DEFINE p == h.cli[i].hprev
           n == h.cli[i].hnext
           c == [j \in DOMAIN h.cli |->
                   [h.cli[j] EXCEPT !.hnext = IF j = p THEN n ELSE @,
                                    !.hprev = IF j = n THEN p ELSE @]]
<1>1. h.cli \in Tables /\ h.head \in Pointers /\ h.wild \in BOOLEAN
  BY DEF Hashes
<1>2. DOMAIN h.cli \subseteq Ids /\ \A j \in DOMAIN h.cli : h.cli[j] \in Client
  BY <1>1, TableFacts
<1>3. p \in Pointers /\ n \in Pointers
  BY <1>2 DEF Client
<1>4. Unlinked(h, i) = [head |-> IF p = NULL THEN n ELSE h.head, cli |-> c,
                        wild |-> h.wild \/ ~ {p, n} \subseteq DOMAIN h.cli \cup {NULL}]
  BY DEF Unlinked
<1> HIDE DEF p, n
<1>5. ASSUME NEW j \in DOMAIN h.cli
      PROVE  c[j] \in Client /\ SameFace(h.cli[j], c[j])
  BY <1>2, <1>3 DEF Client, SameFace
<1>6. DOMAIN c = DOMAIN h.cli
  OBVIOUS
<1>7. c \in [DOMAIN h.cli -> Client]
  BY <1>5
<1> HIDE DEF c
<1>8. c \in Tables
  BY <1>2, <1>7, TableIs
<1>9. Left(h.cli, {}, c)
  BY <1>5, <1>6 DEF Left
<1>10. (IF p = NULL THEN n ELSE h.head) \in Pointers
  BY <1>1, <1>3
<1> QED BY <1>4, <1>8, <1>9, <1>10 DEF Hashes

-----------------------------------------------------------------------------
(* g is what the hash is when the sets of U have been taken out of it.     *)
Unlinks(s, U, g) ==
  g = [T \in U |-> IF T = {} THEN s ELSE Unlinked(g[T \ {Chosen(T)}], Chosen(T))]

(* The function that FreedFrom's fold chooses exists.                      *)
LEMMA UnlinksExist ==
  ASSUME NEW S, IsFiniteSet(S), NEW s
  PROVE  \E g : Unlinks(s, SUBSET S, g)
<1> DEFINE D(n) == {T \in SUBSET S : Cardinality(T) <= n}
           N == {n \in Nat : \E g : Unlinks(s, D(n), g)}
<1>1. 0 \in N
  <2>1. \A T \in SUBSET S : Cardinality(T) <= 0 => T = {}
    BY FS_EmptySet, FS_Subset, FS_CardinalityType
  <2>2. Unlinks(s, D(0), [T \in D(0) |-> s])
    BY <2>1 DEF Unlinks
  <2> QED BY <2>2
<1>2. ASSUME NEW n \in Nat, n \in N PROVE n + 1 \in N
  <2>1. PICK g : Unlinks(s, D(n), g)
    BY <1>2
  <2> DEFINE h == [T \in D(n + 1) |->
                     IF T = {} THEN s ELSE Unlinked(g[T \ {Chosen(T)}], Chosen(T))]
  <2>2. \A T \in D(n + 1) : T # {} => T \ {Chosen(T)} \in D(n)
    <3>1. SUFFICES ASSUME NEW T \in SUBSET S, Cardinality(T) <= n + 1, T # {}
                   PROVE  Cardinality(T \ {Chosen(T)}) <= n
      OBVIOUS
    <3>2. Chosen(T) \in T /\ IsFiniteSet(T)
      BY <3>1, FS_Subset DEF Chosen
    <3>3. Cardinality(T \ {Chosen(T)}) = Cardinality(T) - 1 /\ Cardinality(T) \in Nat
      BY <3>2, FS_RemoveElement, FS_CardinalityType
    <3> QED BY <3>1, <3>3
  <2>3. \A T \in D(n) : T \in D(n + 1) /\ h[T] = g[T]
    <3>1. \A T \in D(n) : T \in D(n + 1)
      BY FS_CardinalityType, FS_Subset
    <3>2. \A T \in D(n) : g[T] = IF T = {} THEN s ELSE Unlinked(g[T \ {Chosen(T)}], Chosen(T))
      BY <2>1 DEF Unlinks
    <3> HIDE DEF D
    <3> QED BY <3>1, <3>2
  <2>4. Unlinks(s, D(n + 1), h)
    <3>1. \A T \in D(n + 1) : T # {} => h[T \ {Chosen(T)}] = g[T \ {Chosen(T)}]
      BY <2>2, <2>3
    <3> HIDE DEF D
    <3>2. h = [T \in D(n + 1) |-> IF T = {} THEN s ELSE Unlinked(h[T \ {Chosen(T)}], Chosen(T))]
      BY <3>1
    <3> QED BY <3>2 DEF Unlinks
  <2> HIDE DEF D, h
  <2> QED BY <2>4
<1>3. Nat \subseteq N
  <2> HIDE DEF N
  <2> QED BY <1>1, <1>2, Induction
<1>4. Cardinality(S) \in Nat /\ \A T \in SUBSET S : Cardinality(T) <= Cardinality(S)
  BY FS_CardinalityType, FS_Subset
<1>5. D(Cardinality(S)) = SUBSET S
  BY <1>4
<1>6. Cardinality(S) \in N
  BY <1>3, <1>4
<1> QED BY <1>5, <1>6

(* What holds of the hash and stays true when one more structure is taken  *)
(* out holds when all of S have been.                                      *)
LEMMA UnlinksAll ==
  ASSUME NEW S, IsFiniteSet(S), NEW s, NEW g, Unlinks(s, SUBSET S, g), NEW A,
         <<{}, s>> \in A,
         \A T \in SUBSET S : \A x \in S \ T : \A h :
           <<T, h>> \in A => <<T \cup {x}, Unlinked(h, x)>> \in A
  PROVE  <<S, g[S]>> \in A
<1> DEFINE N == {n \in Nat : \A T \in SUBSET S : Cardinality(T) = n => <<T, g[T]>> \in A}
<1>1. \A T \in SUBSET S :
        g[T] = IF T = {} THEN s ELSE Unlinked(g[T \ {Chosen(T)}], Chosen(T))
  BY DEF Unlinks
<1>2. 0 \in N
  <2>1. \A T \in SUBSET S : Cardinality(T) = 0 => T = {}
    BY FS_EmptySet, FS_Subset
  <2>2. g[{}] = s
    BY <1>1
  <2> QED BY <2>1, <2>2
<1>3. ASSUME NEW n \in Nat, n \in N PROVE n + 1 \in N
  <2>1. SUFFICES ASSUME NEW T \in SUBSET S, Cardinality(T) = n + 1
                 PROVE  <<T, g[T]>> \in A
    OBVIOUS
  <2> DEFINE x == Chosen(T)
             R == T \ {x}
  <2>2. T # {} /\ x \in T /\ Cardinality(R) = n
    BY <2>1, ChosenOf
  <2> HIDE DEF x
  <2>3. R \in SUBSET S /\ x \in S \ R /\ R \cup {x} = T
    BY <2>2
  <2>4. <<R, g[R]>> \in A
    BY <1>3, <2>2, <2>3
  <2>5. <<R \cup {x}, Unlinked(g[R], x)>> \in A
    BY <2>3, <2>4
  <2>6. g[T] = Unlinked(g[R], x)
    BY <1>1, <2>2 DEF x
  <2> QED BY <2>3, <2>5, <2>6
<1>4. Nat \subseteq N
  <2> HIDE DEF N
  <2> QED BY <1>2, <1>3, Induction
<1>5. Cardinality(S) \in Nat
  BY FS_CardinalityType
<1> QED BY <1>4, <1>5

(* FreedFrom is that function's value, without those that are freed.       *)
LEMMA FreedFromIs ==
  ASSUME NEW s, NEW S, IsFiniteSet(S)
  PROVE  \E g : /\ Unlinks(s, SUBSET S, g)
                /\ FreedFrom(s, S) = [g[S] EXCEPT !.cli = Restrict(@, DOMAIN s.cli \ S)]
<1> DEFINE g == CHOOSE h : Unlinks(s, SUBSET S, h)
<1>1. Unlinks(s, SUBSET S, g)
  BY UnlinksExist
<1>2. FreedFrom(s, S) = [g[S] EXCEPT !.cli = Restrict(@, DOMAIN s.cli \ S)]
  BY DEF FreedFrom, FoldSet, MapThenFoldSet, Unlinks, Chosen
<1> QED BY <1>1, <1>2

(* Who is freed goes, and nothing is different of the others.              *)
LEMMA FreedFaces ==
  ASSUME NEW h \in Hashes, NEW S \in SUBSET DOMAIN h.cli, IsFiniteSet(Ids)
  PROVE  FreedFrom(h, S) \in Hashes /\ Left(h.cli, S, FreedFrom(h, S).cli)
<1> DEFINE A == {a \in (SUBSET S) \X Hashes : Left(h.cli, {}, a[2].cli)}
<1>1. h.cli \in Tables /\ DOMAIN h.cli \subseteq Ids
  BY TableFacts DEF Hashes
<1>2. IsFiniteSet(S)
  BY <1>1, FS_Subset
<1>3. PICK g : /\ Unlinks(h, SUBSET S, g)
               /\ FreedFrom(h, S) = [g[S] EXCEPT !.cli = Restrict(@, DOMAIN h.cli \ S)]
  BY <1>2, FreedFromIs
<1>4. <<{}, h>> \in A
  <2>1. Left(h.cli, {}, h.cli)
    BY DEF Left, SameFace
  <2> QED BY <2>1
<1>5. ASSUME NEW T \in SUBSET S, NEW x \in S \ T, NEW k, <<T, k>> \in A
      PROVE  <<T \cup {x}, Unlinked(k, x)>> \in A
  <2>1. k \in Hashes /\ Left(h.cli, {}, k.cli)
    BY <1>5
  <2>2. x \in DOMAIN k.cli
    BY <2>1 DEF Left
  <2>3. Unlinked(k, x) \in Hashes /\ Left(k.cli, {}, Unlinked(k, x).cli)
    BY <2>1, <2>2, UnlinkedFaces
  <2>4. Left(h.cli, {}, Unlinked(k, x).cli)
    BY <2>1, <2>3 DEF Left, SameFace
  <2> QED BY <2>3, <2>4
<1>6. <<S, g[S]>> \in A
  <2> HIDE DEF A
  <2> QED BY <1>2, <1>3, <1>4, <1>5, UnlinksAll
<1> DEFINE out == g[S]
           c == Restrict(out.cli, DOMAIN h.cli \ S)
<1>7. out \in Hashes /\ Left(h.cli, {}, out.cli)
  BY <1>6
<1> HIDE DEF out
<1>8. out.cli \in Tables /\ DOMAIN out.cli = DOMAIN h.cli /\ \A j \in DOMAIN out.cli : out.cli[j] \in Client
  BY <1>7, TableFacts DEF Hashes, Left
<1>9. c = [j \in DOMAIN h.cli \ S |-> out.cli[j]]
  BY DEF Restrict
<1>10. c \in [DOMAIN h.cli \ S -> Client]
  BY <1>8, <1>9
<1>11. DOMAIN h.cli \ S \in SUBSET Ids
  BY <1>1
<1>12. Left(h.cli, S, c)
  BY <1>7, <1>8, <1>9 DEF Left
<1> HIDE DEF c
<1>13. c \in Tables
  BY <1>10, <1>11, TableIs
<1>14. [out EXCEPT !.cli = c] \in Hashes /\ [out EXCEPT !.cli = c].cli = c
  BY <1>7, <1>13 DEF Hashes
<1>15. FreedFrom(h, S) = [out EXCEPT !.cli = c]
  BY <1>3 DEF out, c
<1> QED BY <1>12, <1>14, <1>15

-----------------------------------------------------------------------------
IsLocalServer(r) == r.kind = "server" /\ r.parent = NULL /\ ~ r.jupe

(* What a structure on its own and its parent say.                         *)
Placed(c, k, i) ==
  /\ c[i].name \in (IF c[i].kind = "server" THEN ServerNames ELSE Nicks)
  /\ c[i].kind = "user" => c[i].burst = "no"
  /\ IF c[i].jupe
     THEN c[i].parent = NULL /\ c[i].name \in Jupable /\ c[i].burst = "no"
     ELSE /\ c[i].from \in Conns /\ k[c[i].from] = "server"
          /\ c[i].parent = NULL => c[i].kind = "server"
  /\ c[i].parent # NULL =>
       /\ c[i].parent \in DOMAIN c
       /\ c[c[i].parent].kind = "server" /\ ~ c[c[i].parent].jupe
       /\ c[c[i].parent].from = c[i].from

(* A set with whoever has no parent and with whoever's parent it has.      *)
HasRoots(c, S) ==
  \A i \in DOMAIN c :
    ~ c[i].jupe /\ (c[i].parent = NULL \/ c[i].parent \in S) => i \in S

(* The structures are trees over the connections k that servers have, and  *)
(* module clients.                                                         *)
Trees(c, k) ==
  /\ c \in Tables
  /\ \A i \in DOMAIN c : Placed(c, k, i)
  /\ \A i, j \in DOMAIN c :
       IsLocalServer(c[i]) /\ IsLocalServer(c[j]) /\ c[i].from = c[j].from => i = j
  /\ \A i, j \in DOMAIN c :
       c[i].jupe /\ c[j].jupe /\ c[i].name = c[j].name => i = j
  /\ \A S \in SUBSET DOMAIN c :
       HasRoots(c, S) => \A i \in DOMAIN c : ~ c[i].jupe => i \in S

CountsAre(c, b, s, l) ==
  /\ b = Cardinality({i \in DOMAIN c : c[i].burst = "sent"})
  /\ s = 1 + Cardinality({i \in DOMAIN c : c[i].kind = "server"})
  /\ l = 1 + Cardinality({i \in DOMAIN c : IsLocalServer(c[i])})

OpersAre(c, o) ==
  /\ o \in Seq(Ids) /\ NoTwice(o)
  /\ Elements(o) = {i \in DOMAIN c : c[i].oper}

MembersAre(c, m) ==
  /\ DOMAIN m \subseteq Channels
  /\ \A ch \in DOMAIN m : m[ch] \subseteq DOMAIN c
  /\ m = [ch \in DOMAIN m |-> m[ch]]

UplinkIs(c, u) == u # NULL => u \in DOMAIN c /\ IsLocalServer(c[u])

SoundInv ==
  /\ Hash \in Hashes
  /\ Trees(cli, conn)
  /\ CountsAre(cli, bursting, servers, links)
  /\ OpersAre(cli, opers)
  /\ MembersAre(cli, chans)
  /\ UplinkIs(cli, uplink)
  /\ conn \in [Conns -> {"none", "unknown", "server"}]
  /\ held \in [Conns -> SUBSET Jupable]
  /\ uplink \in Pointers /\ strikes \in Nat
  /\ ~ wild => ~ Broken(Hash)

(* The pointers of h are those of the list q.                              *)
Linked(h, q) ==
  /\ q \in Seq(Ids) /\ NoTwice(q) /\ Elements(q) \subseteq DOMAIN h.cli
  /\ h.head = IF Len(q) = 0 THEN NULL ELSE q[1]
  /\ \A k \in 1 .. Len(q) :
       /\ h.cli[q[k]].hnext = IF k = Len(q) THEN NULL ELSE q[k + 1]
       /\ h.cli[q[k]].hprev = IF k = 1 THEN NULL ELSE q[k - 1]

(* No two have a name, but for a module client before somebody else.       *)
NamesAre(c, q) ==
  /\ \A i, j \in DOMAIN c :
       ~ c[i].jupe /\ ~ c[j].jupe /\ c[i].name = c[j].name => i = j
  /\ \A k, l \in 1 .. Len(q) :
       k < l /\ c[q[k]].name = c[q[l]].name /\ c[q[l]].jupe => c[q[k]].jupe

(* The bucket has all that are in memory.                                  *)
Whole(h) ==
  \E q \in Seq(Ids) :
    Linked(h, q) /\ Elements(q) = DOMAIN h.cli /\ NamesAre(h.cli, q)

FoundInv == ~ wild /\ strikes = 0 => Whole(Hash)

NetworkInv == SoundInv /\ FoundInv /\ UplinkToldOfJupes

-----------------------------------------------------------------------------
(* A set that leaves with all that are behind it leaves trees.             *)
LEMMA TreesLeft ==
  ASSUME NEW c, NEW k, Trees(c, k), NEW S \in SUBSET DOMAIN c,
         \A j \in DOMAIN c : c[j].parent \in S => j \in S,
         NEW d \in Tables, Left(c, S, d), NEW m,
         \A j \in DOMAIN d : ~ c[j].jupe => m[c[j].from] = "server"
  PROVE  Trees(d, m)
<1>1. DOMAIN d = DOMAIN c \ S /\ \A j \in DOMAIN d : j \in DOMAIN c /\ SameFace(c[j], d[j])
  BY DEF Left
<1>2. ASSUME NEW i \in DOMAIN d PROVE Placed(d, m, i)
  <2>1. Placed(c, k, i) /\ SameFace(c[i], d[i])
    BY <1>1 DEF Trees
  <2>2. c[i].parent # NULL => c[i].parent \in DOMAIN d /\ SameFace(c[c[i].parent], d[c[i].parent])
    BY <1>1, <2>1 DEF Placed
  <2> QED BY <2>1, <2>2 DEF Placed, SameFace
<1>3. ASSUME NEW i \in DOMAIN d, NEW j \in DOMAIN d
      PROVE  /\ IsLocalServer(d[i]) /\ IsLocalServer(d[j]) /\ d[i].from = d[j].from => i = j
             /\ d[i].jupe /\ d[j].jupe /\ d[i].name = d[j].name => i = j
  <2>1. SameFace(c[i], d[i]) /\ SameFace(c[j], d[j]) /\ i \in DOMAIN c /\ j \in DOMAIN c
    BY <1>1
  <2> QED BY <2>1 DEF Trees, SameFace, IsLocalServer
<1>4. ASSUME NEW T \in SUBSET DOMAIN d, HasRoots(d, T), NEW i \in DOMAIN d, ~ d[i].jupe
      PROVE  i \in T
  <2>1. T \cup S \in SUBSET DOMAIN c
    BY <1>1
  <2>2. HasRoots(c, T \cup S)
    <3>1. SUFFICES ASSUME NEW j \in DOMAIN c, ~ c[j].jupe,
                          c[j].parent = NULL \/ c[j].parent \in T \cup S, j \notin S
                   PROVE  j \in T
      BY DEF HasRoots
    <3>2. j \in DOMAIN d /\ SameFace(c[j], d[j]) /\ c[j].parent \notin S
      BY <1>1, <3>1
    <3> QED BY <1>4, <3>1, <3>2 DEF HasRoots, SameFace
  <2>3. i \in DOMAIN c /\ ~ c[i].jupe /\ i \notin S
    BY <1>1, <1>4 DEF SameFace
  <2>4. i \in T \cup S
    BY <2>1, <2>2, <2>3 DEF Trees
  <2> QED BY <2>3, <2>4
<1> QED BY <1>2, <1>3, <1>4 DEF Trees

(* So does somebody new, in the place that a structure may have.           *)
LEMMA TreesNew ==
  ASSUME NEW c, NEW k, Trees(c, k), NEW i \in Ids \ DOMAIN c, NEW r \in Client,
         NEW d \in Tables, Taken(c, i, r, d), NEW m,
         \A j \in DOMAIN c : ~ c[j].jupe => m[c[j].from] = "server",
         r.name \in (IF r.kind = "server" THEN ServerNames ELSE Nicks),
         r.kind = "user" => r.burst = "no",
         IF r.jupe
         THEN /\ r.parent = NULL /\ r.name \in Jupable /\ r.burst = "no"
              /\ \A j \in DOMAIN c : c[j].jupe => c[j].name # r.name
         ELSE /\ r.from \in Conns /\ m[r.from] = "server"
              /\ r.parent = NULL =>
                   /\ r.kind = "server"
                   /\ \A j \in DOMAIN c : IsLocalServer(c[j]) => c[j].from # r.from,
         r.parent # NULL =>
           /\ r.parent \in DOMAIN c
           /\ c[r.parent].kind = "server" /\ ~ c[r.parent].jupe
           /\ c[r.parent].from = r.from
  PROVE  Trees(d, m)
<1>1. /\ DOMAIN d = DOMAIN c \cup {i} /\ SameFace(r, d[i])
      /\ \A j \in DOMAIN c : j # i /\ SameFace(c[j], d[j])
  BY DEF Taken
<1>2. ASSUME NEW j \in DOMAIN d PROVE Placed(d, m, j)
  <2>1. CASE j = i
    <3>1. r.parent # NULL => r.parent \in DOMAIN d /\ SameFace(c[r.parent], d[r.parent])
      BY <1>1
    <3> QED BY <1>1, <2>1, <3>1 DEF Placed, SameFace
  <2>2. CASE j # i
    <3>1. j \in DOMAIN c /\ Placed(c, k, j) /\ SameFace(c[j], d[j])
      BY <1>1, <2>2 DEF Trees
    <3>2. c[j].parent # NULL => c[j].parent \in DOMAIN d /\ SameFace(c[c[j].parent], d[c[j].parent])
      BY <1>1, <3>1 DEF Placed
    <3> QED BY <3>1, <3>2 DEF Placed, SameFace
  <2> QED BY <2>1, <2>2
<1>3. ASSUME NEW j \in DOMAIN d, NEW l \in DOMAIN d
      PROVE  /\ IsLocalServer(d[j]) /\ IsLocalServer(d[l]) /\ d[j].from = d[l].from => j = l
             /\ d[j].jupe /\ d[l].jupe /\ d[j].name = d[l].name => j = l
  <2>1. CASE j # i /\ l # i
    <3>1. SameFace(c[j], d[j]) /\ SameFace(c[l], d[l]) /\ j \in DOMAIN c /\ l \in DOMAIN c
      BY <1>1, <2>1
    <3> QED BY <3>1 DEF Trees, SameFace, IsLocalServer
  <2>2. CASE j = i /\ l # i
    <3>1. SameFace(r, d[j]) /\ SameFace(c[l], d[l]) /\ l \in DOMAIN c
      BY <1>1, <2>2
    <3> QED BY <3>1 DEF SameFace, IsLocalServer
  <2>3. CASE j # i /\ l = i
    <3>1. SameFace(c[j], d[j]) /\ SameFace(r, d[l]) /\ j \in DOMAIN c
      BY <1>1, <2>3
    <3> QED BY <3>1 DEF SameFace, IsLocalServer
  <2> QED BY <2>1, <2>2, <2>3
<1>4. ASSUME NEW T \in SUBSET DOMAIN d, HasRoots(d, T), NEW j \in DOMAIN d, ~ d[j].jupe
      PROVE  j \in T
  <2>1. T \ {i} \in SUBSET DOMAIN c
    BY <1>1
  <2>2. HasRoots(c, T \ {i})
    <3>1. SUFFICES ASSUME NEW l \in DOMAIN c, ~ c[l].jupe,
                          c[l].parent = NULL \/ c[l].parent \in T \ {i}
                   PROVE  l \in T \ {i}
      BY DEF HasRoots
    <3>2. l \in DOMAIN d /\ SameFace(c[l], d[l]) /\ l # i
      BY <1>1
    <3> QED BY <1>4, <3>1, <3>2 DEF HasRoots, SameFace
  <2>3. \A l \in DOMAIN c : ~ c[l].jupe => l \in T
    BY <2>1, <2>2 DEF Trees
  <2>4. CASE j # i
    BY <1>1, <1>4, <2>3, <2>4 DEF SameFace
  <2>5. CASE j = i
    <3>1. ~ r.jupe /\ d[j].parent = r.parent
      BY <1>1, <1>4, <2>5 DEF SameFace
    <3>2. d[j].parent = NULL \/ d[j].parent \in T
      BY <2>3, <3>1
    <3> QED BY <1>4, <3>2 DEF HasRoots
  <2> QED BY <2>4, <2>5
<1> QED BY <1>2, <1>3, <1>4 DEF Trees

(* So does a structure that gets another name, mode or burst.              *)
LEMMA TreesChanged ==
  ASSUME NEW c, NEW k, Trees(c, k), NEW i \in DOMAIN c, NEW r \in Client,
         NEW d \in Tables, Taken(c, i, r, d),
         r.kind = c[i].kind, r.parent = c[i].parent, r.from = c[i].from,
         r.jupe = c[i].jupe, r.jupe => r.name = c[i].name /\ r.burst = "no",
         r.kind = "user" => r.burst = "no",
         r.name \in (IF r.kind = "server" THEN ServerNames ELSE Nicks)
  PROVE  Trees(d, k)
<1>1. /\ DOMAIN d = DOMAIN c /\ SameFace(r, d[i])
      /\ \A j \in DOMAIN c \ {i} : SameFace(c[j], d[j])
  BY DEF Taken
<1>2. \A j \in DOMAIN c :
        /\ d[j].kind = c[j].kind /\ d[j].parent = c[j].parent /\ d[j].from = c[j].from
        /\ d[j].jupe = c[j].jupe
        /\ c[j].jupe => d[j].name = c[j].name
  BY <1>1 DEF SameFace
<1>3. ASSUME NEW j \in DOMAIN d PROVE Placed(d, k, j)
  <2>1. Placed(c, k, j) /\ j \in DOMAIN c
    BY <1>1 DEF Trees
  <2>2. CASE j = i
    BY <1>1, <1>2, <2>1, <2>2 DEF Placed, SameFace
  <2>3. CASE j # i
    BY <1>1, <1>2, <2>1, <2>3 DEF Placed, SameFace
  <2> QED BY <2>2, <2>3
<1>4. ASSUME NEW j \in DOMAIN d, NEW l \in DOMAIN d
      PROVE  /\ IsLocalServer(d[j]) /\ IsLocalServer(d[l]) /\ d[j].from = d[l].from => j = l
             /\ d[j].jupe /\ d[l].jupe /\ d[j].name = d[l].name => j = l
  BY <1>1, <1>2 DEF Trees, IsLocalServer
<1>5. ASSUME NEW T \in SUBSET DOMAIN d, HasRoots(d, T), NEW j \in DOMAIN d, ~ d[j].jupe
      PROVE  j \in T
  <2>1. T \in SUBSET DOMAIN c /\ HasRoots(c, T) /\ j \in DOMAIN c /\ ~ c[j].jupe
    BY <1>1, <1>2, <1>5 DEF HasRoots
  <2> QED BY <2>1 DEF Trees
<1> QED BY <1>3, <1>4, <1>5 DEF Trees

-----------------------------------------------------------------------------
(* Those who are counted.                                                  *)
SentOf(c) == {i \in DOMAIN c : c[i].burst = "sent"}
ServersOf(c) == {i \in DOMAIN c : c[i].kind = "server"}
LocalsOf(c) == {i \in DOMAIN c : IsLocalServer(c[i])}

(* A part that goes takes its number with it.                              *)
LEMMA CardinalityLeft ==
  ASSUME NEW A, IsFiniteSet(A), NEW B \in SUBSET A
  PROVE  Cardinality(A \ B) = Cardinality(A) - Cardinality(B)
<1>1. A \cap B = B
  OBVIOUS
<1> QED BY <1>1, FS_Difference

(* The counts when S has gone.                                             *)
LEMMA CountsLeft ==
  ASSUME NEW c, IsFiniteSet(DOMAIN c), NEW b, NEW s, NEW l, CountsAre(c, b, s, l),
         NEW S \in SUBSET DOMAIN c, NEW d, Left(c, S, d)
  PROVE  CountsAre(d, b - Cardinality({i \in S : c[i].burst = "sent"}),
                   s - Cardinality({i \in S : c[i].kind = "server"}),
                   l - Cardinality({i \in S : IsLocalServer(c[i])}))
<1> DEFINE x == {i \in S : c[i].burst = "sent"}
           y == {i \in S : c[i].kind = "server"}
           z == {i \in S : IsLocalServer(c[i])}
<1>1. /\ x \in SUBSET SentOf(c) /\ y \in SUBSET ServersOf(c) /\ z \in SUBSET LocalsOf(c)
  BY DEF SentOf, ServersOf, LocalsOf
<1>2. /\ SentOf(d) = SentOf(c) \ x /\ ServersOf(d) = ServersOf(c) \ y
      /\ LocalsOf(d) = LocalsOf(c) \ z
  BY DEF Left, SameFace, SentOf, ServersOf, LocalsOf, IsLocalServer
<1>3. IsFiniteSet(SentOf(c)) /\ IsFiniteSet(ServersOf(c)) /\ IsFiniteSet(LocalsOf(c))
  <2>1. /\ SentOf(c) \in SUBSET DOMAIN c /\ ServersOf(c) \in SUBSET DOMAIN c
        /\ LocalsOf(c) \in SUBSET DOMAIN c
    BY DEF SentOf, ServersOf, LocalsOf
  <2> QED BY <2>1, FS_Subset
<1> HIDE DEF x, y, z
<1>4. /\ Cardinality(SentOf(d)) = Cardinality(SentOf(c)) - Cardinality(x)
      /\ Cardinality(ServersOf(d)) = Cardinality(ServersOf(c)) - Cardinality(y)
      /\ Cardinality(LocalsOf(d)) = Cardinality(LocalsOf(c)) - Cardinality(z)
  BY <1>1, <1>2, <1>3, CardinalityLeft
<1>5. /\ Cardinality(SentOf(c)) \in Nat /\ Cardinality(ServersOf(c)) \in Nat
      /\ Cardinality(LocalsOf(c)) \in Nat
      /\ IsFiniteSet(x) /\ IsFiniteSet(y) /\ IsFiniteSet(z)
  BY <1>1, <1>3, FS_CardinalityType, FS_Subset
<1>6. Cardinality(x) \in Nat /\ Cardinality(y) \in Nat /\ Cardinality(z) \in Nat
  BY <1>5, FS_CardinalityType
<1>7. /\ b = Cardinality(SentOf(c)) /\ s = 1 + Cardinality(ServersOf(c))
      /\ l = 1 + Cardinality(LocalsOf(c))
  BY DEF CountsAre, SentOf, ServersOf, LocalsOf
<1>8. /\ b - Cardinality(x) = Cardinality(SentOf(d))
      /\ s - Cardinality(y) = 1 + Cardinality(ServersOf(d))
      /\ l - Cardinality(z) = 1 + Cardinality(LocalsOf(d))
  BY <1>4, <1>5, <1>6, <1>7
<1>9. CountsAre(d, b - Cardinality(x), s - Cardinality(y), l - Cardinality(z))
  BY <1>8 DEF CountsAre, SentOf, ServersOf, LocalsOf
<1> QED BY <1>9 DEF x, y, z

(* The counts when somebody has come.                                      *)
LEMMA CountsNew ==
  ASSUME NEW c, IsFiniteSet(DOMAIN c), NEW b, NEW s, NEW l, CountsAre(c, b, s, l),
         NEW i, i \notin DOMAIN c, NEW r, NEW d, Taken(c, i, r, d)
  PROVE  CountsAre(d, IF r.burst = "sent" THEN b + 1 ELSE b,
                   IF r.kind = "server" THEN s + 1 ELSE s,
                   IF IsLocalServer(r) THEN l + 1 ELSE l)
<1>1. /\ SentOf(d) = IF r.burst = "sent" THEN SentOf(c) \cup {i} ELSE SentOf(c)
      /\ ServersOf(d) = IF r.kind = "server" THEN ServersOf(c) \cup {i} ELSE ServersOf(c)
      /\ LocalsOf(d) = IF IsLocalServer(r) THEN LocalsOf(c) \cup {i} ELSE LocalsOf(c)
  BY DEF Taken, SameFace, SentOf, ServersOf, LocalsOf, IsLocalServer
<1>2. i \notin SentOf(c) /\ i \notin ServersOf(c) /\ i \notin LocalsOf(c)
  BY DEF SentOf, ServersOf, LocalsOf
<1>3. IsFiniteSet(SentOf(c)) /\ IsFiniteSet(ServersOf(c)) /\ IsFiniteSet(LocalsOf(c))
  <2>1. /\ SentOf(c) \in SUBSET DOMAIN c /\ ServersOf(c) \in SUBSET DOMAIN c
        /\ LocalsOf(c) \in SUBSET DOMAIN c
    BY DEF SentOf, ServersOf, LocalsOf
  <2> QED BY <2>1, FS_Subset
<1>4. /\ Cardinality(SentOf(c) \cup {i}) = Cardinality(SentOf(c)) + 1
      /\ Cardinality(ServersOf(c) \cup {i}) = Cardinality(ServersOf(c)) + 1
      /\ Cardinality(LocalsOf(c) \cup {i}) = Cardinality(LocalsOf(c)) + 1
  BY <1>2, <1>3, FS_AddElement
<1>5. /\ Cardinality(SentOf(c)) \in Nat /\ Cardinality(ServersOf(c)) \in Nat
      /\ Cardinality(LocalsOf(c)) \in Nat
  BY <1>3, FS_CardinalityType
<1>6. /\ b = Cardinality(SentOf(c)) /\ s = 1 + Cardinality(ServersOf(c))
      /\ l = 1 + Cardinality(LocalsOf(c))
  BY DEF CountsAre, SentOf, ServersOf, LocalsOf
<1>7. /\ Cardinality(SentOf(d)) = IF r.burst = "sent" THEN b + 1 ELSE b
      /\ 1 + Cardinality(ServersOf(d)) = IF r.kind = "server" THEN s + 1 ELSE s
      /\ 1 + Cardinality(LocalsOf(d)) = IF IsLocalServer(r) THEN l + 1 ELSE l
  BY <1>1, <1>4, <1>5, <1>6
<1> QED BY <1>7 DEF CountsAre, SentOf, ServersOf, LocalsOf

(* The counts when a structure has changed in nothing that is counted.     *)
LEMMA CountsChanged ==
  ASSUME NEW c, NEW b, NEW s, NEW l, CountsAre(c, b, s, l),
         NEW i \in DOMAIN c, NEW r, NEW d, Taken(c, i, r, d),
         r.kind = c[i].kind, r.parent = c[i].parent, r.jupe = c[i].jupe,
         r.burst = c[i].burst
  PROVE  CountsAre(d, b, s, l)
<1>1. SentOf(d) = SentOf(c) /\ ServersOf(d) = ServersOf(c) /\ LocalsOf(d) = LocalsOf(c)
  BY DEF Taken, SameFace, SentOf, ServersOf, LocalsOf, IsLocalServer
<1> QED BY <1>1 DEF CountsAre, SentOf, ServersOf, LocalsOf

(* The counts when a server has ended its burst.                           *)
LEMMA CountsPong ==
  ASSUME NEW c, IsFiniteSet(DOMAIN c), NEW b, NEW s, NEW l, CountsAre(c, b, s, l),
         NEW i \in DOMAIN c, NEW r, NEW d, Taken(c, i, r, d),
         r.kind = c[i].kind, r.parent = c[i].parent, r.jupe = c[i].jupe,
         c[i].burst = "sent", r.burst = "got"
  PROVE  CountsAre(d, b - 1, s, l)
<1>1. /\ SentOf(d) = SentOf(c) \ {i} /\ ServersOf(d) = ServersOf(c) 
      /\ LocalsOf(d) = LocalsOf(c)
  BY DEF Taken, SameFace, SentOf, ServersOf, LocalsOf, IsLocalServer
<1>2. IsFiniteSet(SentOf(c)) /\ i \in SentOf(c)
  <2>1. SentOf(c) \in SUBSET DOMAIN c
    BY DEF SentOf
  <2> QED BY <2>1, FS_Subset DEF SentOf
<1>3. Cardinality(SentOf(d)) = Cardinality(SentOf(c)) - 1
  BY <1>1, <1>2, FS_RemoveElement
<1> QED BY <1>1, <1>3 DEF CountsAre, SentOf, ServersOf, LocalsOf

(* The counts stay within what there can be.                               *)
LEMMA CountsBounded ==
  ASSUME NEW c, NEW k, Trees(c, k), NEW b, NEW s, NEW l, CountsAre(c, b, s, l),
         IsFiniteSet(Ids), IsFiniteSet(Conns)
  PROVE  /\ b \in 0 .. Cardinality(Ids) /\ s \in 1 .. Cardinality(Ids) + 1
         /\ l \in 1 .. Cardinality(Conns) + 1
<1>1. SentOf(c) \in SUBSET Ids /\ ServersOf(c) \in SUBSET Ids
  BY TableFacts DEF Trees, SentOf, ServersOf
<1>2. /\ IsFiniteSet(SentOf(c)) /\ IsFiniteSet(ServersOf(c))
      /\ Cardinality(SentOf(c)) <= Cardinality(Ids)
      /\ Cardinality(ServersOf(c)) <= Cardinality(Ids)
  BY <1>1, FS_Subset
<1> DEFINE f == [i \in LocalsOf(c) |-> c[i].from]
<1>3. f \in Injection(LocalsOf(c), Conns)
  <2>1. ASSUME NEW i \in LocalsOf(c) PROVE i \in DOMAIN c /\ IsLocalServer(c[i]) /\ c[i].from \in Conns
    BY DEF LocalsOf, Trees, Placed, IsLocalServer
  <2>2. f \in [LocalsOf(c) -> Conns]
    BY <2>1
  <2>3. \A i, j \in LocalsOf(c) : f[i] = f[j] => i = j
    BY <2>1 DEF Trees
  <2> HIDE DEF f
  <2> QED BY <2>2, <2>3 DEF Injection, IsInjective
<1>4. IsFiniteSet(LocalsOf(c)) /\ Cardinality(LocalsOf(c)) <= Cardinality(Conns)
  <2> HIDE DEF f
  <2> QED BY <1>3, FS_Injection
<1>5. /\ Cardinality(SentOf(c)) \in Nat /\ Cardinality(ServersOf(c)) \in Nat
      /\ Cardinality(LocalsOf(c)) \in Nat /\ Cardinality(Ids) \in Nat
      /\ Cardinality(Conns) \in Nat
  BY <1>2, <1>4, FS_CardinalityType
<1>6. /\ b = Cardinality(SentOf(c)) /\ s = 1 + Cardinality(ServersOf(c))
      /\ l = 1 + Cardinality(LocalsOf(c))
  BY DEF CountsAre, SentOf, ServersOf, LocalsOf
<1> QED BY <1>2, <1>4, <1>5, <1>6

-----------------------------------------------------------------------------
(* The channels when those of S are out of them.                           *)
MembersWithout(m, S) ==
  [ch \in DOMAIN m \ {x \in DOMAIN m : m[x] # {} /\ m[x] \subseteq S} |-> m[ch] \ S]

(* Who is left has left the channels.                                      *)
LEMMA MembersLeft ==
  ASSUME NEW c, NEW m, MembersAre(c, m), NEW S, NEW d, DOMAIN d = DOMAIN c \ S
  PROVE  MembersAre(d, MembersWithout(m, S))
<1> DEFINE n == MembersWithout(m, S)
<1>1. DOMAIN n \subseteq DOMAIN m /\ \A ch \in DOMAIN n : n[ch] = m[ch] \ S
  BY DEF MembersWithout
<1>2. \A ch \in DOMAIN n : m[ch] \subseteq DOMAIN c
  BY <1>1 DEF MembersAre
<1>3. n = [ch \in DOMAIN n |-> n[ch]]
  BY DEF MembersWithout
<1> HIDE DEF n
<1>4. DOMAIN n \subseteq Channels
  BY <1>1 DEF MembersAre
<1>5. \A ch \in DOMAIN n : n[ch] \subseteq DOMAIN d
  BY <1>1, <1>2
<1>6. MembersAre(d, n)
  BY <1>3, <1>4, <1>5 DEF MembersAre
<1> QED BY <1>6 DEF n

(* Members stay members when others come.                                  *)
LEMMA MembersMore ==
  ASSUME NEW c, NEW m, MembersAre(c, m), NEW d, DOMAIN c \subseteq DOMAIN d
  PROVE  MembersAre(d, m)
BY DEF MembersAre

(* SIOpers without those that go lists the opers who are left.             *)
LEMMA OpersLeft ==
  ASSUME NEW c, NEW o, OpersAre(c, o), NEW S, NEW d, Left(c, S, d)
  PROVE  OpersAre(d, Keep(o, Elements(o) \ S))
<1> DEFINE p == Keep(o, Elements(o) \ S)
<1>1. o \in Seq(Ids) /\ NoTwice(o) /\ Elements(o) = {i \in DOMAIN c : c[i].oper}
  BY DEF OpersAre
<1>2. /\ p \in Seq(Ids) /\ NoTwice(p)
      /\ Elements(p) = Elements(o) \cap (Elements(o) \ S)
  BY <1>1, KeepKeeps
<1> HIDE DEF p
<1>3. Elements(p) = {i \in DOMAIN d : d[i].oper}
  BY <1>1, <1>2 DEF Left, SameFace
<1>4. OpersAre(d, p)
  BY <1>2, <1>3 DEF OpersAre
<1> QED BY <1>4 DEF p

(* SIOpers with an oper in front who is new.                               *)
LEMMA OpersNew ==
  ASSUME NEW c, NEW o, OpersAre(c, o), NEW i \in Ids \ DOMAIN c, NEW r \in Client,
         NEW d, Taken(c, i, r, d)
  PROVE  OpersAre(d, IF r.oper THEN PushFront(i, o) ELSE o)
<1> DEFINE p == PushFront(i, o)
<1>1. o \in Seq(Ids) /\ NoTwice(o) /\ Elements(o) = {j \in DOMAIN c : c[j].oper}
  BY DEF OpersAre
<1>2. p \in Seq(Ids) /\ NoTwice(p) /\ Elements(p) = Elements(o) \cup {i}
  BY <1>1, PushFrontKeeps
<1> HIDE DEF p
<1>3. r.oper \in BOOLEAN
  BY DEF Client
<1>4. {j \in DOMAIN d : d[j].oper} = IF r.oper THEN Elements(o) \cup {i} ELSE Elements(o)
  BY <1>1, <1>3 DEF Taken, SameFace
<1>5. CASE r.oper
  BY <1>2, <1>4, <1>5 DEF OpersAre, p
<1>6. CASE ~ r.oper
  BY <1>1, <1>4, <1>6 DEF OpersAre
<1> QED BY <1>5, <1>6

(* SIOpers when the structure that changed is as much of an oper as before.*)
LEMMA OpersChanged ==
  ASSUME NEW c, NEW o, OpersAre(c, o), NEW i \in DOMAIN c, NEW r, NEW d,
         Taken(c, i, r, d), r.oper = c[i].oper
  PROVE  OpersAre(d, o)
<1>1. {j \in DOMAIN d : d[j].oper} = {j \in DOMAIN c : c[j].oper}
  BY DEF Taken, SameFace
<1> QED BY <1>1 DEF OpersAre

(* SIOpers when an oper stops to be one, or somebody starts to.            *)
LEMMA OpersToggled ==
  ASSUME NEW c \in Tables, NEW o, OpersAre(c, o), NEW i \in DOMAIN c, NEW r, NEW d,
         Taken(c, i, r, d), r.oper = ~ c[i].oper
  PROVE  OpersAre(d, IF c[i].oper THEN Keep(o, Elements(o) \ {i}) ELSE PushFront(i, o))
<1>1. o \in Seq(Ids) /\ NoTwice(o) /\ Elements(o) = {j \in DOMAIN c : c[j].oper}
  BY DEF OpersAre
<1>2. i \in Ids
  BY TableFacts
<1>3. CASE c[i].oper
  <2> DEFINE p == Keep(o, Elements(o) \ {i})
  <2>1. /\ p \in Seq(Ids) /\ NoTwice(p)
        /\ Elements(p) = Elements(o) \cap (Elements(o) \ {i})
    BY <1>1, KeepKeeps
  <2> HIDE DEF p
  <2>2. {j \in DOMAIN d : d[j].oper} = Elements(o) \ {i}
    BY <1>1, <1>3 DEF Taken, SameFace
  <2>3. OpersAre(d, p)
    BY <2>1, <2>2 DEF OpersAre
  <2> QED BY <1>3, <2>3 DEF p
<1>4. CASE ~ c[i].oper
  <2> DEFINE p == PushFront(i, o)
  <2>1. i \notin Elements(o)
    BY <1>1, <1>4
  <2>2. p \in Seq(Ids) /\ NoTwice(p) /\ Elements(p) = Elements(o) \cup {i}
    BY <1>1, <1>2, <2>1, PushFrontKeeps
  <2> HIDE DEF p
  <2>3. {j \in DOMAIN d : d[j].oper} = Elements(o) \cup {i}
    BY <1>1, <1>4 DEF Taken, SameFace
  <2>4. OpersAre(d, p)
    BY <2>2, <2>3 DEF OpersAre
  <2> QED BY <1>4, <2>4 DEF p
<1> QED BY <1>3, <1>4

-----------------------------------------------------------------------------
(* The pointers after siclient_hash_add.                                   *)
LEMMA PushedPointers ==
  ASSUME NEW h \in Hashes, NEW i \in Ids \ DOMAIN h.cli, NEW r \in Client
  PROVE  /\ Pushed(h, i, r).cli[i].hnext = h.head
         /\ Pushed(h, i, r).cli[i].hprev = NULL
         /\ \A j \in DOMAIN h.cli :
              /\ Pushed(h, i, r).cli[j].hnext = h.cli[j].hnext
              /\ Pushed(h, i, r).cli[j].hprev = IF j = h.head THEN i ELSE h.cli[j].hprev
<1> DEFINE c == [j \in DOMAIN h.cli \cup {i} |->
                   IF j = i THEN [r EXCEPT !.hnext = h.head, !.hprev = NULL]
                   ELSE IF j = h.head THEN [h.cli[j] EXCEPT !.hprev = i]
                   ELSE h.cli[j]]
<1>1. h.cli \in Tables /\ \A j \in DOMAIN h.cli : h.cli[j] \in Client
  BY TableFacts DEF Hashes
<1>2. Pushed(h, i, r).cli = c
  BY DEF Pushed, Hashes
<1>3. c[i].hnext = h.head /\ c[i].hprev = NULL
  BY DEF Client
<1>4. ASSUME NEW j \in DOMAIN h.cli
      PROVE  /\ c[j].hnext = h.cli[j].hnext
             /\ c[j].hprev = IF j = h.head THEN i ELSE h.cli[j].hprev
  BY <1>1 DEF Client
<1> HIDE DEF c
<1> QED BY <1>2, <1>3, <1>4

(* What a list that is linked gives of its elements.                       *)
LEMMA LinkedFacts ==
  ASSUME NEW h, NEW q, Linked(h, q)
  PROVE  /\ Len(q) \in Nat /\ q \in [1 .. Len(q) -> Ids]
         /\ \A k \in 1 .. Len(q) : q[k] \in Ids /\ q[k] \in DOMAIN h.cli
         /\ \A k, l \in 1 .. Len(q) : q[k] = q[l] => k = l
<1>1. q \in Seq(Ids)
  BY DEF Linked
<1>2. Len(q) \in Nat /\ q \in [1 .. Len(q) -> Ids]
  BY <1>1, LenProperties
<1> QED BY <1>2 DEF Linked, Elements, NoTwice

(* A structure that is added is linked in front of the others.             *)
LEMMA LinkedPush ==
  ASSUME NEW h \in Hashes, NEW q, Linked(h, q), NEW i \in Ids \ DOMAIN h.cli,
         NEW r \in Client, NULL \notin Ids
  PROVE  Linked(Pushed(h, i, r), PushFront(i, q))
<1> DEFINE p == PushFront(i, q)
           n == Len(q)
           t == Pushed(h, i, r)
           c == t.cli
<1>1. /\ n \in Nat /\ \A k \in 1 .. n : q[k] \in Ids /\ q[k] \in DOMAIN h.cli
      /\ \A k, l \in 1 .. n : q[k] = q[l] => k = l
  BY LinkedFacts
<1>2. t.head = i /\ DOMAIN c = DOMAIN h.cli \cup {i}
  BY PushedFaces DEF Taken
<1>3. /\ c[i].hnext = h.head /\ c[i].hprev = NULL
      /\ \A j \in DOMAIN h.cli :
           /\ c[j].hnext = h.cli[j].hnext
           /\ c[j].hprev = IF j = h.head THEN i ELSE h.cli[j].hprev
  BY PushedPointers
<1>4. /\ q \in Seq(Ids) /\ NoTwice(q) /\ Elements(q) \subseteq DOMAIN h.cli
      /\ h.head = IF n = 0 THEN NULL ELSE q[1]
      /\ \A k \in 1 .. n : /\ h.cli[q[k]].hnext = IF k = n THEN NULL ELSE q[k + 1]
                           /\ h.cli[q[k]].hprev = IF k = 1 THEN NULL ELSE q[k - 1]
  BY DEF Linked
<1>5. /\ p \in Seq(Ids) /\ Len(p) = n + 1 /\ NoTwice(p)
      /\ Elements(p) = Elements(q) \cup {i}
  BY <1>4, PushFrontKeeps
<1>6. p[1] = i /\ \A k \in 2 .. n + 1 : k - 1 \in 1 .. n /\ p[k] = q[k - 1]
  BY <1>1 DEF PushFront
<1> HIDE DEF p, n, t
<1>7. Elements(p) \subseteq DOMAIN c
  BY <1>2, <1>4, <1>5
<1>8. t.head = IF Len(p) = 0 THEN NULL ELSE p[1]
  BY <1>1, <1>2, <1>5, <1>6
<1>9. /\ c[p[1]].hnext = IF 1 = n + 1 THEN NULL ELSE p[1 + 1]
      /\ c[p[1]].hprev = NULL
  <2>1. CASE n = 0
    BY <1>3, <1>4, <1>6, <2>1
  <2>2. CASE n # 0
    <3>1. 2 \in 2 .. n + 1 /\ 2 - 1 = 1 /\ 1 # n + 1
      BY <1>1, <2>2
    <3>2. p[2] = q[1]
      BY <1>6, <3>1
    <3> QED BY <1>3, <1>4, <1>6, <2>2, <3>1, <3>2
  <2> QED BY <2>1, <2>2
<1>10. ASSUME NEW k \in 2 .. n + 1
       PROVE  /\ c[p[k]].hnext = IF k = n + 1 THEN NULL ELSE p[k + 1]
              /\ c[p[k]].hprev = p[k - 1]
  <2> DEFINE j == q[k - 1]
  <2>1. k - 1 \in 1 .. n /\ p[k] = j /\ j \in DOMAIN h.cli
    BY <1>1, <1>6
  <2>2. h.cli[j].hnext = IF k - 1 = n THEN NULL ELSE q[(k - 1) + 1]
    BY <1>4, <2>1
  <2>3. h.cli[j].hprev = IF k - 1 = 1 THEN NULL ELSE q[(k - 1) - 1]
    BY <1>4, <2>1
  <2>4. k \in Int /\ (k - 1) + 1 = k /\ (k - 1 = n <=> k = n + 1) /\ (k - 1 = 1 <=> k = 2)
    BY <1>1
  <2>5. k # n + 1 => p[k + 1] = q[k]
    <3>1. SUFFICES ASSUME k # n + 1 PROVE p[k + 1] = q[k]
      OBVIOUS
    <3>2. k + 1 \in 2 .. n + 1 /\ (k + 1) - 1 = k
      BY <1>1, <3>1
    <3> QED BY <1>6, <3>2
  <2>6. c[j].hnext = IF k = n + 1 THEN NULL ELSE p[k + 1]
    BY <1>3, <2>1, <2>2, <2>4, <2>5
  <2>7. j = h.head <=> k = 2
    <3>1. n # 0 /\ 1 \in 1 .. n
      BY <1>1
    <3>2. h.head = q[1]
      BY <1>4, <3>1
    <3>3. j = q[1] <=> k - 1 = 1
      BY <1>1, <2>1, <3>1
    <3> QED BY <2>4, <3>2, <3>3
  <2>8. CASE k = 2
    <3>1. k - 1 = 1
      BY <2>8
    <3> QED BY <1>3, <1>6, <2>1, <2>6, <2>7, <2>8, <3>1
  <2>9. CASE k # 2
    <3>1. k - 1 \in 2 .. n + 1
      BY <1>1, <2>9
    <3>2. p[k - 1] = q[(k - 1) - 1]
      BY <1>6, <3>1
    <3> QED BY <1>3, <2>1, <2>3, <2>4, <2>6, <2>7, <2>9, <3>2
  <2> QED BY <2>8, <2>9
<1>11. ASSUME NEW k \in 1 .. Len(p)
       PROVE  /\ c[p[k]].hnext = IF k = Len(p) THEN NULL ELSE p[k + 1]
              /\ c[p[k]].hprev = IF k = 1 THEN NULL ELSE p[k - 1]
  <2>1. k = 1 \/ (k # 1 /\ k \in 2 .. n + 1)
    BY <1>1, <1>5
  <2>2. CASE k = 1
    BY <1>5, <1>9, <2>2
  <2>3. CASE k # 1 /\ k \in 2 .. n + 1
    BY <1>5, <1>10, <2>3
  <2> QED BY <2>1, <2>2, <2>3
<1> QED BY <1>5, <1>7, <1>8, <1>11 DEF Linked, p, t

(* The pointers after siclient_hash_del.                                   *)
LEMMA UnlinkedPointers ==
  ASSUME NEW h \in Hashes, NEW i \in DOMAIN h.cli, NEW p, NEW n,
         p = h.cli[i].hprev, n = h.cli[i].hnext
  PROVE  /\ Unlinked(h, i).head = IF p = NULL THEN n ELSE h.head
         /\ Unlinked(h, i).wild = (h.wild \/ ~ {p, n} \subseteq DOMAIN h.cli \cup {NULL})
         /\ \A j \in DOMAIN h.cli :
              /\ Unlinked(h, i).cli[j].hnext = IF j = p THEN n ELSE h.cli[j].hnext
              /\ Unlinked(h, i).cli[j].hprev = IF j = n THEN p ELSE h.cli[j].hprev
<1> DEFINE c == [j \in DOMAIN h.cli |->
                   [h.cli[j] EXCEPT !.hnext = IF j = p THEN n ELSE @,
                                    !.hprev = IF j = n THEN p ELSE @]]
<1>1. \A j \in DOMAIN h.cli : h.cli[j] \in Client
  BY TableFacts DEF Hashes
<1>2. Unlinked(h, i) = [head |-> IF p = NULL THEN n ELSE h.head, cli |-> c,
                        wild |-> h.wild \/ ~ {p, n} \subseteq DOMAIN h.cli \cup {NULL}]
  BY DEF Unlinked
<1>3. ASSUME NEW j \in DOMAIN h.cli
      PROVE  /\ c[j].hnext = IF j = p THEN n ELSE h.cli[j].hnext
             /\ c[j].hprev = IF j = n THEN p ELSE h.cli[j].hprev
  BY <1>1 DEF Client
<1> HIDE DEF c
<1> QED BY <1>2, <1>3

(* The structure that goes is out of the list, and the others are linked   *)
(* as they were.                                                           *)
LEMMA LinkedUnlink ==
  ASSUME NEW h \in Hashes, NEW q, Linked(h, q), NEW i \in 1 .. Len(q), NULL \notin Ids
  PROVE  /\ Linked(Unlinked(h, q[i]), Unlink(q, i))
         /\ Unlinked(h, q[i]).wild = h.wild
<1> DEFINE u == Unlink(q, i)
           m == Len(q)
           p == h.cli[q[i]].hprev
           n == h.cli[q[i]].hnext
           t == Unlinked(h, q[i])
<1>1. /\ m \in Nat /\ \A k \in 1 .. m : q[k] \in Ids /\ q[k] \in DOMAIN h.cli
      /\ \A k, l \in 1 .. m : q[k] = q[l] => k = l
  BY LinkedFacts
<1>2. /\ q \in Seq(Ids) /\ NoTwice(q) /\ Elements(q) \subseteq DOMAIN h.cli
      /\ h.head = IF m = 0 THEN NULL ELSE q[1]
      /\ \A k \in 1 .. m : /\ h.cli[q[k]].hnext = IF k = m THEN NULL ELSE q[k + 1]
                           /\ h.cli[q[k]].hprev = IF k = 1 THEN NULL ELSE q[k - 1]
  BY DEF Linked
<1>3. p = (IF i = 1 THEN NULL ELSE q[i - 1]) /\ n = IF i = m THEN NULL ELSE q[i + 1]
  BY <1>2
<1>4. /\ u \in Seq(Ids) /\ Len(u) = m - 1 /\ NoTwice(u)
      /\ Elements(u) = Elements(q) \ {q[i]}
  BY <1>2, UnlinkKeeps
<1>5. \A k \in 1 .. m - 1 : u[k] = IF k < i THEN q[k] ELSE q[k + 1]
  BY <1>1 DEF Unlink
<1>6. DOMAIN t.cli = DOMAIN h.cli
  BY <1>1, UnlinkedFaces DEF Left
<1>7. /\ t.head = IF p = NULL THEN n ELSE h.head
      /\ t.wild = (h.wild \/ ~ {p, n} \subseteq DOMAIN h.cli \cup {NULL})
      /\ \A j \in DOMAIN h.cli :
           /\ t.cli[j].hnext = IF j = p THEN n ELSE h.cli[j].hnext
           /\ t.cli[j].hprev = IF j = n THEN p ELSE h.cli[j].hprev
  BY <1>1, UnlinkedPointers
<1> HIDE DEF u, t, p, n, m
<1>8. i \in 1 .. m
  BY DEF m
<1>9. p \in DOMAIN h.cli \cup {NULL} /\ n \in DOMAIN h.cli \cup {NULL}
  <2>1. i # 1 => i - 1 \in 1 .. m
    BY <1>1, <1>8
  <2>2. i # m => i + 1 \in 1 .. m
    BY <1>1, <1>8
  <2> QED BY <1>1, <1>3, <2>1, <2>2
<1>10. t.wild = h.wild
  BY <1>7, <1>9 DEF Hashes
<1>11. \A k \in 1 .. m : /\ q[k] = p <=> k = i - 1
                         /\ q[k] = n <=> k = i + 1
  <2>1. SUFFICES ASSUME NEW k \in 1 .. m
                 PROVE  (q[k] = p <=> k = i - 1) /\ (q[k] = n <=> k = i + 1)
    OBVIOUS
  <2>2. q[k] # NULL
    BY <1>1
  <2>3. q[k] = p <=> k = i - 1
    <3>1. CASE i = 1
      BY <1>1, <1>3, <2>2, <3>1
    <3>2. CASE i # 1
      <4>1. i - 1 \in 1 .. m
        BY <1>1, <1>8, <3>2
      <4> QED BY <1>1, <1>3, <3>2, <4>1
    <3> QED BY <3>1, <3>2
  <2>4. q[k] = n <=> k = i + 1
    <3>1. CASE i = m
      BY <1>1, <1>3, <2>2, <3>1
    <3>2. CASE i # m
      <4>1. i + 1 \in 1 .. m
        BY <1>1, <1>8, <3>2
      <4> QED BY <1>1, <1>3, <3>2, <4>1
    <3> QED BY <3>1, <3>2
  <2> QED BY <2>3, <2>4
<1>12. \A j \in 1 .. m :
         /\ t.cli[q[j]].hnext = IF j = i - 1 THEN n ELSE IF j = m THEN NULL ELSE q[j + 1]
         /\ t.cli[q[j]].hprev = IF j = i + 1 THEN p ELSE IF j = 1 THEN NULL ELSE q[j - 1]
  BY <1>1, <1>2, <1>7, <1>11
<1>13. t.head = IF Len(u) = 0 THEN NULL ELSE u[1]
  <2>1. p = NULL <=> i = 1
    <3>1. i # 1 => i - 1 \in 1 .. m
      BY <1>1, <1>8
    <3> QED BY <1>1, <1>3, <3>1
  <2>2. CASE i = 1 /\ m = 1
    BY <1>3, <1>4, <1>7, <2>1, <2>2
  <2>3. CASE i = 1 /\ m # 1
    <3>1. 1 \in 1 .. m - 1 /\ m - 1 # 0 /\ 1 + 1 = i + 1 /\ ~ (1 < i)
      BY <1>1, <1>8, <2>3
    <3>2. u[1] = q[i + 1]
      BY <1>5, <3>1
    <3> QED BY <1>3, <1>4, <1>7, <2>1, <2>3, <3>1, <3>2
  <2>4. CASE i # 1
    <3>1. 1 \in 1 .. m - 1 /\ m - 1 # 0 /\ m # 0 /\ 1 < i
      BY <1>1, <1>8, <2>4
    <3>2. u[1] = q[1]
      BY <1>5, <3>1
    <3> QED BY <1>2, <1>4, <1>7, <2>1, <2>4, <3>1, <3>2
  <2> QED BY <2>2, <2>3, <2>4
<1>14. ASSUME NEW k \in 1 .. m - 1
       PROVE  /\ t.cli[u[k]].hnext = IF k = m - 1 THEN NULL ELSE u[k + 1]
              /\ t.cli[u[k]].hprev = IF k = 1 THEN NULL ELSE u[k - 1]
  <2>1. k \in Int /\ 1 <= k /\ k <= m - 1 /\ m \in Int /\ i \in Int /\ 1 <= i /\ i <= m
    BY <1>1, <1>8
  <2>2. k # m - 1 => u[k + 1] = IF k + 1 < i THEN q[k + 1] ELSE q[(k + 1) + 1]
    <3>1. k # m - 1 => k + 1 \in 1 .. m - 1
      BY <2>1
    <3> QED BY <1>5, <3>1
  <2>3. k # 1 => u[k - 1] = IF k - 1 < i THEN q[k - 1] ELSE q[(k - 1) + 1]
    <3>1. k # 1 => k - 1 \in 1 .. m - 1
      BY <2>1
    <3> QED BY <1>5, <3>1
  <2>4. CASE k < i
    <3>1. u[k] = q[k] /\ k \in 1 .. m
      BY <1>5, <2>1, <2>4
    <3>2. /\ t.cli[q[k]].hnext = IF k = i - 1 THEN n ELSE IF k = m THEN NULL ELSE q[k + 1]
          /\ t.cli[q[k]].hprev = IF k = i + 1 THEN p ELSE IF k = 1 THEN NULL ELSE q[k - 1]
      BY <1>12, <3>1
    <3>3. k # m /\ k # i + 1 /\ (k # 1 => k - 1 < i)
      BY <2>1, <2>4
    <3>4. t.cli[q[k]].hprev = IF k = 1 THEN NULL ELSE u[k - 1]
      BY <2>3, <3>2, <3>3
    <3>5. CASE k = i - 1
      <4>1. (k = m - 1 <=> i = m) /\ ~ (k + 1 < i) /\ (k + 1) + 1 = i + 1
        BY <2>1, <3>5
      <4> QED BY <1>3, <2>2, <3>1, <3>2, <3>4, <3>5, <4>1
    <3>6. CASE k # i - 1
      <4>1. k # m - 1 /\ k + 1 < i
        BY <2>1, <2>4, <3>6
      <4> QED BY <2>2, <3>1, <3>2, <3>3, <3>4, <3>6, <4>1
    <3> QED BY <3>5, <3>6
  <2>5. CASE ~ (k < i)
    <3>1. u[k] = q[k + 1] /\ k + 1 \in 1 .. m
      BY <1>5, <2>1, <2>5
    <3>2. /\ t.cli[q[k + 1]].hnext = IF k + 1 = i - 1 THEN n
                                     ELSE IF k + 1 = m THEN NULL ELSE q[(k + 1) + 1]
          /\ t.cli[q[k + 1]].hprev = IF k + 1 = i + 1 THEN p
                                     ELSE IF k + 1 = 1 THEN NULL ELSE q[(k + 1) - 1]
      BY <1>12, <3>1
    <3>3. k + 1 # i - 1 /\ ~ (k + 1 < i) /\ (k + 1 = m <=> k = m - 1) /\ k + 1 # 1
      BY <2>1, <2>5
    <3>4. t.cli[q[k + 1]].hnext = IF k = m - 1 THEN NULL ELSE u[k + 1]
      BY <2>2, <3>2, <3>3
    <3>5. CASE k = i
      <4>1. k + 1 = i + 1 /\ k - 1 < i /\ k - 1 = i - 1
        BY <2>1, <3>5
      <4> QED BY <1>3, <2>3, <3>1, <3>2, <3>4, <3>5, <4>1
    <3>6. CASE k # i
      <4>1. k # 1 /\ ~ (k - 1 < i) /\ k + 1 # i + 1 /\ (k - 1) + 1 = (k + 1) - 1
        BY <2>1, <2>5, <3>6
      <4> QED BY <2>3, <3>1, <3>2, <3>3, <3>4, <4>1
    <3> QED BY <3>5, <3>6
  <2> QED BY <2>4, <2>5
<1>15. Linked(t, u)
  <2>1. Elements(u) \subseteq DOMAIN t.cli
    BY <1>2, <1>4, <1>6
  <2> QED BY <1>4, <1>13, <1>14, <2>1 DEF Linked
<1> QED BY <1>10, <1>15 DEF t, u

-----------------------------------------------------------------------------
(* Those of the list r are in the list q, in the same order.               *)
SubOrder(r, q) ==
  \A k, l \in 1 .. Len(r) : k < l =>
    \E m, n \in 1 .. Len(q) : m < n /\ q[m] = r[k] /\ q[n] = r[l]

(* Those who stay keep their order.                                        *)
LEMMA UnlinkSubOrder ==
  ASSUME NEW q \in Seq(Ids), NEW i \in 1 .. Len(q), NoTwice(q)
  PROVE  SubOrder(Unlink(q, i), q)
<1> DEFINE from(k) == IF k < i THEN k ELSE k + 1
           r == Unlink(q, i)
<1>1. Len(q) \in Nat /\ Len(r) = Len(q) - 1
  BY UnlinkKeeps
<1>2. \A k \in 1 .. Len(q) - 1 : from(k) \in 1 .. Len(q) /\ q[from(k)] = r[k]
  BY <1>1 DEF Unlink
<1>3. \A k, l \in 1 .. Len(q) - 1 : k < l => from(k) < from(l)
  BY <1>1
<1> HIDE DEF from, r
<1>4. SubOrder(r, q)
  BY <1>1, <1>2, <1>3 DEF SubOrder
<1> QED BY <1>4 DEF r

(* Order that is kept twice is kept.                                       *)
LEMMA SubOrderTwice ==
  ASSUME NEW p, NEW q, NEW r, SubOrder(p, q), SubOrder(q, r)
  PROVE  SubOrder(p, r)
<1> SUFFICES ASSUME NEW k \in 1 .. Len(p), NEW l \in 1 .. Len(p), k < l
             PROVE  \E m, n \in 1 .. Len(r) : m < n /\ r[m] = p[k] /\ r[n] = p[l]
  BY DEF SubOrder
<1>1. PICK x, y \in 1 .. Len(q) : x < y /\ q[x] = p[k] /\ q[y] = p[l]
  BY DEF SubOrder
<1>2. PICK m, n \in 1 .. Len(r) : m < n /\ r[m] = q[x] /\ r[n] = q[y]
  BY <1>1 DEF SubOrder
<1> QED BY <1>1, <1>2

(* What is freed is taken out of the list, and nothing else is.            *)
LEMMA LinkedFreed ==
  ASSUME NEW h \in Hashes, NEW q, Linked(h, q), NEW S \in SUBSET Elements(q),
         NULL \notin Ids, IsFiniteSet(Ids)
  PROVE  /\ FreedFrom(h, S).wild = h.wild
         /\ \E r \in Seq(Ids) :
              /\ Linked(FreedFrom(h, S), r)
              /\ Elements(r) = Elements(q) \ S /\ SubOrder(r, q)
<1> DEFINE A == {a \in (SUBSET S) \X Hashes :
                   /\ Left(h.cli, {}, a[2].cli) /\ a[2].wild = h.wild
                   /\ \E r \in Seq(Ids) : /\ Linked(a[2], r)
                                          /\ Elements(r) = Elements(q) \ a[1]
                                          /\ SubOrder(r, q)}
<1>1. h.cli \in Tables /\ DOMAIN h.cli \subseteq Ids /\ S \subseteq DOMAIN h.cli
      /\ q \in Seq(Ids) /\ NoTwice(q)
  BY TableFacts DEF Hashes, Linked
<1>2. IsFiniteSet(S)
  BY <1>1, FS_Subset
<1>3. PICK g : /\ Unlinks(h, SUBSET S, g)
               /\ FreedFrom(h, S) = [g[S] EXCEPT !.cli = Restrict(@, DOMAIN h.cli \ S)]
  BY <1>2, FreedFromIs
<1>4. <<{}, h>> \in A
  <2>1. Left(h.cli, {}, h.cli)
    BY DEF Left, SameFace
  <2>2. SubOrder(q, q)
    BY DEF SubOrder
  <2>3. Elements(q) = Elements(q) \ {}
    OBVIOUS
  <2> QED BY <1>1, <2>1, <2>2, <2>3
<1>5. ASSUME NEW T \in SUBSET S, NEW x \in S \ T, NEW k, <<T, k>> \in A
      PROVE  <<T \cup {x}, Unlinked(k, x)>> \in A
  <2>1. k \in Hashes /\ Left(h.cli, {}, k.cli) /\ k.wild = h.wild
    BY <1>5
  <2>2. PICK r \in Seq(Ids) : /\ Linked(k, r) /\ Elements(r) = Elements(q) \ T
                              /\ SubOrder(r, q)
    BY <1>5
  <2>3. x \in DOMAIN k.cli
    BY <1>1, <2>1 DEF Left
  <2>4. Unlinked(k, x) \in Hashes /\ Left(k.cli, {}, Unlinked(k, x).cli)
    BY <2>1, <2>3, UnlinkedFaces
  <2>5. Left(h.cli, {}, Unlinked(k, x).cli)
    BY <2>1, <2>4 DEF Left, SameFace
  <2>6. PICK i \in 1 .. Len(r) : r[i] = x
    <3>1. x \in Elements(r)
      BY <2>2
    <3> QED BY <3>1 DEF Elements
  <2>7. Linked(Unlinked(k, x), Unlink(r, i)) /\ Unlinked(k, x).wild = h.wild
    BY <2>1, <2>2, <2>6, LinkedUnlink
  <2>8. NoTwice(r)
    BY <2>2 DEF Linked
  <2>9. Unlink(r, i) \in Seq(Ids) /\ Elements(Unlink(r, i)) = Elements(r) \ {x}
    BY <2>2, <2>6, <2>8, UnlinkKeeps
  <2>10. SubOrder(Unlink(r, i), q)
    BY <2>2, <2>6, <2>8, UnlinkSubOrder, SubOrderTwice
  <2>11. Elements(Unlink(r, i)) = Elements(q) \ (T \cup {x})
    BY <2>2, <2>9
  <2>12. T \cup {x} \in SUBSET S
    OBVIOUS
  <2> QED BY <2>4, <2>5, <2>7, <2>9, <2>10, <2>11, <2>12
<1>6. <<S, g[S]>> \in A
  <2> HIDE DEF A
  <2> QED BY <1>2, <1>3, <1>4, <1>5, UnlinksAll
<1> DEFINE out == g[S]
           c == Restrict(out.cli, DOMAIN h.cli \ S)
<1>7. out \in Hashes /\ Left(h.cli, {}, out.cli) /\ out.wild = h.wild
  BY <1>6
<1>8. PICK r \in Seq(Ids) : Linked(out, r) /\ Elements(r) = Elements(q) \ S /\ SubOrder(r, q)
  BY <1>6
<1> HIDE DEF out
<1>9. DOMAIN c = DOMAIN h.cli \ S /\ \A j \in DOMAIN h.cli \ S : c[j] = out.cli[j]
  BY DEF Restrict
<1> HIDE DEF c
<1>10. [out EXCEPT !.cli = c].cli = c /\ [out EXCEPT !.cli = c].head = out.head
       /\ [out EXCEPT !.cli = c].wild = out.wild
  BY <1>7 DEF Hashes
<1>11. Elements(r) \subseteq DOMAIN c
  <2>1. Elements(q) \subseteq DOMAIN h.cli
    BY DEF Linked
  <2> QED BY <1>8, <1>9, <2>1
<1>12. \A k \in 1 .. Len(r) : c[r[k]] = out.cli[r[k]]
  BY <1>9, <1>11 DEF Elements
<1>13. Linked([out EXCEPT !.cli = c], r)
  <2> DEFINE t == [out EXCEPT !.cli = c]
  <2>1. t.cli = c /\ t.head = out.head
    BY <1>10
  <2> HIDE DEF t
  <2>2. /\ NoTwice(r) /\ out.head = IF Len(r) = 0 THEN NULL ELSE r[1]
        /\ \A k \in 1 .. Len(r) :
             /\ out.cli[r[k]].hnext = IF k = Len(r) THEN NULL ELSE r[k + 1]
             /\ out.cli[r[k]].hprev = IF k = 1 THEN NULL ELSE r[k - 1]
    BY <1>8 DEF Linked
  <2>3. Linked(t, r)
    BY <1>11, <1>12, <2>1, <2>2 DEF Linked
  <2> QED BY <2>3 DEF t
<1>14. FreedFrom(h, S) = [out EXCEPT !.cli = c]
  BY <1>3 DEF out, c
<1> QED BY <1>7, <1>8, <1>10, <1>13, <1>14

-----------------------------------------------------------------------------
(* a is the walk along c_h_next of n steps.                                *)
Walks(s, n, a) ==
  a = [k \in 0 .. n |->
         IF k = 0 THEN s.head
         ELSE IF a[k - 1] \in DOMAIN s.cli THEN s.cli[a[k - 1]].hnext ELSE NULL]

(* The walk that Bucket chooses exists.                                    *)
LEMMA WalksExist ==
  ASSUME NEW s, NEW m \in Nat
  PROVE  \E a : Walks(s, m, a)
<1> DEFINE N == {n \in Nat : \E a : Walks(s, n, a)}
           after(i) == IF i \in DOMAIN s.cli THEN s.cli[i].hnext ELSE NULL
<1>1. 0 \in N
  <2> DEFINE a == [k \in 0 .. 0 |-> s.head]
  <2>1. Walks(s, 0, a)
    <3>1. \A k \in 0 .. 0 : k = 0
      OBVIOUS
    <3> QED BY <3>1 DEF Walks
  <2> HIDE DEF a
  <2> QED BY <2>1
<1>2. ASSUME NEW n \in Nat, n \in N PROVE n + 1 \in N
  <2>1. PICK a : Walks(s, n, a)
    BY <1>2
  <2>2. \A k \in 0 .. n : a[k] = IF k = 0 THEN s.head ELSE after(a[k - 1])
    BY <2>1 DEF Walks
  <2> DEFINE b == [k \in 0 .. n + 1 |-> IF k = n + 1 THEN after(a[n]) ELSE a[k]]
  <2>3. \A k \in 0 .. n : b[k] = a[k]
    OBVIOUS
  <2>4. b[n + 1] = after(a[n])
    OBVIOUS
  <2>5. b = [k \in 0 .. n + 1 |-> b[k]]
    OBVIOUS
  <2> HIDE DEF b, after
  <2>6. \A k \in 0 .. n + 1 : b[k] = IF k = 0 THEN s.head ELSE after(b[k - 1])
    <3>1. SUFFICES ASSUME NEW k \in 0 .. n + 1
                   PROVE  b[k] = IF k = 0 THEN s.head ELSE after(b[k - 1])
      OBVIOUS
    <3>2. CASE k = n + 1
      <4>1. k # 0 /\ k - 1 = n /\ n \in 0 .. n
        BY <3>2
      <4> QED BY <2>3, <2>4, <3>2, <4>1
    <3>3. CASE k # n + 1
      <4>1. k \in 0 .. n /\ (k # 0 => k - 1 \in 0 .. n)
        BY <3>3
      <4> QED BY <2>2, <2>3, <4>1
    <3> QED BY <3>2, <3>3
  <2>7. b = [k \in 0 .. n + 1 |-> IF k = 0 THEN s.head ELSE after(b[k - 1])]
    BY <2>5, <2>6
  <2>8. Walks(s, n + 1, b)
    BY <2>7 DEF Walks, after
  <2> QED BY <2>8
<1>3. Nat \subseteq N
  <2> HIDE DEF N
  <2> QED BY <1>1, <1>2, Induction
<1> QED BY <1>3

Met(a, n) == {k \in 0 .. n : a[k] # NULL}

(* The bucket is a walk, as far as there is somebody.                      *)
LEMMA BucketIs ==
  ASSUME NEW s, IsFiniteSet(Ids)
  PROVE  \E a : /\ Walks(s, Cardinality(Ids), a)
                /\ Bucket(s) = [k \in 1 .. Cardinality(Met(a, Cardinality(Ids))) |-> a[k - 1]]
<1> DEFINE a == CHOOSE b : Walks(s, Cardinality(Ids), b)
<1>1. Walks(s, Cardinality(Ids), a)
  BY FS_CardinalityType, WalksExist
<1>2. Bucket(s) = [k \in 1 .. Cardinality(Met(a, Cardinality(Ids))) |-> a[k - 1]]
  BY DEF Bucket, Met, Walks
<1> QED BY <1>1, <1>2

(* Two walks along the same pointers are the same.                         *)
LEMMA WalksSame ==
  ASSUME NEW s, NEW t, NEW n \in Nat, NEW a, Walks(s, n, a), NEW b, Walks(t, n, b),
         s.head = t.head, DOMAIN s.cli = DOMAIN t.cli,
         \A i \in DOMAIN s.cli : s.cli[i].hnext = t.cli[i].hnext
  PROVE  a = b
<1> DEFINE N == {k \in Nat : k <= n => a[k] = b[k]}
<1>1. /\ \A k \in 0 .. n : a[k] = IF k = 0 THEN s.head
                                  ELSE IF a[k - 1] \in DOMAIN s.cli
                                       THEN s.cli[a[k - 1]].hnext ELSE NULL
      /\ \A k \in 0 .. n : b[k] = IF k = 0 THEN t.head
                                  ELSE IF b[k - 1] \in DOMAIN t.cli
                                       THEN t.cli[b[k - 1]].hnext ELSE NULL
  BY DEF Walks
<1>2. a = [k \in 0 .. n |-> a[k]] /\ b = [k \in 0 .. n |-> b[k]]
  BY DEF Walks
<1>3. 0 \in N
  BY <1>1
<1>4. ASSUME NEW k \in Nat, k \in N PROVE k + 1 \in N
  <2>1. SUFFICES ASSUME k + 1 <= n PROVE a[k + 1] = b[k + 1]
    OBVIOUS
  <2>2. k + 1 \in 0 .. n /\ k + 1 # 0 /\ (k + 1) - 1 = k /\ a[k] = b[k]
    BY <1>4, <2>1
  <2> QED BY <1>1, <2>2
<1>5. Nat \subseteq N
  <2> HIDE DEF N
  <2> QED BY <1>3, <1>4, Induction
<1>6. \A k \in 0 .. n : a[k] = b[k]
  BY <1>5
<1> QED BY <1>6, <1>2

(* The same pointers make the same bucket.                                 *)
LEMMA BucketSame ==
  ASSUME NEW s, NEW t, IsFiniteSet(Ids),
         s.head = t.head, DOMAIN s.cli = DOMAIN t.cli,
         \A i \in DOMAIN s.cli : s.cli[i].hnext = t.cli[i].hnext
  PROVE  Bucket(s) = Bucket(t)
<1>1. PICK a : /\ Walks(s, Cardinality(Ids), a)
               /\ Bucket(s) = [k \in 1 .. Cardinality(Met(a, Cardinality(Ids))) |-> a[k - 1]]
  BY BucketIs
<1>2. PICK b : /\ Walks(t, Cardinality(Ids), b)
               /\ Bucket(t) = [k \in 1 .. Cardinality(Met(b, Cardinality(Ids))) |-> b[k - 1]]
  BY BucketIs
<1>3. Cardinality(Ids) \in Nat
  BY FS_CardinalityType
<1>4. a = b
  <2>1. Walks(s, Cardinality(Ids), a) /\ Walks(t, Cardinality(Ids), b)
    BY <1>1, <1>2
  <2> QED BY <1>3, <2>1, WalksSame
<1> QED BY <1>1, <1>2, <1>4

(* The walk is along the list.                                             *)
LEMMA BucketOfLinked ==
  ASSUME NEW h \in Hashes, NEW q, Linked(h, q), IsFiniteSet(Ids), NULL \notin Ids
  PROVE  Bucket(h) = q
<1> DEFINE n == Cardinality(Ids)
           m == Len(q)
<1>1. /\ m \in Nat /\ q \in [1 .. m -> Ids]
      /\ \A k \in 1 .. m : q[k] \in Ids /\ q[k] \in DOMAIN h.cli
      /\ \A k, l \in 1 .. m : q[k] = q[l] => k = l
  BY LinkedFacts
<1>2. n \in Nat
  BY FS_CardinalityType
<1>3. m <= n
  <2>1. q \in Injection(1 .. m, Ids)
    BY <1>1 DEF Injection, IsInjective
  <2>2. Cardinality(1 .. m) = m
    <3>1. m \in Int /\ 1 \in Int
      BY <1>1
    <3> HIDE DEF m
    <3>2. Cardinality(1 .. m) = IF 1 > m THEN 0 ELSE m - 1 + 1
      BY <3>1, FS_Interval
    <3> QED BY <1>1, <3>2
  <2> QED BY <2>1, <2>2, FS_Injection
<1>4. PICK a : /\ Walks(h, n, a)
               /\ Bucket(h) = [k \in 1 .. Cardinality(Met(a, n)) |-> a[k - 1]]
  BY BucketIs
<1>5. \A k \in 0 .. n : a[k] = IF k = 0 THEN h.head
                               ELSE IF a[k - 1] \in DOMAIN h.cli
                                    THEN h.cli[a[k - 1]].hnext ELSE NULL
  BY <1>4 DEF Walks
<1>6. DOMAIN h.cli \subseteq Ids
  BY TableFacts DEF Hashes
<1>7. /\ h.head = IF m = 0 THEN NULL ELSE q[1]
      /\ \A k \in 1 .. m : h.cli[q[k]].hnext = IF k = m THEN NULL ELSE q[k + 1]
  BY DEF Linked
<1> HIDE DEF m, n
<1> DEFINE N == {k \in Nat : k <= n => a[k] = IF k < m THEN q[k + 1] ELSE NULL}
<1>8. 0 \in N
  <2>1. 0 \in 0 .. n /\ (m = 0 <=> ~ (0 < m)) /\ 0 + 1 = 1
    BY <1>1, <1>2
  <2> QED BY <1>5, <1>7, <2>1
<1>9. ASSUME NEW k \in Nat, k \in N PROVE k + 1 \in N
  <2>1. SUFFICES ASSUME k + 1 <= n
                 PROVE  a[k + 1] = IF k + 1 < m THEN q[(k + 1) + 1] ELSE NULL
    OBVIOUS
  <2>2. /\ k + 1 \in 0 .. n /\ k + 1 # 0 /\ (k + 1) - 1 = k
        /\ a[k] = IF k < m THEN q[k + 1] ELSE NULL
    BY <1>2, <1>9, <2>1
  <2>3. CASE k < m
    <3>1. k + 1 \in 1 .. m /\ (k + 1 = m <=> ~ (k + 1 < m))
      BY <1>1, <2>3
    <3>2. h.cli[q[k + 1]].hnext = IF k + 1 = m THEN NULL ELSE q[(k + 1) + 1]
      BY <1>7, <3>1
    <3>3. a[k + 1] = h.cli[q[k + 1]].hnext
      BY <1>1, <1>5, <2>2, <2>3, <3>1
    <3> QED BY <3>1, <3>2, <3>3
  <2>4. CASE ~ (k < m)
    <3>1. ~ (k + 1 < m)
      BY <1>1, <2>4
    <3> QED BY <1>5, <1>6, <2>2, <2>4, <3>1
  <2> QED BY <2>3, <2>4
<1>10. Nat \subseteq N
  <2> HIDE DEF N
  <2> QED BY <1>8, <1>9, Induction
<1>11. \A k \in 0 .. n : a[k] = IF k < m THEN q[k + 1] ELSE NULL
  BY <1>2, <1>10
<1>12. Cardinality(Met(a, n)) = m
  <2>1. Met(a, n) = 0 .. m - 1
    <3>1. \A k \in 0 .. n : k < m => k + 1 \in 1 .. m
      BY <1>1
    <3>2. \A k \in 0 .. n : a[k] # NULL <=> k < m
      BY <1>1, <1>11, <3>1
    <3>3. \A k \in 0 .. m - 1 : k \in 0 .. n /\ k < m
      BY <1>1, <1>2, <1>3
    <3>4. \A k \in 0 .. n : k < m => k \in 0 .. m - 1
      BY <1>1, <1>2
    <3> QED BY <3>2, <3>3, <3>4 DEF Met
  <2>2. Cardinality(0 .. m - 1) = IF 0 > m - 1 THEN 0 ELSE (m - 1) - 0 + 1
    BY <1>1, FS_Interval
  <2> QED BY <1>1, <2>1, <2>2
<1>13. \A k \in 1 .. m : a[k - 1] = q[k]
  <2>1. SUFFICES ASSUME NEW k \in 1 .. m PROVE a[k - 1] = q[k]
    OBVIOUS
  <2>2. k - 1 \in 0 .. n /\ k - 1 < m /\ (k - 1) + 1 = k
    BY <1>1, <1>2, <1>3
  <2> QED BY <1>11, <2>2
<1>14. q = [k \in 1 .. m |-> q[k]]
  BY <1>1
<1> QED BY <1>4, <1>12, <1>13, <1>14

-----------------------------------------------------------------------------
(* The bucket has a length, whatever the pointers are.                     *)
LEMMA BucketLength ==
  ASSUME NEW s, IsFiniteSet(Ids)
  PROVE  Len(Bucket(s)) \in Nat
<1>1. PICK a : Bucket(s) = [k \in 1 .. Cardinality(Met(a, Cardinality(Ids))) |-> a[k - 1]]
  BY BucketIs
<1> DEFINE c == Cardinality(Met(a, Cardinality(Ids)))
           S == {a[k - 1] : k \in 1 .. c}
<1>2. c \in Nat
  <2>1. Cardinality(Ids) \in Nat
    BY FS_CardinalityType
  <2>2. Met(a, Cardinality(Ids)) \in SUBSET (0 .. Cardinality(Ids))
    BY DEF Met
  <2>3. IsFiniteSet(0 .. Cardinality(Ids))
    BY <2>1, FS_Interval
  <2> QED BY <2>2, <2>3, FS_Subset, FS_CardinalityType
<1> HIDE DEF c
<1>3. Bucket(s) \in [1 .. c -> S]
  BY <1>1 DEF c
<1>4. Bucket(s) \in Seq(S)
  BY <1>2, <1>3, SeqDef
<1> QED BY <1>4, LenProperties

(* siclient_find finds one of that name at most, who is in memory.         *)
LEMMA FoundOnes ==
  ASSUME IsFiniteSet(Ids), ~ Broken(Hash), NEW n
  PROVE  /\ Find(n) \in SUBSET DOMAIN cli
         /\ \A i \in Find(n) : cli[i].name = n
         /\ \A i, j \in Find(n) : i = j
<1> DEFINE met == Bucket(Hash)
           hits == {k \in 1 .. Len(met) : cli[met[k]].name = n}
<1>1. Len(met) \in Nat
  BY BucketLength
<1>2. Elements(met) \subseteq DOMAIN cli
  BY DEF Broken, Hash
<1>3. Find(n) = {met[k] : k \in {k \in hits : \A l \in hits : k <= l}}
  BY DEF Find
<1> HIDE DEF met
<1>4. \A k \in 1 .. Len(met) : met[k] \in DOMAIN cli
  BY <1>2 DEF Elements
<1>5. \A i \in Find(n) : i \in DOMAIN cli /\ cli[i].name = n
  BY <1>3, <1>4
<1>6. ASSUME NEW i \in Find(n), NEW j \in Find(n) PROVE i = j
  <2>1. PICK k \in hits : met[k] = i /\ \A m \in hits : k <= m
    BY <1>3
  <2>2. PICK l \in hits : met[l] = j /\ \A m \in hits : l <= m
    BY <1>3
  <2>3. k <= l /\ l <= k /\ k \in Int /\ l \in Int
    BY <1>1, <2>1, <2>2
  <2> QED BY <2>1, <2>2, <2>3
<1> QED BY <1>5, <1>6

(* While the bucket is whole, the one who is found hides nobody but those  *)
(* whose name a module client has taken.                                   *)
LEMMA FoundAll ==
  ASSUME IsFiniteSet(Ids), NULL \notin Ids, Hash \in Hashes, NEW q, Linked(Hash, q),
         Elements(q) = DOMAIN cli, NamesAre(cli, q), NEW n
  PROVE  /\ ~ Broken(Hash)
         /\ Find(n) \in SUBSET DOMAIN cli
         /\ Find(n) = {} => \A i \in DOMAIN cli : cli[i].name # n
         /\ \A i \in Find(n) : ~ cli[i].jupe =>
              \A j \in DOMAIN cli : cli[j].name = n => j = i
<1>1. Bucket(Hash) = q
  BY BucketOfLinked
<1>2. /\ Len(q) \in Nat /\ \A k \in 1 .. Len(q) : q[k] \in DOMAIN cli
  BY LinkedFacts DEF Hash
<1>3. ~ Broken(Hash)
  BY <1>1 DEF Broken, Linked
<1> DEFINE hits == {k \in 1 .. Len(q) : cli[q[k]].name = n}
<1>4. Find(n) = {q[k] : k \in {k \in hits : \A l \in hits : k <= l}}
  BY <1>1 DEF Find
<1>5. \A i \in DOMAIN cli : cli[i].name = n => \E k \in hits : q[k] = i
  BY DEF Elements
<1>6. ASSUME NEW i \in DOMAIN cli, cli[i].name = n PROVE Find(n) # {}
  <2>1. hits # {} /\ hits \subseteq Nat
    BY <1>2, <1>5, <1>6
  <2> HIDE DEF hits
  <2>2. Min(hits) \in hits /\ \A l \in hits : Min(hits) <= l
    BY <2>1, MinIsLeast
  <2> QED BY <1>4, <2>2
<1>7. ASSUME NEW i \in Find(n), ~ cli[i].jupe, NEW j \in DOMAIN cli, cli[j].name = n
      PROVE  j = i
  <2>1. PICK k \in hits : q[k] = i /\ \A l \in hits : k <= l
    BY <1>4
  <2>2. PICK l \in hits : q[l] = j
    BY <1>5, <1>7
  <2>3. k <= l /\ k \in Int /\ l \in Int
    BY <1>2, <2>1, <2>2
  <2>4. k = l \/ k < l
    BY <2>3
  <2>5. ~ cli[j].jupe \/ k = l
    BY <1>7, <2>1, <2>2, <2>4 DEF NamesAre
  <2>6. CASE k = l
    BY <2>1, <2>2, <2>6
  <2>7. CASE ~ cli[j].jupe
    <3>1. cli[i].name = n /\ i \in DOMAIN cli
      BY <1>2, <2>1
    <3> QED BY <1>7, <2>7, <3>1 DEF NamesAre
  <2> QED BY <2>5, <2>6, <2>7
<1>8. Find(n) \in SUBSET DOMAIN cli
  BY <1>2, <1>4
<1> QED BY <1>3, <1>6, <1>7, <1>8

-----------------------------------------------------------------------------
(* The names of those who are left are in the order they were in.          *)
LEMMA NamesLeft ==
  ASSUME NEW c, NEW q, NamesAre(c, q), Elements(q) \subseteq DOMAIN c,
         NEW S, NEW d, Left(c, S, d), NEW r, SubOrder(r, q), Elements(r) \subseteq DOMAIN d
  PROVE  NamesAre(d, r)
<1>1. \A j \in DOMAIN d : j \in DOMAIN c /\ d[j].name = c[j].name /\ d[j].jupe = c[j].jupe
  BY DEF Left, SameFace
<1>2. \A i, j \in DOMAIN d :
        ~ d[i].jupe /\ ~ d[j].jupe /\ d[i].name = d[j].name => i = j
  BY <1>1 DEF NamesAre
<1>3. ASSUME NEW k \in 1 .. Len(r), NEW l \in 1 .. Len(r), k < l,
             d[r[k]].name = d[r[l]].name, d[r[l]].jupe
      PROVE  d[r[k]].jupe
  <2>1. PICK m, n \in 1 .. Len(q) : m < n /\ q[m] = r[k] /\ q[n] = r[l]
    BY <1>3 DEF SubOrder
  <2>2. r[k] \in DOMAIN d /\ r[l] \in DOMAIN d
    BY DEF Elements
  <2>3. c[q[m]].name = c[q[n]].name /\ c[q[n]].jupe
    BY <1>1, <1>3, <2>1, <2>2
  <2>4. c[q[m]].jupe
    BY <2>1, <2>3 DEF NamesAre
  <2> QED BY <1>1, <2>1, <2>2, <2>4
<1> QED BY <1>2, <1>3 DEF NamesAre

(* The bucket has all who are left when some have been freed.              *)
LEMMA WholeFreed ==
  ASSUME NEW h \in Hashes, Whole(h), NEW S \in SUBSET DOMAIN h.cli,
         NULL \notin Ids, IsFiniteSet(Ids)
  PROVE  FreedFrom(h, S).wild = h.wild /\ Whole(FreedFrom(h, S))
<1>1. PICK q \in Seq(Ids) : Linked(h, q) /\ Elements(q) = DOMAIN h.cli /\ NamesAre(h.cli, q)
  BY DEF Whole
<1>2. FreedFrom(h, S).wild = h.wild
  BY <1>1, LinkedFreed
<1>3. PICK r \in Seq(Ids) : /\ Linked(FreedFrom(h, S), r)
                            /\ Elements(r) = Elements(q) \ S /\ SubOrder(r, q)
  BY <1>1, LinkedFreed
<1>4. Left(h.cli, S, FreedFrom(h, S).cli)
  BY FreedFaces
<1>5. Elements(r) = DOMAIN FreedFrom(h, S).cli
  BY <1>1, <1>3, <1>4 DEF Left
<1>6. NamesAre(FreedFrom(h, S).cli, r)
  BY <1>1, <1>3, <1>4, <1>5, NamesLeft
<1> QED BY <1>2, <1>3, <1>5, <1>6 DEF Whole

(* The bucket has somebody new when the name is nobody's, or a module      *)
(* client's.                                                               *)
LEMMA WholePushed ==
  ASSUME NEW h \in Hashes, Whole(h), NEW i \in Ids \ DOMAIN h.cli, NEW r \in Client,
         ~ r.jupe => \A j \in DOMAIN h.cli : h.cli[j].name # r.name,
         NULL \notin Ids
  PROVE  Whole(Pushed(h, i, r))
<1> DEFINE t == Pushed(h, i, r)
           d == t.cli
<1>1. PICK q \in Seq(Ids) : Linked(h, q) /\ Elements(q) = DOMAIN h.cli /\ NamesAre(h.cli, q)
  BY DEF Whole
<1> DEFINE p == PushFront(i, q)
<1>2. Linked(t, p)
  BY <1>1, LinkedPush
<1>3. p \in Seq(Ids) /\ Len(p) = Len(q) + 1 /\ Elements(p) = Elements(q) \cup {i}
  <2>1. NoTwice(q)
    BY <1>1 DEF Linked
  <2> QED BY <1>1, <2>1, PushFrontKeeps
<1>4. Taken(h.cli, i, r, d)
  BY PushedFaces
<1>5. Len(q) \in Nat /\ \A k \in 1 .. Len(q) : q[k] \in DOMAIN h.cli
  BY <1>1, LinkedFacts
<1>6. p[1] = i /\ \A k \in 2 .. Len(q) + 1 : k - 1 \in 1 .. Len(q) /\ p[k] = q[k - 1]
  BY <1>5 DEF PushFront
<1> HIDE DEF p, t
<1>7. /\ DOMAIN d = DOMAIN h.cli \cup {i} /\ d[i].name = r.name /\ d[i].jupe = r.jupe
      /\ \A j \in DOMAIN h.cli :
           j # i /\ d[j].name = h.cli[j].name /\ d[j].jupe = h.cli[j].jupe
  BY <1>4 DEF Taken, SameFace
<1>8. \A j, l \in DOMAIN d :
        ~ d[j].jupe /\ ~ d[l].jupe /\ d[j].name = d[l].name => j = l
  BY <1>1, <1>7 DEF NamesAre
<1>9. ASSUME NEW k \in 1 .. Len(p), NEW l \in 1 .. Len(p), k < l,
             d[p[k]].name = d[p[l]].name, d[p[l]].jupe
      PROVE  d[p[k]].jupe
  <2>1. l \in 2 .. Len(q) + 1
    BY <1>3, <1>5, <1>9
  <2>2. p[l] = q[l - 1] /\ l - 1 \in 1 .. Len(q) /\ p[l] \in DOMAIN h.cli
    BY <1>5, <1>6, <2>1
  <2>3. CASE k = 1
    <3>1. r.jupe
      BY <1>6, <1>7, <1>9, <2>2, <2>3 DEF Client
    <3> QED BY <1>6, <1>7, <2>3, <3>1
  <2>4. CASE k # 1
    <3>1. k \in 2 .. Len(q) + 1 /\ k - 1 < l - 1
      BY <1>3, <1>5, <1>9, <2>4
    <3>2. p[k] = q[k - 1] /\ k - 1 \in 1 .. Len(q) /\ p[k] \in DOMAIN h.cli
      BY <1>5, <1>6, <3>1
    <3>3. h.cli[q[k - 1]].name = h.cli[q[l - 1]].name /\ h.cli[q[l - 1]].jupe
      BY <1>7, <1>9, <2>2, <3>2
    <3>4. h.cli[q[k - 1]].jupe
      BY <1>1, <2>2, <3>1, <3>2, <3>3 DEF NamesAre
    <3> QED BY <1>7, <3>2, <3>4
  <2> QED BY <2>3, <2>4
<1>10. NamesAre(d, p)
  BY <1>8, <1>9 DEF NamesAre
<1>11. Elements(p) = DOMAIN d
  BY <1>1, <1>3, <1>7
<1> QED BY <1>2, <1>3, <1>10, <1>11 DEF Whole, t

(* A hash that is whole leads nobody to memory that is free.               *)
LEMMA WholeIsNotBroken ==
  ASSUME NEW h \in Hashes, NEW q, Linked(h, q), NULL \notin Ids, IsFiniteSet(Ids)
  PROVE  ~ Broken(h)
<1>1. Bucket(h) = q
  BY BucketOfLinked
<1> QED BY <1>1 DEF Broken, Linked

(* The pointers stay, and something else of the structures may change.     *)
LEMMA WholeTaken ==
  ASSUME NEW h \in Hashes, NEW t, Whole(h), t.head = h.head,
         NEW i \in DOMAIN h.cli, NEW r, Taken(h.cli, i, r, t.cli),
         r.name = h.cli[i].name, r.jupe = h.cli[i].jupe,
         \A j \in DOMAIN h.cli : /\ t.cli[j].hnext = h.cli[j].hnext
                                 /\ t.cli[j].hprev = h.cli[j].hprev
  PROVE  Whole(t)
<1>1. PICK q \in Seq(Ids) : Linked(h, q) /\ Elements(q) = DOMAIN h.cli /\ NamesAre(h.cli, q)
  BY DEF Whole
<1>2. DOMAIN t.cli = DOMAIN h.cli
  BY DEF Taken
<1>3. \A j \in DOMAIN h.cli : t.cli[j].name = h.cli[j].name /\ t.cli[j].jupe = h.cli[j].jupe
  BY DEF Taken, SameFace
<1>4. \A k \in 1 .. Len(q) : q[k] \in DOMAIN h.cli
  BY <1>1 DEF Linked, Elements
<1>5. Linked(t, q)
  BY <1>1, <1>2, <1>4 DEF Linked
<1>6. NamesAre(t.cli, q)
  BY <1>1, <1>2, <1>3, <1>4 DEF NamesAre
<1> QED BY <1>1, <1>2, <1>5, <1>6 DEF Whole

-----------------------------------------------------------------------------
(* What is assumed of addresses and connections.                           *)
LEMMA Finite == IsFiniteSet(Ids) /\ IsFiniteSet(Conns) /\ NULL \notin Ids /\ NULL \notin Conns
BY NetworkAssumption

(* What is so of the hash that a line leaves.                              *)
LEMMA NowHashStep ==
  ASSUME NEW s \in Hashes, NowHash(s)
  PROVE  /\ Hash' \in Hashes /\ cli' = s.cli /\ (~ wild' => ~ Broken(Hash'))
         /\ Whole(s) /\ ~ s.wild => ~ wild' /\ Whole(Hash')
<1>1. cli' = s.cli /\ head' = s.head /\ wild' = (s.wild \/ Broken(s))
  BY DEF NowHash
<1>2. Hash' = [cli |-> s.cli, head |-> s.head, wild |-> s.wild \/ Broken(s)]
  BY <1>1 DEF Hash
<1> DEFINE t == [cli |-> s.cli, head |-> s.head, wild |-> s.wild \/ Broken(s)]
<1>3. t.cli = s.cli /\ t.head = s.head
  OBVIOUS
<1>4. t \in Hashes
  BY DEF Hashes, Broken
<1> HIDE DEF t
<1>5. Bucket(t) = Bucket(s)
  BY <1>3, Finite, BucketSame
<1>6. Broken(t) = Broken(s)
  BY <1>3, <1>5 DEF Broken
<1>7. ASSUME Whole(s), ~ s.wild PROVE ~ wild' /\ Whole(t)
  <2>1. PICK q \in Seq(Ids) : Linked(s, q) /\ Elements(q) = DOMAIN s.cli /\ NamesAre(s.cli, q)
    BY <1>7 DEF Whole
  <2>2. ~ Broken(s)
    BY <2>1, Finite, WholeIsNotBroken
  <2>3. Linked(t, q)
    BY <2>1, <1>3 DEF Linked
  <2> QED BY <1>1, <1>3, <1>7, <2>1, <2>2, <2>3 DEF Whole
<1>8. Hash' = t
  BY <1>2 DEF t
<1> QED BY <1>1, <1>4, <1>6, <1>7, <1>8

(* What is so of the hash when somebody has been added to it.              *)
LEMMA PushedNow ==
  ASSUME NEW s \in Hashes, NEW i \in Ids \ DOMAIN s.cli, NEW r \in Client,
         NowHash(Pushed(s, i, r))
  PROVE  /\ Hash' \in Hashes /\ Taken(s.cli, i, r, cli') /\ (~ wild' => ~ Broken(Hash'))
         /\ Whole(s) /\ ~ s.wild
              /\ (~ r.jupe => \A j \in DOMAIN s.cli : s.cli[j].name # r.name)
            => ~ wild' /\ Whole(Hash')
<1> DEFINE t == Pushed(s, i, r)
<1>1. t \in Hashes /\ t.wild = s.wild /\ Taken(s.cli, i, r, t.cli)
  BY PushedFaces
<1>2. ASSUME Whole(s), ~ r.jupe => \A j \in DOMAIN s.cli : s.cli[j].name # r.name
      PROVE  Whole(t)
  BY <1>2, Finite, WholePushed
<1>3. NowHash(t)
  OBVIOUS
<1> HIDE DEF t
<1>4. /\ Hash' \in Hashes /\ cli' = t.cli /\ (~ wild' => ~ Broken(Hash'))
      /\ Whole(t) /\ ~ t.wild => ~ wild' /\ Whole(Hash')
  BY <1>1, <1>3, NowHashStep
<1> QED BY <1>1, <1>2, <1>4

(* What is so when siclient_free has freed D.                              *)
LEMMA FreedStep ==
  ASSUME SoundInv, NEW D \in SUBSET DOMAIN cli, Freed(Hash, D)
  PROVE  /\ Hash' \in Hashes /\ Left(cli, D, cli') /\ (~ wild' => ~ Broken(Hash'))
         /\ CountsAre(cli', bursting', servers', links')
         /\ OpersAre(cli', opers') /\ MembersAre(cli', chans')
         /\ ~ wild /\ Whole(Hash) => ~ wild' /\ Whole(Hash')
<1> DEFINE t == FreedFrom(Hash, D)
<1>1. Hash \in Hashes /\ Hash.cli = cli /\ Hash.wild = wild /\ cli \in Tables
  BY DEF SoundInv, Hash, Trees
<1>2. t \in Hashes /\ Left(cli, D, t.cli)
  BY <1>1, Finite, FreedFaces
<1>3. Whole(Hash) => t.wild = wild /\ Whole(t)
  BY <1>1, Finite, WholeFreed
<1>4. NowHash(t)
  BY DEF Freed
<1> HIDE DEF t
<1>5. /\ Hash' \in Hashes /\ cli' = t.cli /\ (~ wild' => ~ Broken(Hash'))
      /\ Whole(t) /\ ~ t.wild => ~ wild' /\ Whole(Hash')
  BY <1>2, <1>4, NowHashStep
<1>6. Left(cli, D, cli')
  BY <1>2, <1>5
<1>7. IsFiniteSet(DOMAIN cli)
  <2>1. DOMAIN cli \in SUBSET Ids
    BY <1>1, TableFacts
  <2> QED BY <2>1, Finite, FS_Subset
<1>8. CountsAre(cli', bursting', servers', links')
  <2>1. /\ bursting' = bursting - Cardinality({i \in D : cli[i].burst = "sent"})
        /\ servers' = servers - Cardinality({i \in D : cli[i].kind = "server"})
        /\ links' = links - Cardinality({i \in D : IsLocalServer(cli[i])})
    <3>1. {i \in D : IsLocal(i)} = {i \in D : IsLocalServer(cli[i])}
      BY DEF IsLocal, IsLocalServer, IsServer
    <3> QED BY <3>1 DEF Freed, StillBursting, IsServer
  <2>2. CountsAre(cli, bursting, servers, links)
    BY DEF SoundInv
  <2> QED BY <1>6, <1>7, <2>1, <2>2, CountsLeft
<1>9. OpersAre(cli', opers')
  <2>1. opers' = Keep(opers, Elements(opers) \ D) /\ OpersAre(cli, opers)
    BY DEF Freed, OpersWithout, SoundInv
  <2> QED BY <1>6, <2>1, OpersLeft
<1>10. MembersAre(cli', chans')
  <2>1. chans' = MembersWithout(chans, D)
    BY DEF Freed, Without, MembersWithout
  <2>2. MembersAre(cli, chans) /\ DOMAIN cli' = DOMAIN cli \ D
    BY <1>6 DEF SoundInv, Left
  <2> QED BY <2>1, <2>2, MembersLeft
<1> QED BY <1>1, <1>3, <1>5, <1>6, <1>8, <1>9, <1>10

(* Nobody is behind a user or a module client.                             *)
LEMMA LeavesAlone ==
  ASSUME SoundInv, NEW D \in SUBSET DOMAIN cli,
         \A i \in D : cli[i].jupe \/ cli[i].kind = "user"
  PROVE  \A j \in DOMAIN cli : cli[j].parent \in D => j \in D
<1> SUFFICES ASSUME NEW j \in DOMAIN cli, cli[j].parent \in D PROVE FALSE
  OBVIOUS
<1>1. Placed(cli, conn, j) /\ D \subseteq Ids
  BY TableFacts DEF SoundInv, Trees
<1>2. cli[j].parent # NULL
  BY <1>1, Finite
<1> QED BY <1>1, <1>2 DEF Placed

(* Behind the server of a connection are all who came over it.             *)
LEMMA BehindFacts ==
  ASSUME SoundInv, NEW i \in DOMAIN cli
  PROVE  /\ Behind(i) \in SUBSET DOMAIN cli /\ i \in Behind(i)
         /\ \A j \in DOMAIN cli : cli[j].parent \in Behind(i) => j \in Behind(i)
         /\ \A j \in Behind(i) : j = i \/ cli[j].parent # NULL
         /\ IsLocal(i) => \A j \in DOMAIN cli :
              ~ cli[j].jupe /\ cli[j].from = cli[i].from => j \in Behind(i)
<1>1. Behind(i) \in SUBSET DOMAIN cli /\ i \in Behind(i)
  BY DEF Behind
<1>2. ASSUME NEW j \in DOMAIN cli, cli[j].parent \in Behind(i) PROVE j \in Behind(i)
  BY <1>2 DEF Behind
<1>3. ASSUME NEW j \in Behind(i), cli[j].parent = NULL PROVE j = i
  <2> DEFINE S == {k \in DOMAIN cli : k = i \/ cli[k].parent # NULL}
  <2>1. \A k \in DOMAIN cli : cli[k].parent \in S => k \in S
    <3>1. NULL \notin DOMAIN cli
      BY TableFacts, Finite DEF SoundInv, Trees
    <3> QED BY <3>1
  <2>2. S \in SUBSET DOMAIN cli /\ i \in S
    OBVIOUS
  <2> HIDE DEF S
  <2>3. j \in S
    BY <2>1, <2>2 DEF Behind
  <2> QED BY <1>3, <2>3 DEF S
<1>4. ASSUME IsLocal(i), NEW j \in DOMAIN cli, ~ cli[j].jupe, cli[j].from = cli[i].from
      PROVE  j \in Behind(i)
  <2> DEFINE S == Behind(i) \cup {k \in DOMAIN cli : cli[k].from # cli[i].from}
  <2>1. S \in SUBSET DOMAIN cli
    BY <1>1
  <2>2. HasRoots(cli, S)
    <3>1. SUFFICES ASSUME NEW k \in DOMAIN cli, ~ cli[k].jupe,
                          cli[k].parent = NULL \/ cli[k].parent \in S,
                          cli[k].from = cli[i].from
                   PROVE  k \in Behind(i)
      BY DEF HasRoots
    <3>2. Placed(cli, conn, k)
      BY DEF SoundInv, Trees
    <3>3. CASE cli[k].parent = NULL
      <4>1. IsLocalServer(cli[k]) /\ IsLocalServer(cli[i])
        BY <1>4, <3>1, <3>2, <3>3 DEF Placed, IsLocal, IsServer, IsLocalServer
      <4>2. k = i
        BY <3>1, <4>1 DEF SoundInv, Trees
      <4> QED BY <1>1, <4>2
    <3>4. CASE cli[k].parent # NULL
      <4>1. cli[cli[k].parent].from = cli[i].from
        BY <3>1, <3>2, <3>4 DEF Placed
      <4>2. cli[k].parent \in Behind(i)
        BY <3>1, <3>4, <4>1
      <4> QED BY <1>2, <4>2
    <3> QED BY <3>3, <3>4
  <2>3. j \in S
    BY <1>4, <2>1, <2>2 DEF SoundInv, Trees
  <2> QED BY <1>4, <2>3
<1> QED BY <1>1, <1>2, <1>3, <1>4

-----------------------------------------------------------------------------
(* As long as nothing was removed, no memory that is free is used.         *)
Tame == strikes = 0 => ~ wild'

(* What the uplink has been told it still knows, unless it is another.     *)
LEMMA ToldStep ==
  ASSUME NetworkInv, ~ wild, strikes' = 0 => strikes = 0,
         uplink' # NULL =>
           /\ uplink' = uplink /\ cli'[uplink].from = cli[uplink].from
           /\ \A i \in DOMAIN cli' : cli'[i].jupe =>
                /\ i \in DOMAIN cli /\ SameFace(cli[i], cli'[i])
                /\ cli[i].name \in held[cli[uplink].from] =>
                     cli[i].name \in held'[cli[uplink].from]
  PROVE  UplinkToldOfJupes'
<1> SUFFICES ASSUME uplink' # NULL, NEW i \in DOMAIN cli', cli'[i].jupe,
                    cli'[i].kind = "server" \/ strikes' = 0
             PROVE  cli'[i].name \in held'[cli'[uplink'].from]
  BY DEF UplinkToldOfJupes, HasJupes, IsServer
<1>1. uplink' = uplink /\ cli'[uplink].from = cli[uplink].from /\ i \in DOMAIN cli
      /\ SameFace(cli[i], cli'[i])
  OBVIOUS
<1>2. cli[i].jupe /\ (cli[i].kind = "server" \/ strikes = 0) /\ uplink # NULL
  BY <1>1 DEF SameFace
<1>3. cli[i].name \in held[cli[uplink].from]
  BY <1>1, <1>2 DEF NetworkInv, UplinkToldOfJupes, HasJupes, IsServer
<1> QED BY <1>1, <1>3 DEF SameFace

(* Services that start know of nobody.                                     *)
LEMMA InitIsSound == NetworkInit => NetworkInv
<1> SUFFICES ASSUME NetworkInit PROVE NetworkInv
  OBVIOUS
<1> USE DEF NetworkInit
<1>1. DOMAIN cli = {} /\ DOMAIN chans = {} /\ Len(opers) = 0 /\ opers \in Seq(Ids)
  OBVIOUS
<1>2. cli \in Tables
  <2>1. cli \in [{} -> Client]
    BY <1>1
  <2> QED BY <2>1, TableIs
<1>3. Hash \in Hashes /\ Hash.cli = cli /\ Hash.head = NULL
  BY <1>2 DEF Hash, Hashes, Pointers
<1>4. Trees(cli, conn)
  BY <1>1, <1>2 DEF Trees
<1>5. CountsAre(cli, bursting, servers, links)
  <2>1. /\ {i \in DOMAIN cli : cli[i].burst = "sent"} = {}
        /\ {i \in DOMAIN cli : cli[i].kind = "server"} = {}
        /\ {i \in DOMAIN cli : IsLocalServer(cli[i])} = {}
    BY <1>1
  <2> QED BY <2>1, FS_EmptySet DEF CountsAre
<1>6. OpersAre(cli, opers)
  <2>1. Elements(opers) = {} /\ {i \in DOMAIN cli : cli[i].oper} = {} /\ NoTwice(opers)
    BY <1>1 DEF Elements, NoTwice
  <2> QED BY <1>1, <2>1 DEF OpersAre
<1>7. MembersAre(cli, chans)
  BY <1>1 DEF MembersAre
<1>8. Linked(Hash, <<>>) /\ NamesAre(cli, <<>>) /\ Elements(<<>>) = DOMAIN cli
  BY <1>1, <1>3 DEF Linked, NamesAre, Elements, NoTwice
<1>9. Whole(Hash)
  BY <1>1, <1>3, <1>8 DEF Whole
<1>10. ~ Broken(Hash)
  BY <1>3, <1>8, Finite, WholeIsNotBroken
<1>11. SoundInv
  BY <1>3, <1>4, <1>5, <1>6, <1>7, <1>10 DEF SoundInv, UplinkIs, Pointers
<1> QED BY <1>9, <1>11 DEF NetworkInv, FoundInv, UplinkToldOfJupes

(* What does not change is the same hash.                                  *)
LEMMA HashSame ==
  ASSUME UNCHANGED <<cli, head, wild>>
  PROVE  Hash' = Hash
BY DEF Hash

(* A connection of nobody comes or goes.                                   *)
LEMMA ConnStep ==
  ASSUME NetworkInv, NEW c \in Conns, Connect(c) \/ DropUnknown(c)
  PROVE  NetworkInv'
<1>1. /\ UNCHANGED <<cli, head, uplink, chans, opers, bursting, servers, links,
                     held, strikes, wild>>
      /\ conn[c] # "server" /\ ~ wild
      /\ conn' \in [Conns -> {"none", "unknown", "server"}]
      /\ \A d \in Conns : d # c => conn'[d] = conn[d]
  BY DEF Connect, DropUnknown, NetworkInv, SoundInv
<1>2. Trees(cli, conn) /\ cli \in Tables
  BY DEF NetworkInv, SoundInv, Trees
<1>3. Left(cli, {}, cli)
  BY DEF Left, SameFace
<1>4. \A j \in DOMAIN cli : ~ cli[j].jupe => conn'[cli[j].from] = "server"
  BY <1>1, <1>2 DEF Trees, Placed
<1>5. Trees(cli, conn')
  BY <1>2, <1>3, <1>4, TreesLeft
<1>6. Hash' = Hash
  BY <1>1, HashSame
<1>7. SoundInv'
  BY <1>1, <1>5, <1>6 DEF NetworkInv, SoundInv
<1>8. FoundInv' /\ UplinkToldOfJupes'
  BY <1>1, <1>6 DEF NetworkInv, FoundInv, UplinkToldOfJupes, HasJupes, IsServer
<1> QED BY <1>7, <1>8 DEF NetworkInv

(* A server's connection goes with all who came over it.                   *)
LEMMA UnplugStep ==
  ASSUME NetworkInv, ~ wild, NEW c \in Conns, Unplug(c)
  PROVE  NetworkInv' /\ Tame
<1>1. PICK i \in DOMAIN cli :
        /\ IsLocal(i) /\ cli[i].from = c /\ Freed(Hash, Behind(i))
        /\ uplink' = (IF uplink = i THEN NULL ELSE uplink)
        /\ conn' = [conn EXCEPT ![c] = "none"] /\ held' = [held EXCEPT ![c] = {}]
        /\ strikes' = strikes
  BY DEF Unplug
<1> DEFINE D == Behind(i)
<1>2. SoundInv /\ Trees(cli, conn) /\ UplinkIs(cli, uplink)
  BY DEF NetworkInv, SoundInv
<1>3. /\ D \in SUBSET DOMAIN cli /\ i \in D
      /\ \A j \in DOMAIN cli : cli[j].parent \in D => j \in D
      /\ \A j \in D : j = i \/ cli[j].parent # NULL
      /\ \A j \in DOMAIN cli : ~ cli[j].jupe /\ cli[j].from = c => j \in D
  BY <1>1, <1>2, BehindFacts
<1>4. Freed(Hash, D)
  BY <1>1
<1> HIDE DEF D
<1>5. /\ Hash' \in Hashes /\ Left(cli, D, cli') /\ (~ wild' => ~ Broken(Hash'))
      /\ CountsAre(cli', bursting', servers', links')
      /\ OpersAre(cli', opers') /\ MembersAre(cli', chans')
      /\ ~ wild /\ Whole(Hash) => ~ wild' /\ Whole(Hash')
  BY <1>2, <1>3, <1>4, FreedStep
<1>6. cli' \in Tables
  BY <1>5 DEF Hash, Hashes
<1>7. Trees(cli', conn')
  <2>1. ASSUME NEW j \in DOMAIN cli', ~ cli[j].jupe PROVE conn'[cli[j].from] = "server"
    <3>1. j \in DOMAIN cli /\ j \notin D
      BY <1>5 DEF Left
    <3>2. Placed(cli, conn, j)
      BY <1>2, <3>1 DEF Trees
    <3> QED BY <1>1, <1>3, <2>1, <3>1, <3>2 DEF Placed, NetworkInv, SoundInv
  <2> QED BY <1>2, <1>3, <1>5, <1>6, <2>1, TreesLeft
<1>8. uplink' # NULL => /\ uplink' = uplink /\ uplink \in DOMAIN cli'
                        /\ SameFace(cli[uplink], cli'[uplink]) /\ cli[uplink].from # c
  <2>1. SUFFICES ASSUME uplink' # NULL
                 PROVE  /\ uplink' = uplink /\ uplink \in DOMAIN cli'
                        /\ SameFace(cli[uplink], cli'[uplink]) /\ cli[uplink].from # c
    OBVIOUS
  <2>2. uplink' = uplink /\ uplink # i /\ uplink \in DOMAIN cli /\ IsLocalServer(cli[uplink])
    BY <1>1, <1>2, <2>1 DEF UplinkIs
  <2>3. uplink \notin D
    BY <1>3, <2>2 DEF IsLocalServer
  <2>4. IsLocalServer(cli[i])
    BY <1>1 DEF IsLocal, IsServer, IsLocalServer
  <2>5. cli[uplink].from # c
    BY <1>1, <1>2, <2>2, <2>4 DEF Trees
  <2> QED BY <1>5, <2>2, <2>3, <2>5 DEF Left
<1>9. UplinkIs(cli', uplink')
  BY <1>2, <1>8 DEF UplinkIs, SameFace, IsLocalServer
<1>10. /\ conn' \in [Conns -> {"none", "unknown", "server"}]
       /\ held' \in [Conns -> SUBSET Jupable]
       /\ uplink' \in Pointers /\ strikes' \in Nat
  BY <1>1, <1>2 DEF SoundInv, Pointers
<1>11. SoundInv'
  BY <1>5, <1>7, <1>9, <1>10 DEF SoundInv
<1>12. FoundInv'
  BY <1>1, <1>5 DEF NetworkInv, FoundInv
<1>13. UplinkToldOfJupes'
  <2>1. \A j \in DOMAIN cli' : j \in DOMAIN cli /\ SameFace(cli[j], cli'[j])
    BY <1>5 DEF Left
  <2>2. \A d \in Conns : d # c => held'[d] = held[d]
    BY <1>1, <1>2 DEF SoundInv
  <2>3. uplink' # NULL => cli[uplink].from \in Conns
    BY <1>1, <1>2 DEF UplinkIs, Trees, Placed, IsLocalServer
  <2>4. uplink' # NULL =>
          /\ uplink' = uplink /\ cli'[uplink].from = cli[uplink].from
          /\ \A j \in DOMAIN cli' : cli'[j].jupe =>
               /\ j \in DOMAIN cli /\ SameFace(cli[j], cli'[j])
               /\ cli[j].name \in held[cli[uplink].from] =>
                    cli[j].name \in held'[cli[uplink].from]
    BY <1>8, <2>1, <2>2, <2>3 DEF SameFace
  <2> QED BY <1>1, <2>4, ToldStep
<1>14. Tame
  BY <1>5 DEF NetworkInv, FoundInv, Tame
<1> QED BY <1>11, <1>12, <1>13, <1>14 DEF NetworkInv

(* A server registers and is the uplink.                                   *)
LEMMA RegisterStep ==
  ASSUME NetworkInv, NEW c \in Conns, NEW n \in ServerNames, Register(c, n)
  PROVE  NetworkInv' /\ Tame
<1>1. PICK i \in Ids \ DOMAIN cli :
        NowHash(Pushed(Hash, i, NewServer(n, NULL, c, "sent"))) /\ uplink' = i
  BY DEF Register
<1> DEFINE r == NewServer(n, NULL, c, "sent")
<1>2. /\ ~ wild /\ conn[c] = "unknown" /\ Find(n) = {}
      /\ conn' = [conn EXCEPT ![c] = "server"]
      /\ held' = [held EXCEPT ![c] = {cli[j].name : j \in HasJupes}]
      /\ bursting' = bursting + 1 /\ servers' = servers + 1 /\ links' = links + 1
      /\ chans' = chans /\ opers' = opers /\ strikes' = strikes
  BY DEF Register
<1>3. /\ SoundInv /\ Trees(cli, conn) /\ cli \in Tables /\ Hash \in Hashes
      /\ Hash.cli = cli /\ Hash.wild = wild
  BY DEF NetworkInv, SoundInv, Trees, Hash
<1>4. /\ r \in Client /\ r.name = n /\ r.kind = "server" /\ r.parent = NULL
      /\ r.from = c /\ ~ r.jupe /\ ~ r.oper /\ r.burst = "sent" /\ IsLocalServer(r)
  BY DEF NewServer, Client, Pointers, IsLocalServer
<1>5. NowHash(Pushed(Hash, i, r)) /\ i \in Ids \ DOMAIN Hash.cli
  BY <1>1, <1>3
<1> HIDE DEF r
<1>6. /\ Hash' \in Hashes /\ Taken(cli, i, r, cli') /\ (~ wild' => ~ Broken(Hash'))
      /\ Whole(Hash) /\ (\A j \in DOMAIN cli : cli[j].name # n) => ~ wild' /\ Whole(Hash')
  <2>1. /\ Hash' \in Hashes /\ Taken(Hash.cli, i, r, cli') /\ (~ wild' => ~ Broken(Hash'))
        /\ Whole(Hash) /\ ~ Hash.wild
              /\ (~ r.jupe => \A j \in DOMAIN Hash.cli : Hash.cli[j].name # r.name)
            => ~ wild' /\ Whole(Hash')
    BY <1>3, <1>4, <1>5, PushedNow
  <2> QED BY <1>2, <1>3, <1>4, <2>1
<1>7. cli' \in Tables
  BY <1>6 DEF Hash, Hashes
<1>8. /\ \A j \in DOMAIN cli : ~ cli[j].jupe => conn'[cli[j].from] = "server"
      /\ \A j \in DOMAIN cli : IsLocalServer(cli[j]) => cli[j].from # c
      /\ conn'[c] = "server"
  BY <1>2, <1>3 DEF Trees, Placed, SoundInv, IsLocalServer
<1>9. Trees(cli', conn')
  BY <1>3, <1>4, <1>5, <1>6, <1>7, <1>8, TreesNew
<1>10. CountsAre(cli', bursting', servers', links')
  <2>1. IsFiniteSet(DOMAIN cli)
    BY <1>3, Finite, TableFacts, FS_Subset
  <2>2. CountsAre(cli, bursting, servers, links)
    BY <1>3 DEF SoundInv
  <2>3. CountsAre(cli', IF r.burst = "sent" THEN bursting + 1 ELSE bursting,
                     IF r.kind = "server" THEN servers + 1 ELSE servers,
                     IF IsLocalServer(r) THEN links + 1 ELSE links)
    BY <1>3, <1>5, <1>6, <2>1, <2>2, CountsNew
  <2> QED BY <1>2, <1>4, <2>3
<1>11. OpersAre(cli', opers')
  <2>1. OpersAre(cli', IF r.oper THEN PushFront(i, opers) ELSE opers)
    BY <1>3, <1>4, <1>5, <1>6, OpersNew DEF SoundInv
  <2> QED BY <1>2, <1>4, <2>1
<1>12. MembersAre(cli', chans')
  BY <1>2, <1>3, <1>6, MembersMore DEF SoundInv, Taken
<1>13. UplinkIs(cli', uplink')
  BY <1>1, <1>4, <1>6 DEF UplinkIs, Taken, SameFace, IsLocalServer
<1>14. {cli[j].name : j \in HasJupes} \in SUBSET Jupable
  BY <1>3 DEF HasJupes, Trees, Placed
<1>15. /\ conn' \in [Conns -> {"none", "unknown", "server"}]
       /\ held' \in [Conns -> SUBSET Jupable]
       /\ uplink' \in Pointers /\ strikes' \in Nat
  BY <1>1, <1>2, <1>3, <1>14 DEF SoundInv, Pointers
<1>16. SoundInv'
  BY <1>6, <1>9, <1>10, <1>11, <1>12, <1>13, <1>15 DEF SoundInv
<1>17. FoundInv' /\ Tame
  <2>1. ASSUME strikes = 0 PROVE Whole(Hash) /\ \A j \in DOMAIN cli : cli[j].name # n
    <3>1. Whole(Hash)
      BY <1>2, <2>1 DEF NetworkInv, FoundInv
    <3>2. PICK q \in Seq(Ids) : Linked(Hash, q) /\ Elements(q) = DOMAIN cli /\ NamesAre(cli, q)
      BY <1>3, <3>1 DEF Whole
    <3> QED BY <1>2, <1>3, <3>1, <3>2, Finite, FoundAll
  <2> QED BY <1>2, <1>6, <2>1 DEF FoundInv, Tame
<1>18. UplinkToldOfJupes'
  <2>1. SUFFICES ASSUME NEW j \in DOMAIN cli', cli'[j].jupe
                 PROVE  cli'[j].name \in held'[cli'[i].from]
    BY <1>1 DEF UplinkToldOfJupes, HasJupes
  <2>2. cli'[i].from = c /\ ~ cli'[i].jupe
    BY <1>4, <1>6 DEF Taken, SameFace
  <2>3. j \in DOMAIN cli /\ cli[j].jupe /\ cli'[j].name = cli[j].name
    BY <1>6, <2>1, <2>2 DEF Taken, SameFace
  <2>4. held'[c] = {cli[k].name : k \in HasJupes}
    BY <1>2, <1>3 DEF SoundInv
  <2> QED BY <2>2, <2>3, <2>4 DEF HasJupes
<1> QED BY <1>16, <1>17, <1>18 DEF NetworkInv

(* A server is refused, and there is no uplink.                            *)
LEMMA RefusedStep ==
  ASSUME NetworkInv, NEW c \in Conns, NEW n \in ServerNames, RegisterRefused(c, n)
  PROVE  NetworkInv'
<1>1. /\ UNCHANGED <<cli, head, chans, opers, bursting, servers, links, held,
                     strikes, wild>>
      /\ conn[c] = "unknown" /\ uplink' = NULL
      /\ conn' = [conn EXCEPT ![c] = "none"]
  BY DEF RegisterRefused
<1>2. Trees(cli, conn) /\ cli \in Tables
  BY DEF NetworkInv, SoundInv, Trees
<1>3. Left(cli, {}, cli)
  BY DEF Left, SameFace
<1>4. \A j \in DOMAIN cli : ~ cli[j].jupe => conn'[cli[j].from] = "server"
  BY <1>1, <1>2 DEF Trees, Placed, NetworkInv, SoundInv
<1>5. Trees(cli, conn')
  BY <1>2, <1>3, <1>4, TreesLeft
<1>6. Hash' = Hash
  BY <1>1, HashSame
<1>7. SoundInv'
  BY <1>1, <1>5, <1>6 DEF NetworkInv, SoundInv, UplinkIs, Pointers
<1>8. FoundInv' /\ UplinkToldOfJupes'
  BY <1>1, <1>6 DEF NetworkInv, FoundInv, UplinkToldOfJupes
<1> QED BY <1>7, <1>8 DEF NetworkInv

(* A name that siclient_find does not find is nobody's.                    *)
LEMMA NameIsFree ==
  ASSUME NetworkInv, ~ wild, strikes = 0, NEW n, Find(n) = {}
  PROVE  Whole(Hash) /\ \A j \in DOMAIN cli : cli[j].name # n
<1>1. Whole(Hash) /\ Hash \in Hashes /\ Hash.cli = cli
  BY DEF NetworkInv, FoundInv, SoundInv, Hash
<1>2. PICK q \in Seq(Ids) : Linked(Hash, q) /\ Elements(q) = DOMAIN cli /\ NamesAre(cli, q)
  BY <1>1 DEF Whole
<1> QED BY <1>1, <1>2, Finite, FoundAll

(* Of wild services nothing is said but that they are.                     *)
LEMMA WildStep ==
  ASSUME NetworkInv, GoesWild
  PROVE  NetworkInv'
<1>1. /\ wild' = TRUE
      /\ UNCHANGED <<cli, head, uplink, conn, chans, opers, bursting, servers, links,
                     held, strikes>>
  BY DEF GoesWild
<1>2. SoundInv /\ cli \in Tables /\ head \in Pointers
  BY DEF NetworkInv, SoundInv, Hash, Hashes, Trees
<1>3. Hash' = [cli |-> cli, head |-> head, wild |-> TRUE]
  BY <1>1 DEF Hash
<1>4. Hash' \in Hashes
  BY <1>2, <1>3 DEF Hashes
<1>5. SoundInv'
  BY <1>1, <1>2, <1>4 DEF SoundInv
<1> QED BY <1>1, <1>5 DEF NetworkInv, FoundInv, UplinkToldOfJupes

(* A server from a user costs the link, or services go wild.               *)
LEMMA UserIntroducesStep ==
  ASSUME NetworkInv, NEW u \in DOMAIN cli, NEW n \in ServerNames, UserIntroduces(u, n)
  PROVE  NetworkInv' /\ (Find(n) # {} => Tame)
<1>1. /\ ~ wild /\ ~ cli[u].jupe
      /\ IF Find(n) # {} THEN Unplug(cli[u].from) ELSE GoesWild
  BY DEF UserIntroduces, Speaks
<1>2. cli[u].from \in Conns
  BY <1>1, TableFacts DEF NetworkInv, SoundInv, Trees, Placed
<1> QED BY <1>1, <1>2, UnplugStep, WildStep

(* A server comes behind another, or its name costs the link.              *)
LEMMA IntroduceStep ==
  ASSUME NetworkInv, NEW p \in DOMAIN cli, NEW n \in ServerNames, Introduce(p, n)
  PROVE  NetworkInv' /\ Tame
<1>1. /\ ~ wild /\ cli[p].kind = "server" /\ ~ cli[p].jupe
      /\ IF Find(n) # {} THEN Unplug(cli[p].from)
         ELSE /\ \E i \in Ids \ DOMAIN cli :
                   NowHash(Pushed(Hash, i, NewServer(n, p, cli[p].from, "sent")))
              /\ bursting' = bursting + 1 /\ servers' = servers + 1
              /\ UNCHANGED <<uplink, conn, chans, opers, links, held, strikes>>
  BY DEF Introduce, IsServer
<1>2. /\ SoundInv /\ Trees(cli, conn) /\ cli \in Tables /\ Hash \in Hashes
      /\ Hash.cli = cli /\ Hash.wild = wild
  BY DEF NetworkInv, SoundInv, Trees, Hash
<1>3. cli[p].from \in Conns /\ conn[cli[p].from] = "server" /\ p \in Ids
  BY <1>1, <1>2, TableFacts DEF Trees, Placed
<1>4. CASE Find(n) # {}
  BY <1>1, <1>3, <1>4, UnplugStep
<1>5. CASE Find(n) = {}
  <2> DEFINE r == NewServer(n, p, cli[p].from, "sent")
  <2>1. PICK i \in Ids \ DOMAIN cli : NowHash(Pushed(Hash, i, r))
    BY <1>1, <1>5
  <2>2. /\ r \in Client /\ r.name = n /\ r.kind = "server" /\ r.parent = p
        /\ r.from = cli[p].from /\ ~ r.jupe /\ ~ r.oper /\ r.burst = "sent"
        /\ ~ IsLocalServer(r) /\ p # NULL
    BY <1>3, Finite DEF NewServer, Client, Pointers, IsLocalServer
  <2>3. i \in Ids \ DOMAIN Hash.cli
    BY <1>2, <2>1
  <2> HIDE DEF r
  <2>4. /\ Hash' \in Hashes /\ Taken(cli, i, r, cli') /\ (~ wild' => ~ Broken(Hash'))
        /\ Whole(Hash) /\ (\A j \in DOMAIN cli : cli[j].name # n) => ~ wild' /\ Whole(Hash')
    <3>1. /\ Hash' \in Hashes /\ Taken(Hash.cli, i, r, cli') /\ (~ wild' => ~ Broken(Hash'))
          /\ Whole(Hash) /\ ~ Hash.wild
                /\ (~ r.jupe => \A j \in DOMAIN Hash.cli : Hash.cli[j].name # r.name)
              => ~ wild' /\ Whole(Hash')
      BY <1>2, <2>1, <2>2, <2>3, PushedNow
    <3> QED BY <1>1, <1>2, <2>2, <3>1
  <2>5. cli' \in Tables
    BY <2>4 DEF Hash, Hashes
  <2>6. /\ bursting' = bursting + 1 /\ servers' = servers + 1
        /\ UNCHANGED <<uplink, conn, chans, opers, links, held, strikes>>
    BY <1>1, <1>5
  <2>7. Trees(cli', conn')
    <3>1. \A j \in DOMAIN cli : ~ cli[j].jupe => conn[cli[j].from] = "server"
      BY <1>2 DEF Trees, Placed
    <3>2. Trees(cli', conn)
      BY <1>1, <1>2, <1>3, <2>1, <2>2, <2>4, <2>5, <3>1, TreesNew
    <3> QED BY <2>6, <3>2
  <2>8. CountsAre(cli', bursting', servers', links')
    <3>1. IsFiniteSet(DOMAIN cli)
      BY <1>2, Finite, TableFacts, FS_Subset
    <3>2. CountsAre(cli, bursting, servers, links)
      BY <1>2 DEF SoundInv
    <3>3. CountsAre(cli', IF r.burst = "sent" THEN bursting + 1 ELSE bursting,
                       IF r.kind = "server" THEN servers + 1 ELSE servers,
                       IF IsLocalServer(r) THEN links + 1 ELSE links)
      BY <2>1, <2>4, <3>1, <3>2, CountsNew
    <3> QED BY <2>2, <2>6, <3>3
  <2>9. OpersAre(cli', opers')
    <3>1. OpersAre(cli', IF r.oper THEN PushFront(i, opers) ELSE opers)
      BY <1>2, <2>1, <2>2, <2>4, OpersNew DEF SoundInv
    <3> QED BY <2>2, <2>6, <3>1
  <2>10. MembersAre(cli', chans')
    BY <1>2, <2>4, <2>6, MembersMore DEF SoundInv, Taken
  <2>11. \A j \in DOMAIN cli : j \in DOMAIN cli' /\ SameFace(cli[j], cli'[j])
    BY <2>1, <2>4 DEF Taken
  <2>12. UplinkIs(cli', uplink')
    BY <1>2, <2>6, <2>11 DEF SoundInv, UplinkIs, SameFace, IsLocalServer
  <2>13. SoundInv'
    BY <1>2, <2>4, <2>6, <2>7, <2>8, <2>9, <2>10, <2>12 DEF SoundInv
  <2>14. FoundInv' /\ Tame
    BY <1>1, <1>5, <2>4, <2>6, NameIsFree DEF FoundInv, Tame
  <2>15. UplinkToldOfJupes'
    <3>1. uplink # NULL => uplink \in DOMAIN cli
      BY <1>2 DEF SoundInv, UplinkIs
    <3>2. \A j \in DOMAIN cli' : cli'[j].jupe => j \in DOMAIN cli
      BY <2>2, <2>4 DEF Taken, SameFace
    <3>3. uplink' # NULL =>
            /\ uplink' = uplink /\ cli'[uplink].from = cli[uplink].from
            /\ \A j \in DOMAIN cli' : cli'[j].jupe =>
                 /\ j \in DOMAIN cli /\ SameFace(cli[j], cli'[j])
                 /\ cli[j].name \in held[cli[uplink].from] =>
                      cli[j].name \in held'[cli[uplink].from]
      BY <2>6, <2>11, <3>1, <3>2 DEF SameFace
    <3> QED BY <1>1, <2>6, <3>3, ToldStep
  <2> QED BY <2>13, <2>14, <2>15 DEF NetworkInv
<1> QED BY <1>4, <1>5

(* Somebody goes for good, with all that are behind them, and the uplink   *)
(* stays.                                                                  *)
LEMMA GoneStep ==
  ASSUME NetworkInv, ~ wild, NEW D \in SUBSET DOMAIN cli, Freed(Hash, D),
         \A j \in DOMAIN cli : cli[j].parent \in D => j \in D,
         uplink \notin D, UNCHANGED <<uplink, conn, strikes>>,
         held' \in [Conns -> SUBSET Jupable],
         uplink # NULL =>
           \A j \in DOMAIN cli \ D : cli[j].jupe =>
             (cli[j].name \in held[cli[uplink].from] =>
                cli[j].name \in held'[cli[uplink].from])
  PROVE  NetworkInv' /\ Tame
<1>1. SoundInv /\ Trees(cli, conn) /\ UplinkIs(cli, uplink)
  BY DEF NetworkInv, SoundInv
<1>2. /\ Hash' \in Hashes /\ Left(cli, D, cli') /\ (~ wild' => ~ Broken(Hash'))
      /\ CountsAre(cli', bursting', servers', links')
      /\ OpersAre(cli', opers') /\ MembersAre(cli', chans')
      /\ ~ wild /\ Whole(Hash) => ~ wild' /\ Whole(Hash')
  BY <1>1, FreedStep
<1>3. cli' \in Tables
  BY <1>2 DEF Hash, Hashes
<1>4. \A j \in DOMAIN cli' : j \in DOMAIN cli \ D /\ SameFace(cli[j], cli'[j])
  BY <1>2 DEF Left
<1>5. Trees(cli', conn')
  <2>1. \A j \in DOMAIN cli' : ~ cli[j].jupe => conn[cli[j].from] = "server"
    BY <1>1, <1>4 DEF Trees, Placed
  <2>2. Trees(cli', conn)
    BY <1>1, <1>2, <1>3, <2>1, TreesLeft
  <2> QED BY <2>2
<1>6. uplink # NULL => uplink \in DOMAIN cli' /\ SameFace(cli[uplink], cli'[uplink])
  BY <1>1, <1>2 DEF UplinkIs, Left
<1>7. UplinkIs(cli', uplink')
  BY <1>1, <1>6 DEF UplinkIs, SameFace, IsLocalServer
<1>8. SoundInv'
  BY <1>1, <1>2, <1>5, <1>7 DEF SoundInv
<1>9. FoundInv' /\ Tame
  BY <1>2 DEF NetworkInv, FoundInv, Tame
<1>10. uplink' # NULL =>
         /\ uplink' = uplink /\ cli'[uplink].from = cli[uplink].from
         /\ \A j \in DOMAIN cli' : cli'[j].jupe =>
              /\ j \in DOMAIN cli /\ SameFace(cli[j], cli'[j])
              /\ cli[j].name \in held[cli[uplink].from] =>
                   cli[j].name \in held'[cli[uplink].from]
  BY <1>4, <1>6 DEF SameFace
<1>11. UplinkToldOfJupes'
  BY <1>10, ToldStep
<1> QED BY <1>8, <1>9, <1>11 DEF NetworkInv

(* The side of the uplink, which Told tells.                               *)
LEMMA UplinkSide ==
  ASSUME SoundInv, uplink # NULL
  PROVE  /\ uplink \in DOMAIN cli /\ cli[uplink].from \in Conns
         /\ cli[uplink].kind = "server" /\ ~ cli[uplink].jupe /\ cli[uplink].parent = NULL
BY DEF SoundInv, UplinkIs, IsLocalServer, Trees, Placed

(* What the side of the uplink knows when it has been told.                *)
LEMMA ToldIs ==
  ASSUME SoundInv, NEW h \in [Conns -> SUBSET Jupable], NEW S \in SUBSET Jupable
  PROVE  /\ Told(h, uplink, S) \in [Conns -> SUBSET Jupable]
         /\ uplink # NULL => Told(h, uplink, S)[cli[uplink].from] = h[cli[uplink].from] \cup S
BY UplinkSide DEF Told

(* A module client is taken away.                                          *)
LEMMA DelJupeStep ==
  ASSUME NetworkInv, NEW i \in DOMAIN cli, DelJupe(i)
  PROVE  NetworkInv' /\ Tame
<1>1. /\ ~ wild /\ cli[i].jupe /\ Freed(Hash, {i})
      /\ held' = (IF uplink = NULL THEN held
                  ELSE [held EXCEPT ![cli[uplink].from] = @ \ {cli[i].name}])
      /\ UNCHANGED <<uplink, conn, strikes>>
  BY DEF DelJupe, HasJupes
<1>2. SoundInv /\ Trees(cli, conn) /\ held \in [Conns -> SUBSET Jupable]
  BY DEF NetworkInv, SoundInv
<1>3. \A j \in DOMAIN cli : cli[j].parent \in {i} => j \in {i}
  BY <1>1, <1>2, LeavesAlone
<1>4. uplink \notin {i}
  <2>1. i \in Ids
    BY <1>2, TableFacts DEF Trees
  <2> QED BY <1>1, <1>2, <2>1, Finite, UplinkSide
<1>5. held' \in [Conns -> SUBSET Jupable]
  BY <1>1, <1>2
<1>6. uplink # NULL =>
        \A j \in DOMAIN cli \ {i} : cli[j].jupe =>
          (cli[j].name \in held[cli[uplink].from] =>
             cli[j].name \in held'[cli[uplink].from])
  <2>1. \A j \in DOMAIN cli \ {i} : cli[j].jupe => cli[j].name # cli[i].name
    BY <1>1, <1>2 DEF Trees
  <2> QED BY <1>1, <1>2, <2>1, UplinkSide
<1> QED BY <1>1, <1>3, <1>4, <1>5, <1>6, GoneStep

(* A module client that the network removes stays in memory, out of the    *)
(* bucket, and is told of again.                                           *)
LEMMA StruckStep ==
  ASSUME NetworkInv, ~ wild, NEW c \in Conns, NEW i \in DOMAIN cli, cli[i].jupe, Struck(c, i)
  PROVE  NetworkInv' /\ Tame
<1> DEFINE t == Unlinked(Hash, i)
<1>1. /\ NowHash(t) /\ strikes' = strikes + 1 /\ chans' = Without({i})
      /\ held' = Told([held EXCEPT ![c] = @ \ {cli[i].name}], uplink, {cli[i].name})
      /\ UNCHANGED <<uplink, conn, opers, bursting, servers, links>>
  BY DEF Struck
<1>2. /\ SoundInv /\ Trees(cli, conn) /\ cli \in Tables /\ Hash \in Hashes
      /\ Hash.cli = cli /\ Hash.wild = wild /\ held \in [Conns -> SUBSET Jupable]
      /\ strikes \in Nat
  BY DEF NetworkInv, SoundInv, Trees, Hash
<1>3. t \in Hashes /\ Left(cli, {}, t.cli)
  BY <1>2, UnlinkedFaces
<1>4. Whole(Hash) => ~ t.wild /\ ~ Broken(t)
  <2>1. SUFFICES ASSUME Whole(Hash) PROVE ~ t.wild /\ ~ Broken(t)
    OBVIOUS
  <2>2. PICK q \in Seq(Ids) : Linked(Hash, q) /\ Elements(q) = DOMAIN cli
    BY <1>2, <2>1 DEF Whole
  <2>3. PICK k \in 1 .. Len(q) : q[k] = i
    BY <2>2 DEF Elements
  <2>4. Linked(t, Unlink(q, k)) /\ t.wild = Hash.wild
    BY <1>2, <2>2, <2>3, Finite, LinkedUnlink
  <2>5. ~ Broken(t)
    BY <1>3, <2>4, Finite, WholeIsNotBroken
  <2> QED BY <1>2, <2>4, <2>5
<1> HIDE DEF t
<1>5. Hash' \in Hashes /\ cli' = t.cli /\ (~ wild' => ~ Broken(Hash'))
  BY <1>1, <1>3, NowHashStep
<1>6. cli' \in Tables /\ Left(cli, {}, cli')
  BY <1>3, <1>5 DEF Hash, Hashes
<1>7. DOMAIN cli' = DOMAIN cli /\ \A j \in DOMAIN cli : SameFace(cli[j], cli'[j])
  BY <1>6 DEF Left
<1>8. Trees(cli', conn')
  <2>1. \A j \in DOMAIN cli' : ~ cli[j].jupe => conn[cli[j].from] = "server"
    BY <1>2, <1>7 DEF Trees, Placed
  <2>2. Trees(cli', conn)
    BY <1>2, <1>6, <2>1, TreesLeft
  <2> QED BY <1>1, <2>2
<1>9. CountsAre(cli', bursting', servers', links')
  <2>1. /\ SentOf(cli') = SentOf(cli) /\ ServersOf(cli') = ServersOf(cli)
        /\ LocalsOf(cli') = LocalsOf(cli)
    BY <1>7 DEF SameFace, SentOf, ServersOf, LocalsOf, IsLocalServer
  <2> QED BY <1>1, <1>2, <2>1 DEF SoundInv, CountsAre, SentOf, ServersOf, LocalsOf
<1>10. OpersAre(cli', opers')
  <2>1. {j \in DOMAIN cli' : cli'[j].oper} = {j \in DOMAIN cli : cli[j].oper}
    BY <1>7 DEF SameFace
  <2> QED BY <1>1, <1>2, <2>1 DEF SoundInv, OpersAre
<1>11. MembersAre(cli', chans')
  <2> DEFINE d == [j \in DOMAIN cli \ {i} |-> 0]
  <2>1. MembersAre(d, MembersWithout(chans, {i}))
    BY <1>2, MembersLeft DEF SoundInv
  <2>2. DOMAIN d \subseteq DOMAIN cli'
    BY <1>7
  <2> HIDE DEF d
  <2>3. chans' = MembersWithout(chans, {i})
    BY <1>1 DEF Without, MembersWithout
  <2> QED BY <2>1, <2>2, <2>3, MembersMore
<1>12. UplinkIs(cli', uplink')
  BY <1>1, <1>2, <1>7 DEF SoundInv, UplinkIs, SameFace, IsLocalServer
<1> DEFINE h == [held EXCEPT ![c] = @ \ {cli[i].name}]
<1>13. h \in [Conns -> SUBSET Jupable] /\ {cli[i].name} \in SUBSET Jupable
  BY <1>2 DEF Trees, Placed
<1>14. \A d \in Conns : held[d] \subseteq h[d] \cup {cli[i].name}
  BY <1>2
<1>15. held' = Told(h, uplink, {cli[i].name})
  BY <1>1
<1> HIDE DEF h
<1>16. /\ held' \in [Conns -> SUBSET Jupable]
       /\ uplink # NULL => held[cli[uplink].from] \subseteq held'[cli[uplink].from]
  BY <1>2, <1>13, <1>14, <1>15, ToldIs, UplinkSide
<1>17. strikes' \in Nat /\ strikes' # 0
  BY <1>1, <1>2
<1>18. SoundInv'
  <2>1. uplink' \in Pointers /\ conn' \in [Conns -> {"none", "unknown", "server"}]
    BY <1>1, <1>2 DEF SoundInv
  <2> QED BY <1>5, <1>8, <1>9, <1>10, <1>11, <1>12, <1>16, <1>17, <2>1 DEF SoundInv
<1>19. FoundInv'
  BY <1>17 DEF FoundInv
<1>20. UplinkToldOfJupes'
  <2>1. uplink' # NULL =>
          /\ uplink' = uplink /\ cli'[uplink].from = cli[uplink].from
          /\ \A j \in DOMAIN cli' : cli'[j].jupe =>
               /\ j \in DOMAIN cli /\ SameFace(cli[j], cli'[j])
               /\ cli[j].name \in held[cli[uplink].from] =>
                    cli[j].name \in held'[cli[uplink].from]
    BY <1>1, <1>2, <1>7, <1>16, UplinkSide DEF SameFace
  <2> QED BY <1>17, <2>1, ToldStep
<1>21. Tame
  BY <1>1, <1>4 DEF NowHash, NetworkInv, FoundInv, Tame
<1> QED BY <1>18, <1>19, <1>20, <1>21 DEF NetworkInv

(* Somebody is killed or quits.                                            *)
LEMMA KillStep ==
  ASSUME NetworkInv, NEW c \in Conns, NEW n \in Nicks, Kill(c, n)
  PROVE  NetworkInv' /\ Tame
<1>1. SoundInv /\ Trees(cli, conn) /\ ~ wild /\ held \in [Conns -> SUBSET Jupable]
      /\ ~ Broken(Hash)
  BY DEF NetworkInv, SoundInv, Kill
<1>2. Find(n) \in SUBSET DOMAIN cli /\ \A i \in Find(n) : cli[i].name = n
  BY <1>1, Finite, FoundOnes
<1>3. ASSUME NEW i \in Find(n), cli[i].jupe, Struck(c, i) PROVE NetworkInv' /\ Tame
  BY <1>1, <1>2, <1>3, StruckStep
<1>4. ASSUME NEW i \in Find(n), ~ cli[i].jupe, Freed(Hash, {i}),
             UNCHANGED <<uplink, conn, held, strikes>>
      PROVE  NetworkInv' /\ Tame
  <2>1. i \in DOMAIN cli /\ Placed(cli, conn, i) /\ i \in Ids
    BY <1>1, <1>2, TableFacts DEF Trees
  <2>2. cli[i].kind = "user"
    <3>1. cli[i] \in Client
      BY <1>1, <2>1, TableFacts DEF Trees
    <3>2. cli[i].kind # "server"
      BY <1>2, <2>1, NetworkAssumption DEF Placed
    <3> QED BY <3>1, <3>2 DEF Client
  <2>3. \A j \in DOMAIN cli : cli[j].parent \in {i} => j \in {i}
    BY <1>1, <2>1, <2>2, LeavesAlone
  <2>4. uplink \notin {i}
    BY <1>1, <2>1, <2>2, Finite, UplinkSide
  <2> QED BY <1>1, <1>4, <2>1, <2>3, <2>4, GoneStep
<1>5. ASSUME Find(n) = {}, held' = [held EXCEPT ![c] = @ \ {n}],
             UNCHANGED <<cli, head, uplink, conn, chans, opers, bursting, servers,
                         links, strikes, wild>>
      PROVE  NetworkInv' /\ Tame
  <2>1. Hash' = Hash
    BY <1>5, HashSame
  <2>2. held' \in [Conns -> SUBSET Jupable]
    BY <1>1, <1>5
  <2>3. SoundInv' /\ FoundInv'
    BY <1>1, <1>5, <2>1, <2>2 DEF NetworkInv, SoundInv, FoundInv
  <2>4. UplinkToldOfJupes'
    <3>1. SUFFICES ASSUME uplink # NULL, NEW j \in DOMAIN cli, cli[j].jupe,
                          cli[j].kind = "server" \/ strikes = 0
                   PROVE  cli[j].name \in held'[cli[uplink].from]
      BY <1>1, <1>5 DEF UplinkToldOfJupes, HasJupes, IsServer
    <3>2. cli[j].name \in held[cli[uplink].from]
      BY <1>1, <3>1 DEF NetworkInv, UplinkToldOfJupes, HasJupes, IsServer
    <3>3. cli[j].name # n
      <4>1. CASE strikes = 0
        BY <1>1, <1>5, <4>1, NameIsFree
      <4>2. CASE cli[j].kind = "server"
        BY <1>1, <4>2, NetworkAssumption DEF Trees, Placed
      <4> QED BY <3>1, <4>1, <4>2
    <3> QED BY <1>1, <1>5, <3>1, <3>2, <3>3, UplinkSide
  <2> QED BY <1>1, <1>5, <2>3, <2>4 DEF NetworkInv, Tame
<1> QED BY <1>3, <1>4, <1>5 DEF Kill

(* A server is split off, or a module client with a server's name removed. *)
LEMMA SquitStep ==
  ASSUME NetworkInv, NEW c \in Conns, NEW n \in ServerNames, Squit(c, n)
  PROVE  NetworkInv' /\ Tame
<1>1. PICK i \in DOMAIN cli :
        /\ cli[i].kind = "server"
        /\ IF cli[i].jupe THEN Struck(c, i)
           ELSE IF IsLocal(i) THEN Unplug(cli[i].from)
           ELSE Freed(Hash, Behind(i)) /\ UNCHANGED <<uplink, conn, held, strikes>>
  BY DEF Squit, IsServer
<1>2. SoundInv /\ Trees(cli, conn) /\ ~ wild /\ held \in [Conns -> SUBSET Jupable]
  BY DEF NetworkInv, SoundInv, Squit
<1>3. CASE cli[i].jupe
  BY <1>1, <1>2, <1>3, StruckStep
<1>4. CASE ~ cli[i].jupe /\ IsLocal(i)
  <2>1. cli[i].from \in Conns
    BY <1>2, <1>4 DEF Trees, Placed
  <2> QED BY <1>1, <1>2, <1>4, <2>1, UnplugStep
<1>5. CASE ~ cli[i].jupe /\ ~ IsLocal(i)
  <2> DEFINE D == Behind(i)
  <2>1. /\ D \in SUBSET DOMAIN cli
        /\ \A j \in DOMAIN cli : cli[j].parent \in D => j \in D
        /\ \A j \in D : j = i \/ cli[j].parent # NULL
    BY <1>2, BehindFacts
  <2>2. Freed(Hash, D) /\ UNCHANGED <<uplink, conn, held, strikes>>
    BY <1>1, <1>5
  <2> HIDE DEF D
  <2>3. cli[i].parent # NULL
    BY <1>1, <1>5 DEF IsLocal, IsServer
  <2>4. uplink \notin D
    <3>1. NULL \notin D
      BY <1>2, <2>1, Finite, TableFacts DEF Trees
    <3> QED BY <1>2, <2>1, <2>3, <3>1, UplinkSide
  <2> QED BY <1>2, <2>1, <2>2, <2>4, GoneStep
<1> QED BY <1>3, <1>4, <1>5

(* Only the members of channels are others.                                *)
LEMMA ChansStep ==
  ASSUME NetworkInv, MembersAre(cli, chans'),
         UNCHANGED <<cli, head, uplink, conn, opers, bursting, servers, links, held,
                     strikes, wild>>
  PROVE  NetworkInv'
<1>1. Hash' = Hash
  BY HashSame
<1>2. SoundInv' /\ FoundInv'
  BY <1>1 DEF NetworkInv, SoundInv, FoundInv
<1>3. UplinkToldOfJupes'
  BY DEF NetworkInv, UplinkToldOfJupes, HasJupes, IsServer
<1> QED BY <1>2, <1>3 DEF NetworkInv

(* A user leaves all channels.                                             *)
LEMMA JoinZeroStep ==
  ASSUME NetworkInv, NEW u \in DOMAIN cli, JoinZero(u)
  PROVE  NetworkInv'
<1> DEFINE d == [j \in DOMAIN cli \ {u} |-> 0]
<1>1. MembersAre(cli, chans)
  BY DEF NetworkInv, SoundInv
<1>2. MembersAre(d, MembersWithout(chans, {u})) /\ DOMAIN d \subseteq DOMAIN cli
  BY <1>1, MembersLeft
<1> HIDE DEF d
<1>3. MembersAre(cli, MembersWithout(chans, {u}))
  BY <1>2, MembersMore
<1>4. chans' = MembersWithout(chans, {u})
  BY DEF JoinZero, Without, MembersWithout
<1> QED BY <1>3, <1>4, ChansStep DEF JoinZero

(* Users join a channel.                                                   *)
LEMMA SjoinStep ==
  ASSUME NetworkInv, NEW c \in Conns, NEW ch \in Channels, NEW ns \in SUBSET Nicks,
         Sjoin(c, ch, ns)
  PROVE  NetworkInv'
<1> DEFINE joined == {i \in UNION {Find(n) : n \in ns} : cli[i].from = c}
           before == IF ch \in DOMAIN chans THEN chans[ch] ELSE {}
           m == [k \in DOMAIN chans \cup {ch} |->
                   IF k = ch THEN before \cup joined ELSE chans[k]]
<1>1. SoundInv /\ ~ Broken(Hash) /\ MembersAre(cli, chans)
  BY DEF NetworkInv, SoundInv, Sjoin
<1>2. joined \subseteq DOMAIN cli
  BY <1>1, Finite, FoundOnes
<1>3. before \subseteq DOMAIN cli
  BY <1>1 DEF MembersAre
<1> HIDE DEF joined, before
<1>4. MembersAre(cli, m)
  BY <1>1, <1>2, <1>3 DEF MembersAre
<1>5. chans' = m
  BY DEF Sjoin, joined, before
<1> HIDE DEF m
<1> QED BY <1>4, <1>5, ChansStep DEF Sjoin

(* Members leave a channel.                                                *)
LEMMA KickedStep ==
  ASSUME NetworkInv, NEW ch \in DOMAIN chans, NEW D \in SUBSET chans[ch], Kicked(ch, D)
  PROVE  NetworkInv'
<1> DEFINE left == chans[ch] \ D
<1>1. MembersAre(cli, chans)
  BY DEF NetworkInv, SoundInv
<1>2. chans' = Restrict(chans, DOMAIN chans \ {ch}) \/ chans' = [chans EXCEPT ![ch] = left]
  BY DEF Kicked
<1>3. left \subseteq DOMAIN cli
  BY <1>1 DEF MembersAre
<1> HIDE DEF left
<1>4. MembersAre(cli, chans')
  <2>1. CASE chans' = [chans EXCEPT ![ch] = left]
    BY <1>1, <1>3, <2>1 DEF MembersAre
  <2>2. CASE chans' = Restrict(chans, DOMAIN chans \ {ch})
    BY <1>1, <2>2 DEF MembersAre, Restrict
  <2> QED BY <1>2, <2>1, <2>2
<1> QED BY <1>4, ChansStep DEF Kicked

(* A structure stays where it is and changes its mode or its burst.        *)
LEMMA ChangedStep ==
  ASSUME NetworkInv, ~ wild, NEW u \in DOMAIN cli, NEW r \in Client,
         cli' = [cli EXCEPT ![u] = r],
         r.name = cli[u].name, r.kind = cli[u].kind, r.parent = cli[u].parent,
         r.from = cli[u].from, r.jupe = cli[u].jupe,
         r.hnext = cli[u].hnext, r.hprev = cli[u].hprev,
         r.kind = "user" => r.burst = "no", r.jupe => r.burst = "no",
         UNCHANGED <<head, uplink, conn, chans, held, strikes, wild>>,
         CountsAre(cli', bursting', servers', links'), OpersAre(cli', opers')
  PROVE  NetworkInv'
<1>1. /\ SoundInv /\ Trees(cli, conn) /\ cli \in Tables /\ Hash \in Hashes
      /\ Hash.cli = cli /\ Hash.head = head /\ Hash.wild = wild /\ ~ Broken(Hash)
  BY DEF NetworkInv, SoundInv, Trees, Hash
<1>2. DOMAIN cli \in SUBSET Ids /\ cli \in [DOMAIN cli -> Client]
  BY <1>1, TableFacts
<1>3. cli' \in Tables
  <2>1. cli' \in [DOMAIN cli -> Client]
    BY <1>2
  <2> QED BY <1>2, <2>1, TableIs
<1>4. DOMAIN cli' = DOMAIN cli /\ cli'[u] = r /\ \A j \in DOMAIN cli \ {u} : cli'[j] = cli[j]
  BY <1>2
<1>5. Taken(cli, u, r, cli')
  BY <1>4 DEF Taken, SameFace
<1>6. Hash' = [cli |-> cli', head |-> head, wild |-> wild]
  BY DEF Hash
<1> DEFINE t == [cli |-> cli', head |-> head, wild |-> wild]
<1>7. t.cli = cli' /\ t.head = head /\ t.wild = wild /\ t \in Hashes
  BY <1>1, <1>3 DEF Hashes
<1> HIDE DEF t
<1>8. \A j \in DOMAIN cli : cli'[j].hnext = cli[j].hnext /\ cli'[j].hprev = cli[j].hprev
  BY <1>4
<1>9. /\ t.head = Hash.head /\ DOMAIN t.cli = DOMAIN Hash.cli /\ u \in DOMAIN Hash.cli
       /\ \A j \in DOMAIN Hash.cli : /\ t.cli[j].hnext = Hash.cli[j].hnext
                                     /\ t.cli[j].hprev = Hash.cli[j].hprev
       /\ Taken(Hash.cli, u, r, t.cli)
       /\ r.name = Hash.cli[u].name /\ r.jupe = Hash.cli[u].jupe
  BY <1>1, <1>4, <1>5, <1>7, <1>8
<1>10. ~ Broken(t)
  <2>1. Bucket(Hash) = Bucket(t)
    BY <1>9, Finite, BucketSame
  <2> QED BY <1>1, <1>9, <2>1 DEF Broken
<1>11. Trees(cli', conn')
  <2>1. Placed(cli, conn, u)
    BY <1>1 DEF Trees
  <2>2. Trees(cli', conn)
    BY <1>1, <1>3, <1>5, <2>1, TreesChanged DEF Placed
  <2> QED BY <2>2
<1>12. MembersAre(cli', chans')
  BY <1>1, <1>4, MembersMore DEF SoundInv
<1>13. \A j \in DOMAIN cli :
         /\ cli'[j].name = cli[j].name /\ cli'[j].kind = cli[j].kind
         /\ cli'[j].parent = cli[j].parent /\ cli'[j].from = cli[j].from
         /\ cli'[j].jupe = cli[j].jupe
  BY <1>4
<1>14. UplinkIs(cli', uplink')
  BY <1>1, <1>4, <1>13 DEF SoundInv, UplinkIs, IsLocalServer
<1>15. SoundInv'
  BY <1>1, <1>6, <1>7, <1>10, <1>11, <1>12, <1>14 DEF SoundInv, t
<1>16. FoundInv'
  <2>1. Whole(Hash) => Whole(t)
    BY <1>1, <1>9, WholeTaken
  <2> QED BY <1>6, <2>1 DEF NetworkInv, FoundInv, t
<1>17. UplinkToldOfJupes'
  <2>1. uplink # NULL => uplink \in DOMAIN cli
    BY <1>1, UplinkSide
  <2> QED BY <1>4, <1>13, <2>1 DEF NetworkInv, UplinkToldOfJupes, HasJupes, IsServer
<1> QED BY <1>15, <1>16, <1>17 DEF NetworkInv

(* A user becomes an oper or stops to be one.                              *)
LEMMA UmodeStep ==
  ASSUME NetworkInv, NEW u \in DOMAIN cli, Umode(u)
  PROVE  NetworkInv'
<1>1. /\ ~ wild /\ cli' = [cli EXCEPT ![u].oper = ~ @]
      /\ opers' = (IF cli[u].oper THEN Keep(opers, Elements(opers) \ {u})
                   ELSE PushFront(u, opers))
      /\ UNCHANGED <<head, uplink, conn, chans, bursting, servers, links, held,
                     strikes, wild>>
  BY DEF Umode, OpersWithout
<1>2. /\ SoundInv /\ Trees(cli, conn) /\ cli \in Tables /\ cli[u] \in Client
      /\ OpersAre(cli, opers) /\ CountsAre(cli, bursting, servers, links)
  BY TableFacts DEF NetworkInv, SoundInv, Trees
<1> DEFINE r == [cli[u] EXCEPT !.oper = ~ @]
<1>3. /\ r \in Client /\ r.name = cli[u].name /\ r.kind = cli[u].kind
      /\ r.parent = cli[u].parent /\ r.from = cli[u].from /\ r.jupe = cli[u].jupe
      /\ r.hnext = cli[u].hnext /\ r.hprev = cli[u].hprev /\ r.burst = cli[u].burst
      /\ r.oper = ~ cli[u].oper
  BY <1>2 DEF Client
<1>4. cli' = [cli EXCEPT ![u] = r]
  BY <1>1
<1> HIDE DEF r
<1>5. Taken(cli, u, r, cli')
  <2>1. cli \in [DOMAIN cli -> Client]
    BY <1>2, TableFacts
  <2> QED BY <1>4, <2>1 DEF Taken, SameFace
<1>6. OpersAre(cli', opers')
  BY <1>1, <1>2, <1>3, <1>5, OpersToggled
<1>7. CountsAre(cli', bursting', servers', links')
  BY <1>1, <1>2, <1>3, <1>5, CountsChanged
<1>8. (r.kind = "user" => r.burst = "no") /\ (r.jupe => r.burst = "no")
  BY <1>2, <1>3 DEF Trees, Placed
<1> QED BY <1>1, <1>3, <1>4, <1>6, <1>7, <1>8, ChangedStep

(* A server ends its burst.                                                *)
LEMMA PongStep ==
  ASSUME NetworkInv, NEW i \in DOMAIN cli, Pong(i)
  PROVE  NetworkInv'
<1>1. /\ ~ wild /\ cli' = [cli EXCEPT ![i].burst = "got"] /\ cli[i].burst = "sent"
      /\ bursting' = bursting - 1
      /\ UNCHANGED <<head, uplink, conn, chans, opers, servers, links, held,
                     strikes, wild>>
  BY DEF Pong
<1>2. /\ SoundInv /\ Trees(cli, conn) /\ cli \in Tables /\ cli[i] \in Client
      /\ OpersAre(cli, opers) /\ CountsAre(cli, bursting, servers, links)
  BY TableFacts DEF NetworkInv, SoundInv, Trees
<1> DEFINE r == [cli[i] EXCEPT !.burst = "got"]
<1>3. /\ r \in Client /\ r.name = cli[i].name /\ r.kind = cli[i].kind
      /\ r.parent = cli[i].parent /\ r.from = cli[i].from /\ r.jupe = cli[i].jupe
      /\ r.hnext = cli[i].hnext /\ r.hprev = cli[i].hprev /\ r.burst = "got"
      /\ r.oper = cli[i].oper
  BY <1>2 DEF Client
<1>4. cli' = [cli EXCEPT ![i] = r]
  BY <1>1
<1> HIDE DEF r
<1>5. Taken(cli, i, r, cli')
  <2>1. cli \in [DOMAIN cli -> Client]
    BY <1>2, TableFacts
  <2> QED BY <1>4, <2>1 DEF Taken, SameFace
<1>6. OpersAre(cli', opers')
  BY <1>1, <1>2, <1>3, <1>5, OpersChanged
<1>7. CountsAre(cli', bursting', servers', links')
  <2>1. IsFiniteSet(DOMAIN cli)
    BY <1>2, Finite, TableFacts, FS_Subset
  <2>2. CountsAre(cli', bursting - 1, servers, links)
    BY <1>1, <1>2, <1>3, <1>5, <2>1, CountsPong
  <2> QED BY <1>1, <2>2
<1>8. r.kind # "user" /\ ~ r.jupe
  BY <1>1, <1>2, <1>3 DEF Trees, Placed
<1> QED BY <1>1, <1>3, <1>4, <1>6, <1>7, <1>8, ChangedStep

(* A module client is introduced.                                          *)
LEMMA AddJupeStep ==
  ASSUME NetworkInv, NEW n \in Jupable, NEW o \in BOOLEAN, AddJupe(n, o)
  PROVE  NetworkInv' /\ Tame
<1> DEFINE r == [name |-> n, kind |-> IF n \in ServerNames THEN "server" ELSE "user",
                 parent |-> NULL, from |-> NULL, jupe |-> TRUE, oper |-> o, burst |-> "no",
                 hnext |-> NULL, hprev |-> NULL]
<1>1. /\ ~ wild /\ \A j \in HasJupes : cli[j].name # n
      /\ held' = Told(held, uplink, {n})
      /\ servers' = IF n \in ServerNames THEN servers + 1 ELSE servers
      /\ UNCHANGED <<uplink, conn, chans, bursting, links, strikes>>
  BY DEF AddJupe
<1>2. PICK i \in Ids \ DOMAIN cli :
        /\ NowHash(Pushed(Hash, i, r))
        /\ opers' = IF o THEN PushFront(i, opers) ELSE opers
  BY DEF AddJupe
<1>3. /\ SoundInv /\ Trees(cli, conn) /\ cli \in Tables /\ Hash \in Hashes
      /\ Hash.cli = cli /\ Hash.wild = wild /\ held \in [Conns -> SUBSET Jupable]
  BY DEF NetworkInv, SoundInv, Trees, Hash
<1>4. n \in ServerNames \cup Nicks /\ {n} \in SUBSET Jupable
  BY NetworkAssumption
<1>5. /\ r \in Client /\ r.name = n /\ r.parent = NULL /\ r.jupe /\ r.oper = o
      /\ r.burst = "no" /\ ~ IsLocalServer(r)
      /\ r.kind = IF n \in ServerNames THEN "server" ELSE "user"
  BY <1>4 DEF Client, Pointers, IsLocalServer
<1>6. i \in Ids \ DOMAIN Hash.cli
  BY <1>2, <1>3
<1> HIDE DEF r
<1>7. /\ Hash' \in Hashes /\ Taken(cli, i, r, cli') /\ (~ wild' => ~ Broken(Hash'))
      /\ Whole(Hash) => ~ wild' /\ Whole(Hash')
  <2>1. /\ Hash' \in Hashes /\ Taken(Hash.cli, i, r, cli') /\ (~ wild' => ~ Broken(Hash'))
        /\ Whole(Hash) /\ ~ Hash.wild
              /\ (~ r.jupe => \A j \in DOMAIN Hash.cli : Hash.cli[j].name # r.name)
            => ~ wild' /\ Whole(Hash')
    BY <1>2, <1>3, <1>5, <1>6, PushedNow
  <2> QED BY <1>1, <1>3, <1>5, <2>1
<1>8. cli' \in Tables
  BY <1>7 DEF Hash, Hashes
<1>9. Trees(cli', conn')
  <2>1. \A j \in DOMAIN cli : ~ cli[j].jupe => conn[cli[j].from] = "server"
    BY <1>3 DEF Trees, Placed
  <2>2. \A j \in DOMAIN cli : cli[j].jupe => cli[j].name # r.name
    BY <1>1, <1>5 DEF HasJupes
  <2>3. r.name \in (IF r.kind = "server" THEN ServerNames ELSE Nicks)
    BY <1>4, <1>5
  <2>4. Trees(cli', conn)
    BY <1>2, <1>3, <1>5, <1>7, <1>8, <2>1, <2>2, <2>3, TreesNew
  <2> QED BY <1>1, <2>4
<1>10. CountsAre(cli', bursting', servers', links')
  <2>1. IsFiniteSet(DOMAIN cli)
    BY <1>3, Finite, TableFacts, FS_Subset
  <2>2. CountsAre(cli, bursting, servers, links)
    BY <1>3 DEF SoundInv
  <2>3. CountsAre(cli', IF r.burst = "sent" THEN bursting + 1 ELSE bursting,
                     IF r.kind = "server" THEN servers + 1 ELSE servers,
                     IF IsLocalServer(r) THEN links + 1 ELSE links)
    BY <1>2, <1>7, <2>1, <2>2, CountsNew
  <2> QED BY <1>1, <1>5, <2>3
<1>11. OpersAre(cli', opers')
  <2>1. OpersAre(cli', IF r.oper THEN PushFront(i, opers) ELSE opers)
    BY <1>2, <1>3, <1>5, <1>7, OpersNew DEF SoundInv
  <2> QED BY <1>2, <1>5, <2>1
<1>12. MembersAre(cli', chans')
  BY <1>1, <1>3, <1>7, MembersMore DEF SoundInv, Taken
<1>13. \A j \in DOMAIN cli : j \in DOMAIN cli' /\ SameFace(cli[j], cli'[j])
  BY <1>2, <1>7 DEF Taken
<1>14. UplinkIs(cli', uplink')
  BY <1>1, <1>3, <1>13 DEF SoundInv, UplinkIs, SameFace, IsLocalServer
<1>15. /\ held' \in [Conns -> SUBSET Jupable]
       /\ uplink # NULL => held'[cli[uplink].from] = held[cli[uplink].from] \cup {n}
  BY <1>1, <1>3, <1>4, ToldIs
<1>16. SoundInv'
  BY <1>1, <1>3, <1>7, <1>9, <1>10, <1>11, <1>12, <1>14, <1>15 DEF SoundInv
<1>17. FoundInv' /\ Tame
  BY <1>1, <1>7 DEF NetworkInv, FoundInv, Tame
<1>18. UplinkToldOfJupes'
  <2>1. SUFFICES ASSUME uplink # NULL, NEW j \in DOMAIN cli', cli'[j].jupe,
                        cli'[j].kind = "server" \/ strikes = 0
                 PROVE  cli'[j].name \in held'[cli'[uplink].from]
    BY <1>1 DEF UplinkToldOfJupes, HasJupes, IsServer
  <2>2. uplink \in DOMAIN cli /\ cli'[uplink].from = cli[uplink].from
    BY <1>3, <1>13, <2>1, UplinkSide DEF SameFace
  <2>3. CASE j = i
    BY <1>5, <1>7, <1>15, <2>1, <2>2, <2>3 DEF Taken, SameFace
  <2>4. CASE j # i
    <3>1. j \in DOMAIN cli /\ SameFace(cli[j], cli'[j])
      BY <1>7, <1>13, <2>4 DEF Taken
    <3>2. cli[j].name \in held[cli[uplink].from]
      BY <1>1, <2>1, <3>1 DEF NetworkInv, UplinkToldOfJupes, HasJupes, IsServer, SameFace
    <3> QED BY <1>15, <2>1, <2>2, <3>1, <3>2 DEF SameFace
  <2> QED BY <2>3, <2>4
<1> QED BY <1>16, <1>17, <1>18 DEF NetworkInv

(* Who starts again starts as at first.                                    *)
LEMMA RestartStep == Restart => NetworkInv'
<1>1. Restart => NetworkInit'
  BY DEF Restart, NetworkInit
<1>2. NetworkInit' => NetworkInv'
  BY InitIsSound, PTL
<1> QED BY <1>1, <1>2

(* Who holds a nick is a user, or the module client that is juped so.      *)
LEMMA FoundUsers ==
  ASSUME NetworkInv, ~ wild, NEW n \in Nicks
  PROVE  /\ Find(n) \in SUBSET DOMAIN cli
         /\ \A i \in Find(n) : /\ cli[i].name = n
                               /\ cli[i].kind = "user" /\ cli[i].burst = "no"
<1>1. Trees(cli, conn) /\ ~ Broken(Hash)
  BY DEF NetworkInv, SoundInv
<1>2. Find(n) \in SUBSET DOMAIN cli /\ \A i \in Find(n) : cli[i].name = n
  BY <1>1, Finite, FoundOnes
<1>3. ASSUME NEW i \in Find(n) PROVE cli[i].kind = "user" /\ cli[i].burst = "no"
  <2>1. cli[i] \in Client /\ Placed(cli, conn, i)
    BY <1>1, <1>2, TableFacts DEF Trees
  <2>2. cli[i].kind # "server"
    BY <1>2, <2>1, NetworkAssumption DEF Placed
  <2> QED BY <2>1, <2>2 DEF Client, Placed
<1> QED BY <1>2, <1>3

(* When the user who holds a nick is gone, nobody has it.                  *)
LEMMA NickIsFreed ==
  ASSUME NetworkInv, ~ wild, strikes = 0, NEW n, NEW D, D = Find(n), D \cap HasJupes = {}
  PROVE  /\ Whole(FreedFrom(Hash, D)) /\ FreedFrom(Hash, D).wild = wild
         /\ \A j \in DOMAIN cli \ D : cli[j].name # n
<1>1. Whole(Hash) /\ Hash \in Hashes /\ Hash.cli = cli /\ Hash.wild = wild
  BY DEF NetworkInv, SoundInv, FoundInv, Hash
<1>2. PICK q \in Seq(Ids) : Linked(Hash, q) /\ Elements(q) = DOMAIN cli /\ NamesAre(cli, q)
  BY <1>1 DEF Whole
<1>3. /\ D \in SUBSET DOMAIN cli
      /\ D = {} => \A j \in DOMAIN cli : cli[j].name # n
      /\ \A k \in D : ~ cli[k].jupe => \A j \in DOMAIN cli : cli[j].name = n => j = k
  BY <1>1, <1>2, Finite, FoundAll
<1>4. \A j \in DOMAIN cli \ D : cli[j].name # n
  BY <1>3 DEF HasJupes
<1>5. Whole(FreedFrom(Hash, D)) /\ FreedFrom(Hash, D).wild = wild
  BY <1>1, <1>3, Finite, WholeFreed
<1> QED BY <1>4, <1>5

(* A nick that a module client keeps is sent to the uplink again.          *)
LEMMA NickKept ==
  ASSUME NetworkInv, ~ wild, NEW n \in Nicks, Find(n) \cap HasJupes # {}, NEW c \in Conns,
         held' = Told([held EXCEPT ![c] = @ \ {n}], uplink, {n})
  PROVE  /\ held' \in [Conns -> SUBSET Jupable]
         /\ uplink # NULL => held[cli[uplink].from] \subseteq held'[cli[uplink].from]
<1> DEFINE h == [held EXCEPT ![c] = @ \ {n}]
<1>1. SoundInv /\ Trees(cli, conn) /\ held \in [Conns -> SUBSET Jupable]
  BY DEF NetworkInv, SoundInv
<1>2. h \in [Conns -> SUBSET Jupable] /\ \A d \in Conns : held[d] \subseteq h[d] \cup {n}
  BY <1>1
<1>3. held' = Told(h, uplink, {n})
  OBVIOUS
<1> HIDE DEF h
<1>4. {n} \in SUBSET Jupable
  BY <1>1, FoundUsers DEF Trees, Placed, HasJupes
<1>5. /\ held' \in [Conns -> SUBSET Jupable]
      /\ uplink # NULL => held'[cli[uplink].from] = h[cli[uplink].from] \cup {n}
  <2>1. /\ Told(h, uplink, {n}) \in [Conns -> SUBSET Jupable]
        /\ uplink # NULL =>
             Told(h, uplink, {n})[cli[uplink].from] = h[cli[uplink].from] \cup {n}
    BY <1>1, <1>2, <1>4, ToldIs
  <2> QED BY <1>3, <2>1
<1>6. uplink # NULL => held[cli[uplink].from] \subseteq h[cli[uplink].from] \cup {n}
  BY <1>1, <1>2, UplinkSide
<1> QED BY <1>5, <1>6

(* Somebody new has a nick, or a module client keeps it.                   *)
LEMMA NewNickStep ==
  ASSUME NetworkInv, NEW p \in DOMAIN cli, NEW n \in Nicks, NEW o \in BOOLEAN,
         NewNick(p, n, o)
  PROVE  NetworkInv' /\ Tame
<1> DEFINE r == [name |-> n, kind |-> "user", parent |-> p, from |-> cli[p].from,
                 jupe |-> FALSE, oper |-> o, burst |-> "no",
                 hnext |-> NULL, hprev |-> NULL]
           D == Find(n)
           left == FreedFrom(Hash, D)
<1>1. /\ ~ wild /\ cli[p].kind = "server" /\ ~ cli[p].jupe
      /\ UNCHANGED <<uplink, conn, bursting, servers, links, strikes>>
      /\ IF D \cap HasJupes # {}
         THEN /\ held' = Told([held EXCEPT ![cli[p].from] = @ \ {n}], uplink, {n})
              /\ UNCHANGED <<cli, head, chans, opers, wild>>
         ELSE \E i \in Ids \ DOMAIN left.cli :
                /\ NowHash(Pushed(left, i, r))
                /\ chans' = Without(D)
                /\ opers' = (IF o THEN PushFront(i, OpersWithout(D)) ELSE OpersWithout(D))
                /\ UNCHANGED held
  BY DEF NewNick, IsServer
<1>2. /\ SoundInv /\ Trees(cli, conn) /\ cli \in Tables /\ Hash \in Hashes
      /\ Hash.cli = cli /\ Hash.wild = wild /\ held \in [Conns -> SUBSET Jupable]
      /\ ~ Broken(Hash)
  BY <1>1 DEF NetworkInv, SoundInv, Trees, Hash
<1>3. cli[p].from \in Conns /\ conn[cli[p].from] = "server" /\ p \in Ids
  BY <1>1, <1>2, TableFacts DEF Trees, Placed
<1>4. D \in SUBSET DOMAIN cli
  BY <1>1, FoundUsers
<1>5. \A i \in D : cli[i].kind = "user" /\ cli[i].burst = "no"
  BY <1>1, FoundUsers
<1>6. CASE D \cap HasJupes # {}
  <2>1. UNCHANGED <<cli, head, chans, opers, wild>>
    BY <1>1, <1>6
  <2>2. /\ held' \in [Conns -> SUBSET Jupable]
        /\ uplink # NULL => held[cli[uplink].from] \subseteq held'[cli[uplink].from]
    BY <1>1, <1>3, <1>6, NickKept
  <2> HIDE DEF D
  <2>3. Hash' = Hash
    BY <2>1, HashSame
  <2>4. SoundInv' /\ FoundInv'
    BY <1>1, <2>1, <2>2, <2>3 DEF NetworkInv, SoundInv, FoundInv
  <2>5. UplinkToldOfJupes'
    BY <1>1, <2>1, <2>2 DEF NetworkInv, UplinkToldOfJupes, HasJupes, IsServer
  <2> QED BY <1>1, <2>1, <2>4, <2>5 DEF NetworkInv, Tame
<1>7. CASE D \cap HasJupes = {}
  <2>1. PICK i \in Ids \ DOMAIN left.cli :
          /\ NowHash(Pushed(left, i, r))
          /\ opers' = IF o THEN PushFront(i, OpersWithout(D)) ELSE OpersWithout(D)
    BY <1>1, <1>7
  <2>2. chans' = MembersWithout(chans, D) /\ held' = held
    BY <1>1, <1>7 DEF Without, MembersWithout
  <2>3. /\ r \in Client /\ r.name = n /\ r.kind = "user" /\ r.parent = p
        /\ r.from = cli[p].from /\ ~ r.jupe /\ r.oper = o /\ r.burst = "no"
        /\ ~ IsLocalServer(r) /\ p # NULL
    BY <1>3, Finite DEF Client, Pointers, IsLocalServer
  <2> HIDE DEF r
  <2>4. left \in Hashes /\ Left(cli, D, left.cli)
    BY <1>2, <1>4, Finite, FreedFaces
  <2>5. strikes = 0 => /\ Whole(left) /\ left.wild = wild
                       /\ \A j \in DOMAIN cli \ D : cli[j].name # n
    BY <1>1, <1>7, NickIsFreed
  <2>6. OpersWithout(D) = Keep(opers, Elements(opers) \ D)
    BY DEF OpersWithout
  <2> HIDE DEF D, left
  <2>7. /\ Hash' \in Hashes /\ Taken(left.cli, i, r, cli') /\ (~ wild' => ~ Broken(Hash'))
        /\ Whole(left) /\ ~ left.wild
              /\ (~ r.jupe => \A j \in DOMAIN left.cli : left.cli[j].name # r.name)
            => ~ wild' /\ Whole(Hash')
    BY <2>1, <2>3, <2>4, PushedNow
  <2>8. cli' \in Tables /\ left.cli \in Tables
    BY <2>4, <2>7 DEF Hash, Hashes
  <2>9. \A j \in DOMAIN left.cli : j \in DOMAIN cli \ D /\ SameFace(cli[j], left.cli[j])
    BY <2>4 DEF Left
  <2>10. \A j \in DOMAIN cli : ~ cli[j].jupe => conn[cli[j].from] = "server"
    BY <1>2 DEF Trees, Placed
  <2>11. Trees(left.cli, conn)
    <3>1. \A j \in DOMAIN cli : cli[j].parent \in D => j \in D
      BY <1>2, <1>4, <1>5, LeavesAlone
    <3>2. \A j \in DOMAIN left.cli : ~ cli[j].jupe => conn[cli[j].from] = "server"
      BY <2>9, <2>10
    <3> QED BY <1>2, <1>4, <2>4, <2>8, <3>1, <3>2, TreesLeft
  <2>12. p \in DOMAIN left.cli /\ SameFace(cli[p], left.cli[p])
    BY <1>1, <1>5, <2>4 DEF Left
  <2>13. Trees(cli', conn')
    <3>1. \A j \in DOMAIN left.cli : ~ left.cli[j].jupe => conn[left.cli[j].from] = "server"
      BY <2>9, <2>10 DEF SameFace
    <3>2. left.cli[p].kind = "server" /\ ~ left.cli[p].jupe /\ left.cli[p].from = r.from
      BY <1>1, <2>3, <2>12 DEF SameFace
    <3>3. r.name \in (IF r.kind = "server" THEN ServerNames ELSE Nicks)
      BY <2>3
    <3>4. Trees(cli', conn)
      BY <1>3, <2>1, <2>3, <2>7, <2>8, <2>11, <2>12, <3>1, <3>2, <3>3, TreesNew
    <3> QED BY <1>1, <3>4
  <2>14. CountsAre(cli', bursting', servers', links')
    <3>1. /\ SentOf(cli') = SentOf(cli) /\ ServersOf(cli') = ServersOf(cli)
          /\ LocalsOf(cli') = LocalsOf(cli)
      <4>1. DOMAIN cli' = (DOMAIN cli \ D) \cup {i} /\ i \notin DOMAIN cli \ D
        BY <2>1, <2>4, <2>7 DEF Left, Taken
      <4>2. /\ cli'[i].burst = "no" /\ cli'[i].kind = "user"
            /\ \A j \in DOMAIN cli \ D :
                 /\ cli'[j].burst = cli[j].burst /\ cli'[j].kind = cli[j].kind
                 /\ cli'[j].parent = cli[j].parent /\ cli'[j].jupe = cli[j].jupe
        BY <2>3, <2>4, <2>7, <4>1 DEF Left, Taken, SameFace
      <4> QED BY <1>4, <1>5, <4>1, <4>2 DEF SentOf, ServersOf, LocalsOf, IsLocalServer
    <3> QED BY <1>1, <1>2, <3>1 DEF SoundInv, CountsAre, SentOf, ServersOf, LocalsOf
  <2>15. OpersAre(cli', opers')
    <3> DEFINE k == Keep(opers, Elements(opers) \ D)
    <3>1. OpersAre(left.cli, k)
      BY <1>2, <2>4, OpersLeft DEF SoundInv
    <3> HIDE DEF k
    <3>2. OpersAre(cli', IF r.oper THEN PushFront(i, k) ELSE k)
      BY <2>1, <2>3, <2>7, <3>1, OpersNew
    <3> QED BY <2>1, <2>3, <2>6, <3>2 DEF k
  <2>16. MembersAre(cli', chans')
    <3>1. MembersAre(left.cli, MembersWithout(chans, D))
      BY <1>2, <2>4, MembersLeft DEF SoundInv, Left
    <3> QED BY <2>2, <2>7, <3>1, MembersMore DEF Taken
  <2>17. uplink # NULL => uplink \in DOMAIN cli' /\ SameFace(cli[uplink], cli'[uplink])
    <3>1. SUFFICES ASSUME uplink # NULL
                   PROVE  uplink \in DOMAIN cli' /\ SameFace(cli[uplink], cli'[uplink])
      OBVIOUS
    <3>2. uplink \in DOMAIN left.cli /\ SameFace(cli[uplink], left.cli[uplink])
      BY <1>2, <1>5, <2>4, <3>1, UplinkSide DEF Left
    <3> QED BY <2>1, <2>7, <3>2 DEF Taken, SameFace
  <2>18. UplinkIs(cli', uplink')
    BY <1>1, <1>2, <2>17 DEF SoundInv, UplinkIs, SameFace, IsLocalServer
  <2>19. SoundInv'
    BY <1>1, <1>2, <2>2, <2>7, <2>13, <2>14, <2>15, <2>16, <2>18 DEF SoundInv
  <2>20. FoundInv' /\ Tame
    <3>1. strikes = 0 => \A j \in DOMAIN left.cli : left.cli[j].name # r.name
      BY <2>3, <2>5, <2>9 DEF SameFace
    <3> QED BY <1>1, <2>5, <2>7, <3>1 DEF FoundInv, Tame
  <2>21. UplinkToldOfJupes'
    <3>1. \A j \in DOMAIN cli' : cli'[j].jupe => j \in DOMAIN cli /\ SameFace(cli[j], cli'[j])
      <4>1. SUFFICES ASSUME NEW j \in DOMAIN cli', cli'[j].jupe
                     PROVE  j \in DOMAIN cli /\ SameFace(cli[j], cli'[j])
        OBVIOUS
      <4>2. j # i
        BY <2>3, <2>7, <4>1 DEF Taken, SameFace
      <4>3. j \in DOMAIN left.cli /\ SameFace(left.cli[j], cli'[j])
        BY <2>7, <4>2 DEF Taken
      <4> QED BY <2>9, <4>3 DEF SameFace
    <3>2. uplink' # NULL =>
            /\ uplink' = uplink /\ cli'[uplink].from = cli[uplink].from
            /\ \A j \in DOMAIN cli' : cli'[j].jupe =>
                 /\ j \in DOMAIN cli /\ SameFace(cli[j], cli'[j])
                 /\ cli[j].name \in held[cli[uplink].from] =>
                      cli[j].name \in held'[cli[uplink].from]
      BY <1>1, <2>2, <2>17, <3>1 DEF SameFace
    <3> QED BY <1>1, <3>2, ToldStep
  <2> QED BY <2>19, <2>20, <2>21 DEF NetworkInv
<1> QED BY <1>6, <1>7

(* A user takes another nick, loses its own, or is used after it is freed. *)
LEMMA ChangeNickStep ==
  ASSUME NetworkInv, NEW u \in DOMAIN cli, NEW n \in Nicks, ChangeNick(u, n)
  PROVE  NetworkInv' /\ (Find(n) = {} => Tame)
<1> DEFINE r == [cli[u] EXCEPT !.name = n]
           D == Find(n)
           left == FreedFrom(Hash, D)
           both == FreedFrom(left, {u})
<1>1. /\ ~ wild /\ cli[u].kind # "server" /\ ~ cli[u].jupe /\ n # cli[u].name
      /\ UNCHANGED <<uplink, conn, strikes>>
  BY DEF ChangeNick, Speaks, IsServer
<1>2. /\ SoundInv /\ Trees(cli, conn) /\ cli \in Tables /\ Hash \in Hashes
      /\ Hash.cli = cli /\ Hash.wild = wild /\ held \in [Conns -> SUBSET Jupable]
      /\ ~ Broken(Hash)
  BY <1>1 DEF NetworkInv, SoundInv, Trees, Hash
<1>3. u \in Ids /\ cli[u] \in Client /\ Placed(cli, conn, u)
  BY <1>2, TableFacts DEF Trees
<1>4. cli[u].kind = "user" /\ cli[u].burst = "no" /\ cli[u].from \in Conns
  BY <1>1, <1>3 DEF Client, Placed
<1>5. D \in SUBSET DOMAIN cli /\ u \notin D
  BY <1>1, FoundUsers
<1>6. \A i \in D : cli[i].kind = "user" /\ cli[i].burst = "no"
  BY <1>1, FoundUsers
<1>7. ASSUME D \cap HasJupes = {}, NowHash(Pushed(both, u, r)),
             chans' = Without(D), opers' = OpersWithout(D),
             UNCHANGED <<bursting, servers, links, held>>
      PROVE  NetworkInv' /\ Tame
  <2>1. chans' = MembersWithout(chans, D) /\ opers' = Keep(opers, Elements(opers) \ D)
    BY <1>7 DEF Without, MembersWithout, OpersWithout
  <2>2. /\ r \in Client /\ r.name = n /\ r.kind = "user" /\ r.parent = cli[u].parent
        /\ r.from = cli[u].from /\ r.jupe = cli[u].jupe /\ ~ r.jupe
        /\ r.oper = cli[u].oper /\ r.burst = "no"
    BY <1>1, <1>3, <1>4 DEF Client
  <2> HIDE DEF r
  <2>3. strikes = 0 => /\ Whole(left) /\ left.wild = wild
                       /\ \A j \in DOMAIN cli \ D : cli[j].name # n
    BY <1>1, <1>7, NickIsFreed
  <2> HIDE DEF D
  <2>4. left \in Hashes /\ Left(cli, D, left.cli)
    BY <1>2, <1>5, Finite, FreedFaces
  <2> HIDE DEF left
  <2>5. u \in DOMAIN left.cli
    BY <1>5, <2>4 DEF Left
  <2>6. both \in Hashes /\ Left(left.cli, {u}, both.cli)
    BY <2>4, <2>5, Finite, FreedFaces
  <2>7. Whole(left) => both.wild = left.wild /\ Whole(both)
    BY <2>4, <2>5, Finite, WholeFreed
  <2> HIDE DEF both
  <2>8. u \in Ids \ DOMAIN both.cli
    BY <1>3, <2>6 DEF Left
  <2>9. /\ Hash' \in Hashes /\ Taken(both.cli, u, r, cli') /\ (~ wild' => ~ Broken(Hash'))
        /\ Whole(both) /\ ~ both.wild
              /\ (~ r.jupe => \A j \in DOMAIN both.cli : both.cli[j].name # r.name)
            => ~ wild' /\ Whole(Hash')
    BY <1>7, <2>2, <2>6, <2>8, PushedNow
  <2>10. cli' \in Tables /\ left.cli \in Tables
    BY <2>4, <2>9 DEF Hash, Hashes
  <2>11. /\ DOMAIN left.cli = DOMAIN cli \ D
         /\ \A j \in DOMAIN left.cli : j \in DOMAIN cli /\ SameFace(cli[j], left.cli[j])
    BY <2>4 DEF Left
  <2>12. /\ DOMAIN both.cli = DOMAIN left.cli \ {u}
         /\ \A j \in DOMAIN both.cli : SameFace(left.cli[j], both.cli[j])
    BY <2>6 DEF Left
  <2>13. Taken(left.cli, u, r, cli')
    <3>1. DOMAIN cli' = DOMAIN left.cli \cup {u} /\ SameFace(r, cli'[u])
      BY <2>9, <2>12 DEF Taken
    <3>2. \A j \in DOMAIN left.cli \ {u} : SameFace(both.cli[j], cli'[j])
      BY <2>9, <2>12 DEF Taken
    <3>3. \A j \in DOMAIN left.cli \ {u} : SameFace(left.cli[j], cli'[j])
      BY <2>12, <3>2 DEF SameFace
    <3> QED BY <3>1, <3>3 DEF Taken
  <2>14. \A j \in DOMAIN cli : ~ cli[j].jupe => conn[cli[j].from] = "server"
    BY <1>2 DEF Trees, Placed
  <2>15. Trees(left.cli, conn)
    <3>1. \A j \in DOMAIN cli : cli[j].parent \in D => j \in D
      BY <1>2, <1>5, <1>6, LeavesAlone
    <3>2. \A j \in DOMAIN left.cli : ~ cli[j].jupe => conn[cli[j].from] = "server"
      BY <2>11, <2>14
    <3> QED BY <1>2, <1>5, <2>4, <2>10, <3>1, <3>2, TreesLeft
  <2>16. Trees(cli', conn')
    <3>1. SameFace(cli[u], left.cli[u])
      BY <2>5, <2>11
    <3>2. /\ r.kind = left.cli[u].kind /\ r.parent = left.cli[u].parent
          /\ r.from = left.cli[u].from /\ r.jupe = left.cli[u].jupe
      BY <1>1, <1>4, <2>2, <3>1 DEF SameFace
    <3>3. r.name \in (IF r.kind = "server" THEN ServerNames ELSE Nicks)
      BY <2>2
    <3>4. Trees(cli', conn)
      BY <2>2, <2>5, <2>10, <2>13, <2>15, <3>2, <3>3, TreesChanged
    <3> QED BY <1>1, <3>4
  <2>17. CountsAre(cli', bursting', servers', links')
    <3>1. /\ SentOf(cli') = SentOf(cli) /\ ServersOf(cli') = ServersOf(cli)
          /\ LocalsOf(cli') = LocalsOf(cli)
      <4>1. DOMAIN cli' = DOMAIN cli \ D
        BY <2>5, <2>11, <2>13 DEF Taken
      <4>2. /\ cli'[u].burst = "no" /\ cli'[u].kind = "user"
            /\ \A j \in DOMAIN cli' \ {u} :
                 /\ cli'[j].burst = cli[j].burst /\ cli'[j].kind = cli[j].kind
                 /\ cli'[j].parent = cli[j].parent /\ cli'[j].jupe = cli[j].jupe
        BY <2>2, <2>11, <2>13, <4>1 DEF Taken, SameFace
      <4> QED BY <1>4, <1>5, <1>6, <4>1, <4>2 DEF SentOf, ServersOf, LocalsOf, IsLocalServer
    <3> QED BY <1>2, <1>7, <3>1 DEF SoundInv, CountsAre, SentOf, ServersOf, LocalsOf
  <2>18. OpersAre(cli', opers')
    <3>1. OpersAre(left.cli, opers')
      BY <1>2, <2>1, <2>4, OpersLeft DEF SoundInv
    <3>2. r.oper = left.cli[u].oper
      BY <2>2, <2>5, <2>11 DEF SameFace
    <3> QED BY <2>5, <2>13, <3>1, <3>2, OpersChanged
  <2>19. MembersAre(cli', chans')
    <3>1. MembersAre(left.cli, chans')
      BY <1>2, <2>1, <2>11, MembersLeft DEF SoundInv
    <3> QED BY <2>13, <3>1, MembersMore DEF Taken
  <2>20. uplink # NULL => uplink \in DOMAIN cli' /\ SameFace(cli[uplink], cli'[uplink])
    <3>1. SUFFICES ASSUME uplink # NULL
                   PROVE  uplink \in DOMAIN cli' /\ SameFace(cli[uplink], cli'[uplink])
      OBVIOUS
    <3>2. uplink \in DOMAIN left.cli /\ SameFace(cli[uplink], left.cli[uplink]) /\ uplink # u
      BY <1>1, <1>2, <1>6, <2>11, <3>1, UplinkSide
    <3> QED BY <2>13, <3>2 DEF Taken, SameFace
  <2>21. UplinkIs(cli', uplink')
    BY <1>1, <1>2, <2>20 DEF SoundInv, UplinkIs, SameFace, IsLocalServer
  <2>22. SoundInv'
    BY <1>1, <1>2, <1>7, <2>9, <2>16, <2>17, <2>18, <2>19, <2>21 DEF SoundInv
  <2>23. FoundInv' /\ Tame
    <3>1. ASSUME strikes = 0, NEW j \in DOMAIN both.cli PROVE both.cli[j].name # r.name
      <4>1. j \in DOMAIN left.cli /\ SameFace(left.cli[j], both.cli[j])
        BY <2>12
      <4>2. j \in DOMAIN cli \ D /\ SameFace(cli[j], left.cli[j])
        BY <2>11, <4>1
      <4>3. cli[j].name # n
        BY <2>3, <3>1, <4>2
      <4> QED BY <2>2, <4>1, <4>2, <4>3 DEF SameFace
    <3> QED BY <1>1, <2>3, <2>7, <2>9, <3>1 DEF FoundInv, Tame
  <2>24. UplinkToldOfJupes'
    <3>1. \A j \in DOMAIN cli' : cli'[j].jupe => j \in DOMAIN cli /\ SameFace(cli[j], cli'[j])
      <4>1. SUFFICES ASSUME NEW j \in DOMAIN cli', cli'[j].jupe
                     PROVE  j \in DOMAIN cli /\ SameFace(cli[j], cli'[j])
        OBVIOUS
      <4>2. j # u
        BY <2>2, <2>13, <4>1 DEF Taken, SameFace
      <4>3. j \in DOMAIN left.cli /\ SameFace(left.cli[j], cli'[j])
        BY <2>13, <4>2 DEF Taken
      <4> QED BY <2>11, <4>3 DEF SameFace
    <3>2. uplink' # NULL =>
            /\ uplink' = uplink /\ cli'[uplink].from = cli[uplink].from
            /\ \A j \in DOMAIN cli' : cli'[j].jupe =>
                 /\ j \in DOMAIN cli /\ SameFace(cli[j], cli'[j])
                 /\ cli[j].name \in held[cli[uplink].from] =>
                      cli[j].name \in held'[cli[uplink].from]
      BY <1>1, <1>7, <2>20, <3>1 DEF SameFace
    <3> QED BY <1>1, <3>2, ToldStep
  <2> QED BY <2>22, <2>23, <2>24 DEF NetworkInv
<1>8. ASSUME Find(n) \cap HasJupes # {}, Freed(Hash, {u}),
             held' = Told([held EXCEPT ![cli[u].from] = @ \ {n}], uplink, {n})
      PROVE  NetworkInv'
  <2>1. /\ held' \in [Conns -> SUBSET Jupable]
        /\ uplink # NULL => held[cli[uplink].from] \subseteq held'[cli[uplink].from]
    BY <1>1, <1>4, <1>8, NickKept
  <2>2. \A j \in DOMAIN cli : cli[j].parent \in {u} => j \in {u}
    BY <1>2, <1>4, LeavesAlone
  <2>3. uplink \notin {u}
    BY <1>1, <1>2, <1>3, Finite, UplinkSide
  <2> QED BY <1>1, <1>8, <2>1, <2>2, <2>3, GoneStep
<1>9. ASSUME Find(n) # {}, wild' = TRUE,
             UNCHANGED <<cli, head, chans, opers, bursting, servers, links, held>>
      PROVE  NetworkInv'
  <2> QED BY <1>1, <1>9, WildStep DEF GoesWild
<1>10. Find(n) \cap HasJupes # {} => Find(n) # {}
  OBVIOUS
<1> QED BY <1>7, <1>8, <1>9, <1>10 DEF ChangeNick

-----------------------------------------------------------------------------
(* No line and no module breaks the invariant of what services know.       *)
THEOREM NetworkStepIsSound ==
  NetworkInv /\ [NetworkNext]_netvars => NetworkInv'
<1> SUFFICES ASSUME NetworkInv, [NetworkNext]_netvars PROVE NetworkInv'
  OBVIOUS
<1>1. CASE UNCHANGED netvars
  <2>1. Hash' = Hash
    BY <1>1, HashSame DEF netvars
  <2>2. SoundInv' /\ FoundInv'
    BY <1>1, <2>1 DEF netvars, NetworkInv, SoundInv, FoundInv
  <2>3. UplinkToldOfJupes'
    BY <1>1 DEF netvars, NetworkInv, UplinkToldOfJupes, HasJupes, IsServer
  <2> QED BY <2>2, <2>3 DEF NetworkInv
<1>2. ASSUME NEW c \in Conns, Connect(c) \/ DropUnknown(c) PROVE NetworkInv'
  BY <1>2, ConnStep
<1>3. ASSUME NEW c \in Conns, Lose(c) \/ SquitServices(c) PROVE NetworkInv'
  BY <1>3, UnplugStep, WildStep DEF Lose, SquitServices
<1>4. ASSUME NEW c \in Conns, NEW n \in ServerNames,
             Register(c, n) \/ RegisterRefused(c, n) \/ Squit(c, n)
      PROVE  NetworkInv'
  BY <1>4, RegisterStep, RefusedStep, SquitStep
<1>5. ASSUME NEW p \in DOMAIN cli, NEW n \in ServerNames,
             Introduce(p, n) \/ UserIntroduces(p, n)
      PROVE  NetworkInv'
  BY <1>5, IntroduceStep, UserIntroducesStep
<1>6. ASSUME NEW p \in DOMAIN cli, NEW n \in Nicks, NEW o \in BOOLEAN, NewNick(p, n, o)
      PROVE  NetworkInv'
  BY <1>6, NewNickStep
<1>7. ASSUME NEW u \in DOMAIN cli, NEW n \in Nicks, ChangeNick(u, n) PROVE NetworkInv'
  BY <1>7, ChangeNickStep
<1>8. ASSUME NEW u \in DOMAIN cli, Umode(u) \/ JoinZero(u) \/ Pong(u) PROVE NetworkInv'
  BY <1>8, UmodeStep, JoinZeroStep, PongStep
<1>9. ASSUME NEW c \in Conns, NEW ch \in Channels, NEW ns \in SUBSET Nicks, Sjoin(c, ch, ns)
      PROVE  NetworkInv'
  BY <1>9, SjoinStep
<1>10. ASSUME NEW ch \in DOMAIN chans, NEW D \in SUBSET chans[ch], Kicked(ch, D)
       PROVE  NetworkInv'
  BY <1>10, KickedStep
<1>11. ASSUME NEW c \in Conns, NEW n \in Nicks, Kill(c, n) PROVE NetworkInv'
  BY <1>11, KillStep
<1>12. ASSUME NEW n \in Jupable, NEW o \in BOOLEAN, AddJupe(n, o) PROVE NetworkInv'
  BY <1>12, AddJupeStep
<1>13. ASSUME NEW i \in DOMAIN cli, DelJupe(i) PROVE NetworkInv'
  BY <1>13, DelJupeStep
<1>14. CASE NetworkNext
  BY <1>14, <1>2, <1>3, <1>4, <1>5, <1>6, <1>7, <1>8, <1>9, <1>10, <1>11, <1>12, <1>13,
     RestartStep DEF NetworkNext
<1> QED BY <1>1, <1>14

(* So the invariant holds in every state.                                  *)
LEMMA NetworkInvAlways == NetworkSpec => []NetworkInv
BY InitIsSound, NetworkStepIsSound, PTL DEF NetworkSpec

(* The invariant says more than NetworkSound.                              *)
LEMMA SoundHolds == NetworkInv => NetworkSound
<1> SUFFICES ASSUME NetworkInv PROVE NetworkSound
  OBVIOUS
<1>1. /\ SoundInv /\ Trees(cli, conn) /\ cli \in Tables /\ MembersAre(cli, chans)
      /\ CountsAre(cli, bursting, servers, links) /\ OpersAre(cli, opers)
  BY DEF NetworkInv, SoundInv, Trees
<1>2. /\ DOMAIN cli \subseteq Ids
      /\ \A i \in DOMAIN cli : cli[i] \in Client /\ Placed(cli, conn, i)
  BY <1>1, TableFacts DEF Trees
<1>3. \A i \in DOMAIN cli : IsLocal(i) <=> IsLocalServer(cli[i])
  BY DEF IsLocal, IsServer, IsLocalServer
<1>4. NetworkTypeOK
  <2>1. /\ bursting \in 0 .. Cardinality(Ids) /\ servers \in 1 .. Cardinality(Ids) + 1
        /\ links \in 1 .. Cardinality(Conns) + 1
    BY <1>1, Finite, CountsBounded
  <2>2. \A i \in DOMAIN cli :
          /\ cli[i].name \in (IF cli[i].kind = "server" THEN ServerNames ELSE Nicks)
          /\ cli[i].from \in Conns \cup {NULL}
          /\ {cli[i].parent, cli[i].hnext, cli[i].hprev} \subseteq Ids \cup {NULL}
    BY <1>2 DEF Client, Pointers, Placed
  <2>3. {head, uplink} \subseteq Ids \cup {NULL}
    BY <1>1 DEF SoundInv, Hash, Hashes, Pointers
  <2> QED BY <1>1, <1>2, <2>1, <2>2, <2>3 DEF NetworkTypeOK, SoundInv, MembersAre
<1>5. NobodyLeftBehind
  <2>1. \A i \in DOMAIN cli :
          /\ cli[i].parent \in DOMAIN cli \cup {NULL}
          /\ ~ cli[i].jupe => conn[cli[i].from] = "server"
          /\ cli[i].parent # NULL => cli[i].from = cli[cli[i].parent].from
    BY <1>2 DEF Placed
  <2>2. uplink # NULL => uplink \in DOMAIN cli /\ IsLocal(uplink)
    BY <1>1, <1>3 DEF SoundInv, UplinkIs
  <2> QED BY <1>1, <2>1, <2>2 DEF NobodyLeftBehind, MembersAre
<1>6. CountsRight
  <2>1. /\ {i \in DOMAIN cli : IsServer(i)} = {i \in DOMAIN cli : cli[i].kind = "server"}
        /\ {i \in DOMAIN cli : IsLocal(i)} = {i \in DOMAIN cli : IsLocalServer(cli[i])}
    BY <1>3 DEF IsServer
  <2> QED BY <1>1, <2>1 DEF CountsRight, CountsAre
<1>7. OpersListed
  BY <1>1 DEF OpersListed, OpersAre
<1> QED BY <1>4, <1>5, <1>6, <1>7 DEF NetworkSound

(* The invariant says more than EveryoneKnown.                             *)
LEMMA KnownHolds == NetworkInv => EveryoneKnown
<1> SUFFICES ASSUME NetworkInv PROVE EveryoneKnown
  OBVIOUS
<1>1. SUFFICES ASSUME ~ wild, strikes = 0
               PROVE  /\ Elements(Bucket(Hash)) = DOMAIN cli /\ NoTwice(Bucket(Hash))
                      /\ \A i \in DOMAIN cli :
                           \/ Find(cli[i].name) = {i}
                           \/ Find(cli[i].name) \cap HasJupes # {}
                           \/ cli[i].jupe
  BY DEF EveryoneKnown, EveryoneFound, NetworkInv
<1>2. Whole(Hash) /\ Hash \in Hashes /\ Hash.cli = cli /\ ~ Broken(Hash)
  BY <1>1 DEF NetworkInv, FoundInv, SoundInv, Hash
<1>3. PICK q \in Seq(Ids) : Linked(Hash, q) /\ Elements(q) = DOMAIN cli /\ NamesAre(cli, q)
  BY <1>2 DEF Whole
<1>4. Bucket(Hash) = q
  BY <1>2, <1>3, Finite, BucketOfLinked
<1>5. ASSUME NEW i \in DOMAIN cli
      PROVE  \/ Find(cli[i].name) = {i}
             \/ Find(cli[i].name) \cap HasJupes # {}
             \/ cli[i].jupe
  <2> DEFINE F == Find(cli[i].name)
  <2>1. /\ F \in SUBSET DOMAIN cli /\ F # {}
        /\ \A k \in F : ~ cli[k].jupe => \A j \in DOMAIN cli : cli[j].name = cli[i].name => j = k
    BY <1>2, <1>3, Finite, FoundAll
  <2>2. \A j, k \in F : j = k
    BY <1>2, Finite, FoundOnes
  <2> HIDE DEF F
  <2>3. F = {i} \/ F \cap HasJupes # {}
    BY <2>1, <2>2 DEF HasJupes
  <2> QED BY <2>3 DEF F
<1>6. NoTwice(q)
  BY <1>3 DEF Linked
<1> QED BY <1>3, <1>4, <1>5, <1>6

(* The counts that decide whether chanfix runs and whether services        *)
(* connect, the list of opers and the uplink are always those of what is   *)
(* in memory (siclient_free, siconn_del, sichannel_del_user and all that   *)
(* calls them).                                                            *)
THEOREM NetworkIsSound == NetworkSpec => []NetworkSound
BY NetworkInvAlways, SoundHolds, PTL

(* Everyone in memory is found under their name, and the uplink knows of   *)
(* every name that services hold (siclient_hash_add, -del, -find,          *)
(* siclient_send_jupe).                                                    *)
THEOREM EveryoneIsKnown == NetworkSpec => []EveryoneKnown
BY NetworkInvAlways, KnownHolds, PTL

(* Whichever way the last member leaves, the channel goes                  *)
(* (sichannel_del_user).                                                   *)
THEOREM EmptyChannelsGo == NetworkSpec => GoneWhenEmpty
<1>1. ASSUME NetworkInv, NetworkNext, NEW ch \in DOMAIN chans, chans[ch] # {},
             ch \in DOMAIN chans'
      PROVE  chans'[ch] # {}
  <2>1. chans = [k \in DOMAIN chans |-> chans[k]]
    BY <1>1 DEF NetworkInv, SoundInv, MembersAre
  <2>2. ASSUME NEW D, chans' = Without(D) PROVE chans'[ch] # {}
    BY <1>1, <2>2 DEF Without
  <2>3. CASE chans' = chans
    BY <1>1, <2>3
  <2>4. ASSUME NEW c \in Conns, NEW k \in Channels, NEW ns \in SUBSET Nicks, Sjoin(c, k, ns)
        PROVE  chans'[ch] # {}
    <3>1. PICK S : chans' = [x \in DOMAIN chans \cup {k} |->
                              IF x = k THEN (IF k \in DOMAIN chans THEN chans[k] ELSE {}) \cup S
                              ELSE chans[x]]
      BY <2>4 DEF Sjoin
    <3> QED BY <1>1, <3>1
  <2>5. ASSUME NEW k \in DOMAIN chans, NEW D \in SUBSET chans[k], Kicked(k, D)
        PROVE  chans'[ch] # {}
    <3> DEFINE left == chans[k] \ D
    <3>1. CASE chans[k] \cap D # {} /\ left = {}
      <4>1. chans' = Restrict(chans, DOMAIN chans \ {k})
        BY <2>5, <3>1 DEF Kicked
      <4> QED BY <1>1, <4>1 DEF Restrict
    <3>2. CASE ~ (chans[k] \cap D # {} /\ left = {})
      <4>1. chans' = [chans EXCEPT ![k] = left]
        BY <2>5, <3>2 DEF Kicked
      <4>2. chans[k] # {} => left # {}
        BY <3>2
      <4> HIDE DEF left
      <4> QED BY <1>1, <2>1, <4>1, <4>2
    <3> QED BY <3>1, <3>2
  <2>6. CASE Restart
    BY <1>1, <2>6 DEF Restart
  <2>7. ASSUME NEW c, Unplug(c) PROVE \E D : chans' = Without(D)
    BY <2>7 DEF Unplug, Freed
  <2>8. ASSUME NEW c, NEW i, Struck(c, i) PROVE \E D : chans' = Without(D)
    BY <2>8 DEF Struck
  <2>9. ASSUME NEW c, NEW n, Squit(c, n) PROVE \E D : chans' = Without(D)
    BY <2>7, <2>8, <2>9 DEF Squit, Freed
  <2>10. ASSUME NEW c, NEW n, Kill(c, n) PROVE chans' = chans \/ \E D : chans' = Without(D)
    BY <2>8, <2>10 DEF Kill, Freed
  <2>11. ASSUME NEW p, NEW n, Introduce(p, n) \/ UserIntroduces(p, n)
         PROVE  chans' = chans \/ \E D : chans' = Without(D)
    BY <2>7, <2>11 DEF Introduce, UserIntroduces, GoesWild
  <2>12. ASSUME NEW p, NEW n, NEW o, NewNick(p, n, o)
         PROVE  chans' = chans \/ \E D : chans' = Without(D)
    BY <2>12 DEF NewNick
  <2>13. ASSUME NEW u, NEW n, ChangeNick(u, n)
         PROVE  chans' = chans \/ \E D : chans' = Without(D)
    BY <2>13 DEF ChangeNick, Freed
  <2>14. ASSUME NEW c, Connect(c) \/ DropUnknown(c) \/ Lose(c) \/ SquitServices(c)
         PROVE  chans' = chans \/ \E D : chans' = Without(D)
    BY <2>7, <2>14 DEF Connect, DropUnknown, Lose, SquitServices, GoesWild
  <2>15. ASSUME NEW c, NEW n, Register(c, n) \/ RegisterRefused(c, n) PROVE chans' = chans
    BY <2>15 DEF Register, RegisterRefused
  <2>16. ASSUME NEW u, Umode(u) \/ JoinZero(u) \/ Pong(u)
         PROVE  chans' = chans \/ \E D : chans' = Without(D)
    BY <2>16 DEF Umode, JoinZero, Pong
  <2>17. ASSUME NEW n, NEW o, AddJupe(n, o) PROVE chans' = chans
    BY <2>17 DEF AddJupe
  <2>18. ASSUME NEW i, DelJupe(i) PROVE \E D : chans' = Without(D)
    BY <2>18 DEF DelJupe, Freed
  <2> QED BY <1>1, <2>2, <2>3, <2>4, <2>5, <2>6, <2>9, <2>10, <2>11, <2>12, <2>13, <2>14,
             <2>15, <2>16, <2>17, <2>18 DEF NetworkNext
<1>2. NetworkInv /\ [NetworkNext]_netvars =>
        [\A ch \in DOMAIN chans : chans[ch] # {} =>
           ch \notin DOMAIN chans' \/ chans'[ch] # {}]_netvars
  BY <1>1
<1> QED BY <1>2, NetworkInvAlways, PTL DEF NetworkSpec, GoneWhenEmpty

(* Before the network has removed a module client only a nick change to a  *)
(* nick that is taken, a server that a user introduces and a SQUIT of      *)
(* services themselves use memory that is free (_command_nick,             *)
(* _command_server, _command_squit; siclient_free after a removal).        *)
THEOREM WildOnlyWhenSaid == NetworkSpec => WildOnlyThen
<1>1. ASSUME NetworkInv, NetworkNext, wild', strikes = 0,
             ~ \E u \in DOMAIN cli, n \in Nicks : Find(n) # {} /\ ChangeNick(u, n),
             ~ \E u \in DOMAIN cli, n \in ServerNames :
                 Find(n) = {} /\ UserIntroduces(u, n),
             ~ \E c \in Conns : SquitServices(c)
      PROVE  FALSE
  <2>1. ~ Tame
    BY <1>1 DEF Tame
  <2>2. ~ Restart
    BY <1>1 DEF Restart
  <2>3. ~ \E c \in Conns : Connect(c) \/ DropUnknown(c) \/ Lose(c) \/ SquitServices(c)
    BY <1>1, <2>1, UnplugStep DEF Connect, DropUnknown, Lose
  <2>4. ~ \E c \in Conns, n \in ServerNames :
            Register(c, n) \/ RegisterRefused(c, n) \/ Squit(c, n)
    BY <1>1, <2>1, RegisterStep, SquitStep DEF RegisterRefused
  <2>5. ~ \E p \in DOMAIN cli, n \in ServerNames : Introduce(p, n) \/ UserIntroduces(p, n)
    BY <1>1, <2>1, IntroduceStep, UserIntroducesStep
  <2>6. ~ \E p \in DOMAIN cli, n \in Nicks, o \in BOOLEAN : NewNick(p, n, o)
    BY <1>1, <2>1, NewNickStep
  <2>7. ~ \E u \in DOMAIN cli : Umode(u) \/ JoinZero(u) \/ Pong(u)
    BY <1>1 DEF Umode, JoinZero, Pong
  <2>8. ~ \E c \in Conns, ch \in Channels, ns \in SUBSET Nicks : Sjoin(c, ch, ns)
    BY <1>1 DEF Sjoin
  <2>9. ~ \E ch \in DOMAIN chans : \E D \in SUBSET chans[ch] : Kicked(ch, D)
    BY <1>1 DEF Kicked
  <2>10. ~ \E c \in Conns, n \in Nicks : Kill(c, n)
    BY <1>1, <2>1, KillStep
  <2>11. ~ \E n \in Jupable, o \in BOOLEAN : AddJupe(n, o)
    BY <1>1, <2>1, AddJupeStep
  <2>12. ~ \E i \in DOMAIN cli : DelJupe(i)
    BY <1>1, <2>1, DelJupeStep
  <2>13. ~ \E u \in DOMAIN cli, n \in Nicks : ChangeNick(u, n)
    BY <1>1, <2>1, ChangeNickStep
  <2> QED BY <1>1, <2>2, <2>3, <2>4, <2>5, <2>6, <2>7, <2>8, <2>9, <2>10, <2>11, <2>12, <2>13
          DEF NetworkNext
<1>2. NetworkInv => (~ (strikes > 0) => strikes = 0)
  BY DEF NetworkInv, SoundInv
<1>3. NetworkInv /\ [NetworkNext]_netvars =>
        [wild' => \/ \E u \in DOMAIN cli, n \in Nicks : Find(n) # {} /\ ChangeNick(u, n)
                  \/ \E u \in DOMAIN cli, n \in ServerNames :
                       Find(n) = {} /\ UserIntroduces(u, n)
                  \/ \E c \in Conns : SquitServices(c)
                  \/ strikes > 0]_netvars
  BY <1>1, <1>2
<1> QED BY <1>3, NetworkInvAlways, PTL DEF NetworkSpec, WildOnlyThen

-----------------------------------------------------------------------------
(* Admin: who is logged in, and how often a password may be guessed.       *)
Calls == [op : Ops, from : Addresses, name : Names, cell : Cells, alone : BOOLEAN]

(* What a handler found is so until it is through, when it has the lock.   *)
HandlerOK ==
  call # None =>
    /\ call \in Calls
    /\ call.alone => /\ lock = "services" /\ call.cell \in used
                     /\ acc[call.cell].name = call.name

SessionsOK == ~ missed => \A a \in Addresses : session[a] \in {None, granted[a]}

IInv == TypeOK /\ HandlerOK /\ SessionsOK

Records == [name : Names, passwd : Passwords \cup {"**NP**"},
             expires : {"never", "later", "past"}, hosts : Seq(Patterns),
             fails : [Ops -> [age : 0 .. Window, num : Nat]]]

-----------------------------------------------------------------------------
(* An account that a tool has just made is a record like any other.        *)
LEMMA FreshAccount ==
  ASSUME NEW n \in Names
  PROVE  Created(n) \in Records
<1>1. NoFails \in [Ops -> [age : 0 .. Window, num : Nat]]
  BY AccountsAssumption DEF NoFails
<1>2. <<>> \in Seq(Patterns)
  OBVIOUS
<1> QED BY <1>1, <1>2 DEF Created, Records

(* A minute's part changes nothing of an account but its ages.             *)
LEMMA OlderAccount ==
  ASSUME NEW r \in Records
  PROVE  Older(r) \in Records /\ Older(r).name = r.name
<1>1. \A op \in Ops : r.fails[op] \in [age : 0 .. Window, num : Nat]
  BY DEF Records
<1>2. \A op \in Ops : Aged(r.fails[op]) \in [age : 0 .. Window, num : Nat]
  BY <1>1, AccountsAssumption DEF Aged
<1> QED BY <1>2 DEF Older, Records

(* An attempt changes nothing of an account but a count and its age.       *)
LEMMA RecordedAccount ==
  ASSUME NEW r \in Records, NEW op \in Ops, NEW v
  PROVE  Record(r, op, v) \in Records /\ Record(r, op, v).name = r.name
<1>1. Windowed(r.fails[op]) \in [age : 0 .. Window, num : Nat]
  BY AccountsAssumption DEF Windowed, Records
<1>2. Counted(Windowed(r.fails[op]), op, v) \in [age : 0 .. Window, num : Nat]
  BY <1>1 DEF Counted
<1> QED BY <1>2 DEF Record, Records

(* RemoveAt takes an entry out of a list.                                  *)
LEMMA OneLess ==
  ASSUME NEW S, NEW s \in Seq(S), NEW i \in DOMAIN s
  PROVE  RemoveAt(s, i) \in Seq(S)
<1>1. SubSeq(s, 1, i - 1) \in Seq(S) /\ SubSeq(s, i + 1, Len(s)) \in Seq(S)
  OBVIOUS
<1> QED BY <1>1 DEF RemoveAt

-----------------------------------------------------------------------------
(* The empty file and the module's first load satisfy the invariant.       *)
THEOREM InitIsRight == Init => IInv
<1> SUFFICES ASSUME Init PROVE IInv
  OBVIOUS
<1>1. FileTypeOK
  <2>1. acc \in [Cells -> Records] /\ used = {} /\ lock = "nobody" /\ edits = 0
    BY FreshAccount DEF Init, FileInit
  <2> QED BY <2>1, AccountsAssumption DEF FileTypeOK, Records
<1>2. TypeOK
  BY <1>1 DEF Init, TypeOK
<1> QED BY <1>2 DEF Init, IInv, HandlerOK, SessionsOK

(* The tools change accounts one at a time, and none while services have   *)
(* the lock.                                                               *)
LEMMA ToolsKeepRecords ==
  ASSUME acc \in [Cells -> Records], used \subseteq Cells, edits \in 0 .. MaxEdits,
         lock \in {"nobody", "services", "tool"}, Tools
  PROVE  /\ acc' \in [Cells -> Records] /\ used' \subseteq Cells /\ edits' \in 0 .. MaxEdits
         /\ lock' \in {"nobody", "services", "tool"}
         /\ lock # "services"
<1> USE AccountsAssumption
<1>1. ASSUME NEW n \in Names, CreateAccount(n)
      PROVE  /\ acc' \in [Cells -> Records] /\ used' \subseteq Cells
             /\ edits' \in 0 .. MaxEdits /\ lock = "tool" /\ lock' = lock
  BY <1>1, FreshAccount DEF CreateAccount, Edit, Room
<1>2. ASSUME NEW c \in Cells, NEW p \in Patterns, AddHost(c, p)
      PROVE  /\ acc' \in [Cells -> Records] /\ used' \subseteq Cells
             /\ edits' \in 0 .. MaxEdits /\ lock = "tool" /\ lock' = lock
  <2>1. acc[c].hosts \in Seq(Patterns)
    BY DEF Records
  <2>2. <<p>> \o acc[c].hosts \in Seq(Patterns)
    BY <2>1
  <2>3. [acc[c] EXCEPT !.hosts = <<p>> \o acc[c].hosts] \in Records
    BY <2>2 DEF Records
  <2>4. acc' = [acc EXCEPT ![c] = [acc[c] EXCEPT !.hosts = <<p>> \o acc[c].hosts]]
    BY <1>2 DEF AddHost
  <2> QED BY <1>2, <2>3, <2>4 DEF AddHost, Edit
<1>3. ASSUME NEW c \in Cells, NEW p \in Patterns, RemoveHost(c, p)
      PROVE  /\ acc' \in [Cells -> Records] /\ used' \subseteq Cells
             /\ edits' \in 0 .. MaxEdits /\ lock = "tool" /\ lock' = lock
  <2>1. PICK i \in Matching(acc[c], p) : acc' = [acc EXCEPT ![c].hosts = RemoveAt(@, i)]
    BY <1>3 DEF RemoveHost
  <2>2. acc[c].hosts \in Seq(Patterns) /\ i \in DOMAIN acc[c].hosts
    BY <2>1 DEF Records, Matching
  <2>3. RemoveAt(acc[c].hosts, i) \in Seq(Patterns)
    BY <2>2, OneLess
  <2>4. acc' = [acc EXCEPT ![c] = [acc[c] EXCEPT !.hosts = RemoveAt(acc[c].hosts, i)]]
    BY <2>1
  <2>5. [acc[c] EXCEPT !.hosts = RemoveAt(acc[c].hosts, i)] \in Records
    BY <2>3 DEF Records
  <2> QED BY <1>3, <2>4, <2>5 DEF RemoveHost, Edit
<1>4. ASSUME NEW c \in Cells, RemoveAccount(c)
      PROVE  /\ acc' \in [Cells -> Records] /\ used' \subseteq Cells
             /\ edits' \in 0 .. MaxEdits /\ lock = "tool" /\ lock' = lock
  <2>1. <<>> \in Seq(Patterns)
    OBVIOUS
  <2>2. [acc[c] EXCEPT !.hosts = <<>>] \in Records
    BY <2>1 DEF Records
  <2>3. acc' = [acc EXCEPT ![c] = [acc[c] EXCEPT !.hosts = <<>>]]
    BY <1>4 DEF RemoveAccount
  <2> QED BY <1>4, <2>2, <2>3 DEF RemoveAccount, Edit
<1>5. ASSUME NEW c \in Cells, NEW pw \in Passwords, SetPassword(c, pw)
      PROVE  /\ acc' \in [Cells -> Records] /\ used' \subseteq Cells
             /\ edits' \in 0 .. MaxEdits /\ lock = "tool" /\ lock' = lock
  <2>1. [acc[c] EXCEPT !.passwd = pw] \in Records
    BY DEF Records
  <2>2. acc' = [acc EXCEPT ![c] = [acc[c] EXCEPT !.passwd = pw]]
    BY <1>5 DEF SetPassword
  <2> QED BY <1>5, <2>1, <2>2 DEF SetPassword, Edit
<1>6. ASSUME NEW c \in Cells, NEW when \in {"never", "later", "past"}, SetExpire(c, when)
      PROVE  /\ acc' \in [Cells -> Records] /\ used' \subseteq Cells
             /\ edits' \in 0 .. MaxEdits /\ lock = "tool" /\ lock' = lock
  <2>1. [acc[c] EXCEPT !.expires = when] \in Records
    BY DEF Records
  <2>2. acc' = [acc EXCEPT ![c] = [acc[c] EXCEPT !.expires = when]]
    BY <1>6 DEF SetExpire
  <2> QED BY <1>6, <2>1, <2>2 DEF SetExpire, Edit
<1>7. CASE ToolLocks
  BY <1>7 DEF ToolLocks
<1>8. CASE ToolEnds
  BY <1>8 DEF ToolEnds
<1> QED BY <1>1, <1>2, <1>3, <1>4, <1>5, <1>6, <1>7, <1>8 DEF Tools

(* The conjuncts of TypeOK, with the name that the lemmas have for records.*)
LEMMA TypeParts ==
  TypeOK <=>
    /\ acc \in [Cells -> Records] /\ used \subseteq Cells
    /\ lock \in {"nobody", "services", "tool"} /\ edits \in 0 .. MaxEdits
    /\ host \in [Addresses -> Hosts \cup {None}]
    /\ session \in [Addresses -> Names \cup {None}]
    /\ granted \in [Addresses -> Names \cup {None}]
    /\ loaded \in BOOLEAN /\ missed \in BOOLEAN
BY DEF TypeOK, FileTypeOK, Records

(* No step of services, of a tool, of a client or of the clock breaks it.  *)
THEOREM StepIsRight == IInv /\ [Next]_vars => IInv'
<1> SUFFICES ASSUME IInv, [Next]_vars PROVE IInv'
  OBVIOUS
<1> USE AdminAssumption DEF IInv, HandlerOK, SessionsOK, Idle
<1>1. TypeOK
  OBVIOUS
<1>2. ASSUME NEW a \in Addresses, NEW h \in Hosts, Arrive(a, h)
      PROVE  IInv'
  BY <1>1, <1>2, TypeParts DEF Arrive, filevars, TypeOK, FileTypeOK
<1>3. ASSUME NEW a \in Addresses, NEW op \in Ops, NEW n \in Names, Begin(a, op, n)
      PROVE  IInv'
  <2>1. PICK c \in Found(n) :
          call' = [op |-> op, from |-> a, name |-> n, cell |-> c, alone |-> lock = "nobody"]
    BY <1>3 DEF Begin
  <2>2. c \in Cells /\ c \in used /\ acc[c].name = n
    BY <1>1, <2>1 DEF Found, TypeOK, FileTypeOK
  <2>3. (lock = "nobody") \in BOOLEAN
    OBVIOUS
  <2>4. call' \in Calls
    BY <2>1, <2>2, <2>3 DEF Calls
  <2>5. call'.alone => lock = "nobody"
    BY <2>1
  <2>6. call'.cell = c /\ call'.name = n
    BY <2>1
  <2>7. lock' = (IF lock = "nobody" THEN "services" ELSE lock)
    BY <1>3 DEF Begin, Locked
  <2>8. UNCHANGED <<acc, used, edits, host, session, loaded, granted, missed>>
    BY <1>3 DEF Begin
  <2>9. HandlerOK'
    BY <2>2, <2>4, <2>5, <2>6, <2>7, <2>8
  <2>10. TypeOK'
    BY <1>1, <2>7, <2>8 DEF TypeOK, FileTypeOK
  <2> QED BY <2>8, <2>9, <2>10
<1>4. ASSUME NEW a \in Addresses, Leave(a)
      PROVE  IInv'
  BY <1>1, <1>4 DEF Leave, Forgotten, filevars, TypeOK, FileTypeOK
<1>5. ASSUME NEW a \in Addresses, Passwd(a)
      PROVE  IInv'
  <2>1. session[a] \in Names
    BY <1>1, <1>5 DEF Passwd, TypeOK
  <2> QED BY <1>3, <1>5, <2>1 DEF Passwd, Ops
<1>6. ASSUME NEW a \in Addresses, PasswdOfNobody(a) \/ Logout(a)
      PROVE  IInv'
  BY <1>1, <1>6 DEF PasswdOfNobody, Logout, filevars, TypeOK, FileTypeOK
<1>7. CASE Reload
  BY <1>1, <1>7 DEF Reload, filevars, TypeOK, FileTypeOK
<1>8. CASE Tick
  <2>1. \A c \in Cells : acc'[c] \in Records /\ acc'[c].name = acc[c].name
    <3> SUFFICES ASSUME NEW c \in Cells
                 PROVE  acc'[c] \in Records /\ acc'[c].name = acc[c].name
      OBVIOUS
    <3>1. Older(acc[c]) \in Records /\ Older(acc[c]).name = acc[c].name
      BY <1>1, TypeParts, OlderAccount
    <3>2. PICK e \in {"past", Older(acc[c]).expires} :
            acc'[c] = [Older(acc[c]) EXCEPT !.expires = e]
      BY <1>8 DEF Tick
    <3> QED BY <3>1, <3>2 DEF Records
  <2>2. acc' \in [Cells -> Records]
    BY <2>1, <1>8 DEF Tick
  <2>3. TypeOK'
    BY <2>2, <1>1, <1>8 DEF Tick, TypeOK, FileTypeOK, Records
  <2>4. HandlerOK'
    BY <2>1, <1>8 DEF Tick, Calls
  <2> QED BY <2>3, <2>4, <1>8 DEF Tick
<1>9. CASE ToolRuns
  <2>1. TypeOK'
    BY <1>1, <1>9, ToolsKeepRecords, TypeParts DEF ToolRuns, TypeOK, FileTypeOK, Records
  <2>2. lock # "services"
    BY <1>1, <1>9, ToolsKeepRecords, TypeParts DEF ToolRuns
  <2> QED BY <2>1, <2>2, <1>9 DEF ToolRuns
<1>10. ASSUME NEW pw \in Passwords, NEW command \in BOOLEAN, LoginEnds(pw, command)
       PROVE  IInv'
  <2>1. call \in Calls /\ acc[call.cell] \in Records
    BY <1>1, <1>10, TypeParts DEF LoginEnds, Calls
  <2>2. PICK v : /\ Ended(v)
                 /\ acc' = [acc EXCEPT ![call.cell] = Record(acc[call.cell], "login", v)]
                 /\ IF v = "right"
                    THEN /\ Begun(call.from, acc[call.cell].name, command)
                         /\ granted' = [granted EXCEPT ![call.from] =
                                          IF command THEN None ELSE acc[call.cell].name]
                    ELSE UNCHANGED <<session, granted>>
    BY <1>10 DEF LoginEnds
  <2>3. Record(acc[call.cell], "login", v) \in Records
    BY <2>1, RecordedAccount DEF Ops
  <2>4. acc[call.cell].name \in Names
    BY <2>1 DEF Records
  <2>5. acc' \in [Cells -> Records]
    BY <1>1, <2>2, <2>3, TypeParts
  <2>6. TypeOK'
    <3>1. FileTypeOK'
      BY <1>1, <2>2, <2>5 DEF Ended, Unlocked, TypeOK, FileTypeOK, Records
    <3>2. host' = host /\ loaded' = loaded /\ missed' = missed
      BY <2>2 DEF Ended
    <3>3. session' \in [Addresses -> Names \cup {None}]
      BY <1>1, <2>1, <2>2, <2>4 DEF Begun, TypeOK, Calls
    <3>4. granted' \in [Addresses -> Names \cup {None}]
      BY <1>1, <2>1, <2>2, <2>4 DEF Begun, TypeOK, Calls
    <3> QED BY <1>1, <3>1, <3>2, <3>3, <3>4 DEF TypeOK
  <2> QED BY <1>1, <2>1, <2>2, <2>6 DEF Ended, Begun, TypeOK, Calls
<1>11. ASSUME NEW pw \in Passwords, NEW new \in Passwords, PasswdEnds(pw, new)
       PROVE  IInv'
  <2>1. call \in Calls /\ acc[call.cell] \in Records
    BY <1>1, <1>11, TypeParts DEF PasswdEnds, Calls
  <2>2. PICK v : /\ Ended(v)
                 /\ acc' = [acc EXCEPT ![call.cell] =
                              [Record(acc[call.cell], "passwd", v) EXCEPT
                                 !.passwd = IF v = "right" THEN new ELSE @]]
                 /\ \/ session' = [session EXCEPT ![call.from] = None]
                    \/ session' = session
                 /\ UNCHANGED granted
    BY <1>1, <1>11 DEF PasswdEnds, TypeOK
  <2>3. Record(acc[call.cell], "passwd", v) \in Records
    BY <2>1, RecordedAccount DEF Ops
  <2>4. acc' \in [Cells -> Records]
    BY <1>1, <2>2, <2>3, TypeParts DEF Records
  <2>5. TypeOK'
    BY <1>1, <2>1, <2>2, <2>4 DEF Ended, Unlocked, TypeOK, FileTypeOK, Records
  <2> QED BY <1>1, <2>1, <2>2, <2>5 DEF Ended, TypeOK, Calls
<1>12. CASE UNCHANGED vars
  BY <1>1, <1>12 DEF vars, filevars, TypeOK, FileTypeOK
<1>13. \A a \in Addresses, n \in Names : Login(a, n) => IInv'
  BY <1>3 DEF Login, Ops
<1> QED
  BY <1>2, <1>13, <1>4, <1>5, <1>6, <1>7, <1>8, <1>9, <1>10, <1>11, <1>12 DEF Next

-----------------------------------------------------------------------------
(* A session is of the client that logged in to the account (SessionsSound *)
(* of Admin, for _do_login, _do_passwd, _client_removed).                  *)
THEOREM SessionsAreSound == Spec => []SessionsSound
<1>1. IInv => SessionsSound
  BY DEF IInv, SessionsOK, SessionsSound
<1> QED BY <1>1, InitIsRight, StepIsRight, PTL DEF Spec

(* With the lock a handler writes to the account it found (WritesItsAccount*)
(* of Admin, for siadmindb_lock and the pointer of siadmindb_account_find).*)
THEOREM HandlersWriteTheirAccount == Spec => WritesItsAccount
<1> DEFINE Writes ==
      (call # None /\ call' = None /\ call.alone) =>
         \A c \in Cells : acc'[c] # acc[c] => c \in used /\ acc[c].name = call.name
<1>1. IInv /\ [Next]_vars => [Writes]_vars
  <2> SUFFICES ASSUME IInv, Next, call # None, call' = None, call.alone,
                      NEW c \in Cells, acc'[c] # acc[c]
               PROVE  c \in used /\ acc[c].name = call.name
    BY DEF vars
  <2>1. call \in Calls /\ call.cell \in used /\ acc[call.cell].name = call.name
    BY DEF IInv, HandlerOK
  <2>2. (\E pw \in Passwords, command \in BOOLEAN : LoginEnds(pw, command))
           \/ (\E pw \in Passwords, new \in Passwords : PasswdEnds(pw, new))
    BY DEF Next, Arrive, Login, Leave, Passwd, PasswdOfNobody, Logout, Begin, Reload, Tick,
           ToolRuns, Idle
  <2>3. acc \in [Cells -> Records]
    BY TypeParts DEF IInv
  <2>4. \E r : acc' = [acc EXCEPT ![call.cell] = r]
    BY <2>2 DEF LoginEnds, PasswdEnds
  <2> QED BY <2>1, <2>3, <2>4 DEF Calls
<1> QED BY <1>1, InitIsRight, StepIsRight, PTL DEF Spec, WritesItsAccount

-----------------------------------------------------------------------------
(* How the guesses g, newest first, lie to the window that the counter f   *)
(* is of: the first m were made in it and counted, the others, no more     *)
(* than a window takes, in the one before it.  A window that is over was   *)
(* begun too long ago for a guess before it to matter, and a guess in it   *)
(* is not of this tick.                                                    *)
Lies(g, f, m) ==
  /\ m <= f.num /\ m <= MaxFails /\ Len(g) - m <= MaxFails
  /\ \A k \in 1 .. Len(g) : k <= m <=> g[k] <= f.age

Ages == 0 .. Window - 1

GuessesOK(g, f) ==
  /\ g \in Seq(Ages)
  /\ \A i, j \in 1 .. Len(g) : i <= j => g[i] <= g[j]
  /\ f.age = Window => \A k \in 1 .. Len(g) : g[k] >= 1
  /\ \E m \in 0 .. Len(g) : Lies(g, f, m)

Fails == [age : 0 .. Window, num : Nat]

GuessInv ==
  /\ guesses \in [Cells -> [Ops -> Seq(Ages)]]
  /\ \A c \in Cells, op \in Ops : GuessesOK(guesses[c][op], acc[c].fails[op])

(* As a list is in order, those that are young enough are its first.       *)
LEMMA RecentOnes ==
  ASSUME NEW g \in Seq(Ages), \A i, j \in 1 .. Len(g) : i <= j => g[i] <= g[j]
  PROVE  /\ Recent(g) \in Seq(Ages) /\ Len(Recent(g)) <= Len(g)
         /\ \A k \in 1 .. Len(Recent(g)) : Recent(g)[k] = g[k] + 1
<1> DEFINE n == Len(g)
<1>0. \A i \in Nat : IsFiniteSet(1 .. i) /\ Cardinality(1 .. i) = i
  BY FS_Interval
<1> DEFINE young == {k \in 1 .. n : g[k] + 1 < Window}
           p == Cardinality(young)
<1>1. n \in Nat /\ \A k \in 1 .. n : g[k] \in Int /\ g[k] >= 0
  BY AccountsAssumption DEF Ages
<1>2. young = {k \in DOMAIN g : g[k] + 1 < Window}
  OBVIOUS
<1>3. IsFiniteSet(young) /\ p \in Nat /\ p <= n
  <2>1. IsFiniteSet(1 .. n) /\ Cardinality(1 .. n) = n
    BY <1>0, <1>1
  <2> QED BY <2>1, FS_Subset, FS_CardinalityType
<1>4. ASSUME NEW k \in 1 .. p
      PROVE  k \in young
  <2>1. SUFFICES ASSUME k \notin young PROVE FALSE
    OBVIOUS
  <2>2. k \in 1 .. n /\ k - 1 \in Nat
    BY <1>1, <1>3
  <2>3. young \subseteq 1 .. k - 1
    <3> SUFFICES ASSUME NEW j \in young, j >= k PROVE FALSE
      BY <1>1, <2>2
    <3>1. g[k] <= g[j] /\ g[j] + 1 < Window
      BY <2>2
    <3> QED BY <3>1, <2>1, <2>2, <1>1, AccountsAssumption
  <2>4. IsFiniteSet(1 .. k - 1) /\ Cardinality(1 .. k - 1) = k - 1
    BY <2>2, <1>0
  <2>5. p <= k - 1
    BY <2>3, <2>4, FS_Subset
  <2> QED BY <2>5, <1>3
<1>5. Recent(g) = [k \in 1 .. p |-> g[k] + 1]
  BY <1>2 DEF Recent
<1>6. \A k \in 1 .. p : g[k] + 1 \in Ages
  BY <1>1, <1>4, AccountsAssumption DEF Ages
<1> HIDE DEF p
<1>7. Recent(g) \in Seq(Ages) /\ Len(Recent(g)) = p
  BY <1>3, <1>5, <1>6
<1> QED BY <1>3, <1>5, <1>7

(* Time goes by for the guesses as it does for the counter's window.       *)
LEMMA GuessesAge ==
  ASSUME NEW g, NEW f \in Fails, GuessesOK(g, f)
  PROVE  GuessesOK(Recent(g), Aged(f))
<1> DEFINE r == Recent(g)
           e == Aged(f)
<1>1. /\ g \in Seq(Ages) /\ Len(g) \in Nat /\ Window \in Nat \ {0} /\ MaxFails \in Nat
      /\ \A i, j \in 1 .. Len(g) : i <= j => g[i] <= g[j]
      /\ \A k \in 1 .. Len(g) : g[k] \in Int /\ 0 <= g[k] /\ g[k] < Window
  BY AccountsAssumption, AdminAssumption DEF GuessesOK, Ages
<1>2. /\ r \in Seq(Ages) /\ Len(r) \in Nat /\ Len(r) <= Len(g)
      /\ \A k \in 1 .. Len(r) : r[k] = g[k] + 1
      /\ \A k \in 1 .. Len(r) : r[k] \in Int /\ r[k] < Window
  BY <1>1, RecentOnes DEF Ages
<1>3. /\ f.age \in 0 .. Window /\ f.num \in Nat /\ e.num = f.num
      /\ e.age = IF f.age < Window THEN f.age + 1 ELSE f.age
  BY DEF Fails, Aged
<1> HIDE DEF r, e
<1>4. PICK m \in 0 .. Len(g) : Lies(g, f, m)
  BY DEF GuessesOK
<1>5. \E l \in 0 .. Len(r) : Lies(r, e, l)
  <2> DEFINE l == IF m <= Len(r) THEN m ELSE Len(r)
  <2>1. l \in 0 .. Len(r) /\ l <= m /\ Len(r) - l <= MaxFails
    BY <1>1, <1>2, <1>4 DEF Lies
  <2>0. Len(r) \in Nat /\ m \in Int /\ (l = m \/ (l = Len(r) /\ Len(r) < m))
    BY <1>1, <1>2
  <2> HIDE DEF l
  <2>2. ASSUME NEW k \in 1 .. Len(r)
        PROVE  k <= l <=> r[k] <= e.age
    <3>1. k <= l <=> k <= m
      BY <2>0
    <3>2. k <= m <=> g[k] <= f.age
      BY <1>1, <1>2, <1>4 DEF Lies
    <3>3. g[k] <= f.age <=> r[k] <= e.age
      BY <1>1, <1>2, <1>3, SMTT(30)
    <3> QED BY <3>1, <3>2, <3>3
  <2> QED BY <2>1, <2>2, <1>1, <1>2, <1>3, <1>4 DEF Lies
<1>6. \A i, j \in 1 .. Len(r) : i <= j => r[i] <= r[j]
  BY <1>1, <1>2
<1>7. \A k \in 1 .. Len(r) : r[k] >= 1
  BY <1>1, <1>2
<1> QED BY <1>2, <1>5, <1>6, <1>7 DEF GuessesOK, r, e

(* The guesses after an attempt that came out as v.                        *)
Compared(g, v) == IF v = "wrong" THEN <<0>> \o g ELSE g

(* A password is compared only while there are few failures, and then it   *)
(* counts; what else an attempt may be counts or not.                      *)
LEMMA GuessCounts ==
  ASSUME NEW g, NEW f \in Fails, GuessesOK(g, f), NEW op, NEW v,
         v = "wrong" => ~ TooMany(Windowed(f))
  PROVE  GuessesOK(Compared(g, v), Counted(Windowed(f), op, v))
<1> DEFINE w == Windowed(f)
           e == Counted(w, op, v)
           h == Compared(g, v)
<1>1. /\ g \in Seq(Ages) /\ Len(g) \in Nat /\ Window \in Nat \ {0} /\ MaxFails \in Nat \ {0}
      /\ \A i, j \in 1 .. Len(g) : i <= j => g[i] <= g[j]
      /\ \A k \in 1 .. Len(g) : g[k] \in Int /\ 0 <= g[k] /\ g[k] < Window
      /\ f.age = Window => \A k \in 1 .. Len(g) : g[k] >= 1
  BY AccountsAssumption, AdminAssumption DEF GuessesOK, Ages
<1>2. f.age \in 0 .. Window /\ f.num \in Nat
  BY DEF Fails
<1>3. /\ w.age = IF f.age = Window THEN 0 ELSE f.age
      /\ w.num = IF f.age = Window THEN 0 ELSE f.num
  BY <1>1, <1>2 DEF Windowed
<1>4. /\ e.age = w.age /\ e.num \in Nat /\ w.num <= e.num
      /\ v = "wrong" => w.num < MaxFails /\ e.num = w.num + 1
  <2>1. w \in Fails
    BY <1>1 DEF Windowed, Fails
  <2>2. v = "wrong" => w.num < MaxFails
    BY <2>1, <1>1 DEF TooMany, Fails
  <2> HIDE DEF w
  <2>3. e = [w EXCEPT !.num = w.num + 1] \/ e = w
    BY DEF Counted
  <2>4. v = "wrong" => e = [w EXCEPT !.num = w.num + 1]
    BY <2>1, <2>2, <1>1 DEF Counted, Counts, Fails
  <2> HIDE DEF e
  <2> QED BY <2>1, <2>2, <2>3, <2>4 DEF Fails
<1> HIDE DEF w, e
<1>5. PICK m \in 0 .. Len(g) : Lies(g, f, m)
  BY DEF GuessesOK
<1>6. ~ (e.age = Window)
  BY <1>1, <1>2, <1>3, <1>4
(* Those in the window of now, without the attempt.                        *)
<1> DEFINE l == IF f.age = Window THEN 0 ELSE m
<1>7. /\ l \in 0 .. Len(g) /\ l <= w.num /\ l <= MaxFails /\ Len(g) - l <= MaxFails
      /\ \A k \in 1 .. Len(g) : k <= l <=> g[k] <= e.age
  <2>1. CASE f.age = Window
    <3>1. m = Len(g)
      <4>1. SUFFICES ASSUME m < Len(g) PROVE FALSE
        BY <1>1
      <4>2. m + 1 \in 1 .. Len(g)
        BY <4>1, <1>1
      <4> QED BY <4>2, <2>1, <1>1, <1>5 DEF Lies
    <3> QED BY <3>1, <2>1, <1>1, <1>3, <1>4, <1>5 DEF Lies
  <2>2. CASE f.age # Window
    BY <2>2, <1>1, <1>2, <1>3, <1>4, <1>5 DEF Lies
  <2> QED BY <2>1, <2>2
<1> HIDE DEF l
<1>8. CASE v # "wrong"
  <2>1. h = g
    BY <1>8 DEF Compared
  <2>2. Lies(g, e, l)
    BY <1>1, <1>2, <1>3, <1>4, <1>7 DEF Lies
  <2> QED BY <2>1, <2>2, <1>1, <1>6, <1>7 DEF GuessesOK, e, w
<1>9. CASE v = "wrong"
  <2> DEFINE now == 0
  <2>1. h = <<now>> \o g /\ now \in Ages /\ now = 0
    BY <1>1, <1>9 DEF Ages, Compared
  <2> HIDE DEF h, now
  <2>2. /\ h \in Seq(Ages) /\ Len(h) = Len(g) + 1 /\ h[1] = now
        /\ \A k \in 2 .. Len(h) : h[k] = g[k - 1]
    BY <2>1, <1>1
  <2>3. \A i, j \in 1 .. Len(h) : i <= j => h[i] <= h[j]
    <3> SUFFICES ASSUME NEW i \in 1 .. Len(h), NEW j \in 1 .. Len(h), i <= j
                 PROVE  h[i] <= h[j]
      OBVIOUS
    <3>1. CASE i = 1
      BY <3>1, <2>1, <2>2, <1>1
    <3>2. CASE i # 1
      <4>1. i \in 2 .. Len(h) /\ j \in 2 .. Len(h) /\ i - 1 \in 1 .. Len(g) /\ j - 1 \in 1 .. Len(g)
        BY <3>2, <2>2, <1>1
      <4>2. h[i] = g[i - 1] /\ h[j] = g[j - 1] /\ i - 1 <= j - 1
        BY <4>1, <2>2
      <4> QED BY <4>1, <4>2, <1>1
    <3> QED BY <3>1, <3>2
  <2>4. Lies(h, e, l + 1)
    <3>1. \A k \in 1 .. Len(h) : k <= l + 1 <=> h[k] <= e.age
      <4> SUFFICES ASSUME NEW k \in 1 .. Len(h)
                   PROVE  k <= l + 1 <=> h[k] <= e.age
        OBVIOUS
      <4>1. CASE k = 1
        BY <4>1, <2>1, <2>2, <1>1, <1>2, <1>3, <1>4, <1>7
      <4>2. CASE k # 1
        <5>1. k \in 2 .. Len(h) /\ k - 1 \in 1 .. Len(g)
          BY <4>2, <2>2, <1>1
        <5>2. k - 1 <= l <=> g[k - 1] <= e.age
          BY <5>1, <1>7
        <5> QED BY <5>1, <5>2, <2>2, <1>1, <1>7
      <4> QED BY <4>1, <4>2
    <3>2. l + 1 <= e.num /\ l + 1 <= MaxFails /\ Len(h) - (l + 1) <= MaxFails
      BY <2>2, <1>1, <1>2, <1>3, <1>4, <1>7, <1>9
    <3> QED BY <3>1, <3>2 DEF Lies
  <2>5. l + 1 \in 0 .. Len(h)
    BY <2>2, <1>1, <1>7
  <2> QED BY <2>2, <2>3, <2>4, <2>5, <1>6 DEF GuessesOK, h, e, w
<1> QED BY <1>8, <1>9

(* An account without failures, and nobody has guessed yet.                *)
LEMMA NoGuessesYet == GuessesOK(<<>>, [age |-> Window, num |-> 0])
<1> DEFINE f == [age |-> Window, num |-> 0]
<1>1. <<>> \in Seq(Ages) /\ Len(<<>>) = 0 /\ f.num = 0
  OBVIOUS
<1> HIDE DEF f
<1>2. Lies(<<>>, f, 0)
  BY <1>1, AdminAssumption DEF Lies
<1> QED BY <1>1, <1>2 DEF GuessesOK, f

(* The empty file.                                                         *)
LEMMA InitGuesses == Init => GuessInv
<1> SUFFICES ASSUME Init PROVE GuessInv
  OBVIOUS
<1>1. PICK n \in Names : acc = [c \in Cells |-> Created(n)]
  BY DEF Init, FileInit
<1>2. guesses = [c \in Cells |-> [op \in Ops |-> <<>>]]
  BY DEF Init
<1>3. \A c \in Cells, op \in Ops : acc[c].fails[op] = [age |-> Window, num |-> 0]
  BY <1>1 DEF Created, NoFails
<1>4. <<>> \in Seq(Ages)
  OBVIOUS
<1> QED BY <1>2, <1>3, <1>4, NoGuessesYet DEF GuessInv

(* An attempt at a record, and what is compared in it.                     *)
LEMMA AttemptCounts ==
  ASSUME NEW r \in Records, NEW op \in Ops, NEW pw, NEW h, NEW v \in Verdicts(r, op, h, pw),
         NEW g, GuessesOK(g, r.fails[op])
  PROVE  /\ GuessesOK(Compared(g, v), Record(r, op, v).fails[op])
         /\ \A o \in Ops : o # op => Record(r, op, v).fails[o] = r.fails[o]
<1>1. r.fails \in [Ops -> Fails]
  BY DEF Records, Fails
<1>2. v = "wrong" => ~ TooMany(Windowed(r.fails[op]))
  BY DEF Verdicts
<1>3. Record(r, op, v).fails = [r.fails EXCEPT ![op] = Counted(Windowed(r.fails[op]), op, v)]
  BY DEF Record, Records
<1>4. Record(r, op, v).fails[op] = Counted(Windowed(r.fails[op]), op, v)
  BY <1>1, <1>3
<1>5. \A o \in Ops : o # op => Record(r, op, v).fails[o] = r.fails[o]
  BY <1>1, <1>3
<1>6. r.fails[op] \in Fails
  BY <1>1
<1>7. GuessesOK(Compared(g, v), Counted(Windowed(r.fails[op]), op, v))
  BY <1>2, <1>6, GuessCounts
<1> QED BY <1>4, <1>5, <1>7

(* The end of a handler, of either command, on the record it found.        *)
LEMMA EndCounts ==
  ASSUME GuessInv, acc \in [Cells -> Records], NEW c \in Cells, NEW op \in Ops,
         NEW pw, NEW h, NEW v \in Verdicts(acc[c], op, h, pw), NEW r,
         r.fails = Record(acc[c], op, v).fails,
         acc' = [acc EXCEPT ![c] = r],
         guesses' = [guesses EXCEPT ![c][op] = Compared(@, v)]
  PROVE  GuessInv'
<1> DEFINE g == Compared(guesses[c][op], v)
<1>1. /\ guesses \in [Cells -> [Ops -> Seq(Ages)]]
      /\ \A d \in Cells, o \in Ops : GuessesOK(guesses[d][o], acc[d].fails[o])
  BY DEF GuessInv
<1>2. /\ GuessesOK(g, Record(acc[c], op, v).fails[op])
      /\ \A o \in Ops : o # op => Record(acc[c], op, v).fails[o] = acc[c].fails[o]
  <2>1. acc[c] \in Records /\ GuessesOK(guesses[c][op], acc[c].fails[op])
    BY <1>1
  <2> QED BY <2>1, AttemptCounts
<1>3. g \in Seq(Ages)
  BY <1>2 DEF GuessesOK
<1>4. guesses' = [guesses EXCEPT ![c] = [guesses[c] EXCEPT ![op] = g]]
  BY <1>1
<1> HIDE DEF g
<1>5. guesses' \in [Cells -> [Ops -> Seq(Ages)]]
  BY <1>1, <1>3, <1>4
<1>6. ASSUME NEW d \in Cells, NEW o \in Ops
      PROVE  GuessesOK(guesses'[d][o], acc'[d].fails[o])
  <2>1. CASE d # c
    <3>1. guesses'[d] = guesses[d] /\ acc'[d] = acc[d]
      BY <2>1, <1>1, <1>4
    <3> QED BY <3>1, <1>1
  <2>2. CASE d = c
    <3>1. guesses'[d] = [guesses[c] EXCEPT ![op] = g] /\ acc'[d] = r
      BY <2>2, <1>1, <1>4
    <3>2. CASE o = op
      BY <3>1, <3>2, <1>1, <1>2
    <3>3. CASE o # op
      BY <3>1, <3>3, <1>1, <1>2
    <3> QED BY <3>2, <3>3
  <2> QED BY <2>1, <2>2
<1> QED BY <1>5, <1>6 DEF GuessInv

(* The tools touch no counter but those of an account they make.           *)
LEMMA ToolsKeepFails ==
  ASSUME acc \in [Cells -> Records], Tools
  PROVE  \A c \in Cells : /\ c \in used' \ used => acc'[c].fails = NoFails
                          /\ c \notin used' \ used => acc'[c].fails = acc[c].fails
<1>1. ASSUME NEW n \in Names, CreateAccount(n)
      PROVE  \A c \in Cells : /\ c \in used' \ used => acc'[c].fails = NoFails
                              /\ c \notin used' \ used => acc'[c].fails = acc[c].fails
  <2>1. PICK e \in Room : used' = used \cup {e} /\ acc' = [acc EXCEPT ![e] = Created(n)]
    BY <1>1 DEF CreateAccount
  <2>2. e \notin used /\ Created(n).fails = NoFails
    BY <2>1 DEF Room, Created
  <2> QED BY <2>1, <2>2
<1>2. ASSUME NEW c \in Cells, NEW p \in Patterns,
             AddHost(c, p) \/ RemoveHost(c, p)
      PROVE  used' = used /\ \A d \in Cells : acc'[d].fails = acc[d].fails
  <2>1. PICK s : used' = used /\ acc' = [acc EXCEPT ![c].hosts = s]
    BY <1>2 DEF AddHost, RemoveHost
  <2> QED BY <2>1 DEF Records
<1>3. ASSUME NEW c \in Cells, RemoveAccount(c)
      PROVE  used' \subseteq used /\ \A d \in Cells : acc'[d].fails = acc[d].fails
  BY <1>3 DEF RemoveAccount, Records
<1>4. ASSUME NEW c \in Cells, NEW pw \in Passwords, SetPassword(c, pw)
      PROVE  used' = used /\ \A d \in Cells : acc'[d].fails = acc[d].fails
  BY <1>4 DEF SetPassword, Records
<1>5. ASSUME NEW c \in Cells, NEW when \in {"never", "later", "past"}, SetExpire(c, when)
      PROVE  used' = used /\ \A d \in Cells : acc'[d].fails = acc[d].fails
  BY <1>5 DEF SetExpire, Records
<1>6. CASE ToolLocks \/ ToolEnds
  BY <1>6 DEF ToolLocks, ToolEnds
<1> QED BY <1>1, <1>2, <1>3, <1>4, <1>5, <1>6 DEF Tools

(* No step of services, of a tool, of a client or of the clock breaks it.  *)
LEMMA StepGuesses == IInv /\ GuessInv /\ [Next]_vars => GuessInv'
<1> SUFFICES ASSUME IInv, GuessInv, [Next]_vars PROVE GuessInv'
  OBVIOUS
<1>1. /\ acc \in [Cells -> Records]
      /\ guesses \in [Cells -> [Ops -> Seq(Ages)]]
      /\ \A c \in Cells, op \in Ops : GuessesOK(guesses[c][op], acc[c].fails[op])
  BY TypeParts DEF IInv, GuessInv
<1>2. ASSUME acc' = acc, guesses' = guesses
      PROVE  GuessInv'
  BY <1>1, <1>2 DEF GuessInv
<1>3. ASSUME NEW a \in Addresses,
             \/ \E h \in Hosts : Arrive(a, h)
             \/ \E n \in Names : Login(a, n)
             \/ Leave(a) \/ Passwd(a) \/ PasswdOfNobody(a) \/ Logout(a)
      PROVE  GuessInv'
  BY <1>2, <1>3 DEF Arrive, Login, Leave, Passwd, PasswdOfNobody, Logout, Begin, filevars
<1>4. CASE Reload \/ UNCHANGED vars
  BY <1>2, <1>4 DEF Reload, vars, filevars
<1>5. ASSUME NEW pw \in Passwords, NEW command \in BOOLEAN, LoginEnds(pw, command)
      PROVE  GuessInv'
  <2>1. call \in Calls
    BY <1>5 DEF IInv, HandlerOK, LoginEnds, Idle
  <2>2. PICK v \in Verdicts(acc[call.cell], "login", host[call.from], pw) :
          /\ guesses' = [guesses EXCEPT ![call.cell]["login"] = Compared(@, v)]
          /\ acc' = [acc EXCEPT ![call.cell] = Record(acc[call.cell], "login", v)]
    BY <1>5 DEF LoginEnds, Ended, Compared
  <2>3. call.cell \in Cells /\ "login" \in Ops
    BY <2>1 DEF Calls, Ops
  <2> QED BY <2>2, <2>3, <1>1, EndCounts
<1>6. ASSUME NEW pw \in Passwords, NEW new \in Passwords, PasswdEnds(pw, new)
      PROVE  GuessInv'
  <2>1. call \in Calls
    BY <1>6 DEF IInv, HandlerOK, PasswdEnds, Idle
  <2>2. PICK v \in Verdicts(acc[call.cell], "passwd", host[call.from], pw) :
          /\ guesses' = [guesses EXCEPT ![call.cell]["passwd"] = Compared(@, v)]
          /\ acc' = [acc EXCEPT ![call.cell] =
                        [Record(acc[call.cell], "passwd", v) EXCEPT
                           !.passwd = IF v = "right" THEN new ELSE @]]
    BY <1>6 DEF PasswdEnds, Ended, Compared
  <2>3. call.cell \in Cells /\ "passwd" \in Ops
    BY <2>1 DEF Calls, Ops
  <2>4. PICK r : /\ acc' = [acc EXCEPT ![call.cell] = r]
                 /\ r.fails = Record(acc[call.cell], "passwd", v).fails
    <3>1. PICK k : k = Record(acc[call.cell], "passwd", v)
      OBVIOUS
    <3>2. k \in Records
      BY <3>1, <2>3, <1>1, RecordedAccount
    <3>3. PICK pass : acc' = [acc EXCEPT ![call.cell] = [k EXCEPT !.passwd = pass]]
      BY <2>2, <3>1
    <3>4. [k EXCEPT !.passwd = pass].fails = k.fails
      BY <3>2 DEF Records
    <3> QED BY <3>1, <3>3, <3>4
  <2>5. guesses' = [guesses EXCEPT ![call.cell]["passwd"] = Compared(@, v)]
    BY <2>2
  <2> QED BY <2>3, <2>4, <2>5, <1>1, EndCounts
<1>7. CASE Tick
  <2>1. guesses' = [c \in Cells |-> [op \in Ops |-> Recent(guesses[c][op])]]
    BY <1>7 DEF Tick
  <2>2. ASSUME NEW c \in Cells, NEW op \in Ops
        PROVE  GuessesOK(guesses'[c][op], acc'[c].fails[op])
    <3>1. PICK k : k = Older(acc[c])
      OBVIOUS
    <3>2. k \in Records
      BY <3>1, <1>1, OlderAccount
    <3>3. PICK e : acc'[c] = [k EXCEPT !.expires = e]
      BY <3>1, <1>7 DEF Tick
    <3>4. acc'[c].fails = k.fails
      BY <3>2, <3>3 DEF Records
    <3>5. acc[c] \in Records
      BY <1>1
    <3>6. k.fails = [o \in Ops |-> Aged(acc[c].fails[o])]
      BY <3>1, <3>5 DEF Older, Records
    <3>7. acc'[c].fails[op] = Aged(acc[c].fails[op])
      BY <3>4, <3>6
    <3>8. acc[c].fails[op] \in Fails
      BY <1>1 DEF Records, Fails
    <3>9. GuessesOK(Recent(guesses[c][op]), Aged(acc[c].fails[op]))
      BY <3>8, <1>1, GuessesAge
    <3> QED BY <3>7, <3>9, <2>1
  <2>3. \A c \in Cells, op \in Ops : Recent(guesses[c][op]) \in Seq(Ages)
    BY <2>1, <2>2 DEF GuessesOK
  <2> QED BY <2>1, <2>2, <2>3 DEF GuessInv
<1>8. CASE ToolRuns
  <2>1. \A c \in Cells : /\ c \in used' \ used => acc'[c].fails = NoFails
                         /\ c \notin used' \ used => acc'[c].fails = acc[c].fails
    BY <1>1, <1>8, ToolsKeepFails DEF ToolRuns
  <2>2. guesses' = [c \in Cells |->
                      IF c \in used' \ used THEN [op \in Ops |-> <<>>] ELSE guesses[c]]
    BY <1>8 DEF ToolRuns
  <2>3. \A op \in Ops : NoFails[op] = [age |-> Window, num |-> 0]
    BY DEF NoFails
  <2>4. <<>> \in Seq(Ages)
    OBVIOUS
  <2>5. guesses' \in [Cells -> [Ops -> Seq(Ages)]]
    BY <2>2, <2>4, <1>1
  <2>6. ASSUME NEW c \in Cells, NEW op \in Ops
        PROVE  GuessesOK(guesses'[c][op], acc'[c].fails[op])
    <3>1. CASE c \in used' \ used
      <4>1. guesses'[c][op] = <<>> /\ acc'[c].fails[op] = [age |-> Window, num |-> 0]
        BY <3>1, <2>1, <2>2, <2>3
      <4> QED BY <4>1, NoGuessesYet
    <3>2. CASE c \notin used' \ used
      BY <3>2, <2>1, <2>2, <1>1
    <3> QED BY <3>1, <3>2
  <2> QED BY <2>5, <2>6 DEF GuessInv
<1> QED BY <1>3, <1>4, <1>5, <1>6, <1>7, <1>8 DEF Next

(* However attempts, ticks, edits and reloads mix, no more than twice      *)
(* MaxFails wrong passwords are compared with an account's in any Window   *)
(* (FewGuesses of Admin, for the counters of _do_login and _do_passwd).    *)
THEOREM GuessesAreFew == Spec => []FewGuesses
<1>1. IInv /\ GuessInv => FewGuesses
  <2> SUFFICES ASSUME IInv, GuessInv, NEW c \in used, NEW op \in Ops
               PROVE  Len(guesses[c][op]) <= 2 * MaxFails
    BY DEF FewGuesses
  <2>1. c \in Cells
    BY TypeParts DEF IInv
  <2>2. GuessesOK(guesses[c][op], acc[c].fails[op])
    BY <2>1 DEF GuessInv
  <2>3. PICK m \in 0 .. Len(guesses[c][op]) :
          m <= MaxFails /\ Len(guesses[c][op]) - m <= MaxFails
    BY <2>2 DEF GuessesOK, Lies
  <2>4. Len(guesses[c][op]) \in Nat /\ MaxFails \in Nat
    BY <2>2, AdminAssumption DEF GuessesOK
  <2> QED BY <2>3, <2>4
<1> QED BY <1>1, InitIsRight, StepIsRight, InitGuesses, StepGuesses, PTL DEF Spec
=============================================================================
