----------------------------- MODULE JupesProofs ------------------------------
(***************************************************************************)
(* Proofs about Jupes for any opers, servers, points, time-out and number  *)
(* of jupes: a jupe is what its opers voted for, a restart brings the      *)
(* active ones back, and each of them has one module client.               *)
(*                                                                         *)
(* None of the three is inductive alone.  The file has to be as good as    *)
(* the list that it may become, except in its last jupe when it was cut,   *)
(* and names must not be in it twice.  For an unjupe to leave a list at    *)
(* all, j_prev has to name the jupe in front, or nobody, or memory that    *)
(* was freed: Linked.                                                      *)
(***************************************************************************)
EXTENDS Jupes, DataProofs

(* Who voted, by server.                                                   *)
Ballots ==
  {v \in UNION {[D -> Userhosts] : D \in SUBSET Servers} : IsFiniteSet(DOMAIN v)}

Expiry == 0 .. Timeout \cup {Never}

Entry == [name : Names, active : BOOLEAN, expires : Expiry, score : Nat, votes : Ballots]
Jupe == [name : Names, active : BOOLEAN, expires : Expiry, score : Nat, votes : Ballots,
         prev : Nat]

(* A jupe, in memory or in the file, is what its opers voted for.          *)
Good(r) ==
  /\ r.score = Worth(r.votes)
  /\ \A s, t \in DOMAIN r.votes : r.votes[s] = r.votes[t] => s = t
  /\ r.active => r.score >= Needed
  /\ r.active <=> r.expires = Never

AllGood(m) == \A j \in DOMAIN m : Good(m[j])

(* What j_prev names is in front, if it is there at all.                   *)
Linked(l, m) ==
  \A k \in 1 .. Len(l) :
    m[l[k]].prev \in DOMAIN m => k > 1 /\ l[k - 1] = m[l[k]].prev

(* The list l through the memory m, of b structures so far.                *)
Memory(l, m, b) ==
  /\ m \in [DOMAIN m -> Jupe] /\ DOMAIN m \subseteq 1 .. b
  /\ \A j \in DOMAIN m : m[j].prev <= b /\ (m[j].active => m[j].expires = Never)
  /\ l \in Seq(DOMAIN m) /\ NoTwice(l)
  /\ \A i, j \in Elements(l) : m[i].name = m[j].name => i = j
  /\ Linked(l, m)

ActiveOf(S, m) == {Saved(m[j]) : j \in {i \in S : m[i].active}}
ActiveIn(l, m) == ActiveOf(Elements(l), m)
HeldIn(m, n) == {j \in DOMAIN m : m[j].name = n /\ m[j].active}

FileOK ==
  /\ file \in Seq(Entry) /\ Len(file) <= MaxJupes
  /\ \A k, l \in 1 .. Len(file) : file[k].name = file[l].name => k = l
  /\ \A k \in 1 .. Len(file) : file[k].active => file[k].expires = Never
  /\ end \in {"whole", "cut", "bare"} /\ saved \in BOOLEAN /\ failures \in 0 .. MaxFailures

FileGood == \A k \in 1 .. Len(file) : Good(file[k]) \/ (end = "cut" /\ k = Len(file))
ActiveInFile == {r \in Elements(file) : r.active}

IInv ==
  /\ born \in 0 .. MaxJupes /\ Memory(list, jupes, born) /\ FileOK
  /\ intact \in BOOLEAN /\ wild \in BOOLEAN /\ clients \in [Names -> 0 .. MaxJupes]
  /\ intact => AllGood(jupes) /\ FileGood
  /\ saved => ActiveIn(list, jupes) = ActiveInFile
  /\ ~ wild => \A n \in Names : clients[n] = Cardinality(HeldIn(jupes, n))

-----------------------------------------------------------------------------
(* No votes are worth nothing.                                             *)
LEMMA NoVotes == <<>> \in Ballots /\ DOMAIN <<>> = {} /\ Worth(<<>>) = 0
<1>1. DOMAIN <<>> = {}
  OBVIOUS
<1>2. <<>> \in [{} -> Userhosts]
  BY <1>1
<1>3. <<>> \in Ballots
  BY <1>1, <1>2, FS_EmptySet DEF Ballots
<1> DEFINE g == [s \in DOMAIN <<>> |-> Points(<<>>[s])]
<1>4. DOMAIN g = {}
  BY <1>1
<1> HIDE DEF g
<1>5. SumFunction(g) = 0
  BY <1>4, SumEmpty DEF SumFunction
<1> QED BY <1>1, <1>3, <1>5 DEF Worth, g

(* A vote from another server counts for what its oper has.                *)
LEMMA OneVoteMore ==
  ASSUME NEW v \in Ballots, NEW u \in Userhosts, NEW s \in Servers, s \notin DOMAIN v
  PROVE  LET w == WithVote(v, s, u)
         IN  /\ w \in Ballots /\ DOMAIN w = DOMAIN v \cup {s} /\ w[s] = u
             /\ \A t \in DOMAIN v : w[t] = v[t]
             /\ Worth(w) = Worth(v) + Points(u)
<1> DEFINE w == WithVote(v, s, u)
           D == DOMAIN v
           f == [t \in DOMAIN v |-> Points(v[t])]
           g == [t \in DOMAIN w |-> Points(w[t])]
<1>0. \A x \in Userhosts : Points(x) \in Int
  BY JupesAssumption DEF Points
<1>1. D \subseteq Servers /\ IsFiniteSet(D) /\ v \in [D -> Userhosts]
  BY DEF Ballots
<1>2. DOMAIN w = D \cup {s} /\ w[s] = u /\ \A t \in D : w[t] = v[t]
  BY DEF WithVote
<1>3. w \in [D \cup {s} -> Userhosts]
  <2>1. w = [t \in D \cup {s} |-> w[t]]
    BY DEF WithVote
  <2> HIDE DEF w, D
  <2> QED BY <1>1, <1>2, <2>1
<1> HIDE DEF w
<1>4. IsFiniteSet(D \cup {s}) /\ D \cup {s} \in SUBSET Servers
  BY <1>1, FS_AddElement
<1>5. w \in Ballots
  BY <1>2, <1>3, <1>4 DEF Ballots
<1>6. /\ DOMAIN f = D /\ DOMAIN g = D \cup {s} /\ g[s] = Points(u)
      /\ \A t \in D : f[t] \in Int /\ g[t] = f[t]
      /\ \A t \in D \cup {s} : g[t] \in Int
  BY <1>0, <1>1, <1>2, <1>3
<1>7. Worth(v) = SumFunctionOnSet(f, D) /\ Worth(w) = SumFunctionOnSet(g, D \cup {s})
  BY <1>6 DEF Worth, SumFunction
<1> HIDE DEF f, g, D
<1>8. SumFunctionOnSet(g, D \cup {s}) = g[s] + SumFunctionOnSet(g, D)
  BY <1>1, <1>6, SumWith DEF D
<1>9. SumFunctionOnSet(g, D) = SumFunctionOnSet(f, D)
  BY <1>1, <1>6, SumEqual
<1>10. SumFunctionOnSet(f, D) \in Int
  BY <1>1, <1>6, SumWithout
<1>11. Worth(w) = Worth(v) + Points(u)
  BY <1>0, <1>6, <1>7, <1>8, <1>9, <1>10
<1> QED BY <1>2, <1>5, <1>11 DEF w, D

-----------------------------------------------------------------------------
(* A list is one of whatever its elements are.                             *)
LEMMA ListOf ==
  ASSUME NEW S, NEW T, NEW s \in Seq(S), \A i \in 1 .. Len(s) : s[i] \in T
  PROVE  s \in Seq(T) /\ Elements(s) \subseteq T
<1>1. Len(s) \in Nat /\ s \in [1 .. Len(s) -> S]
  BY LenProperties
<1>2. s \in [1 .. Len(s) -> T]
  BY <1>1
<1>3. s \in Seq(T)
  BY <1>1, <1>2, SeqDef
<1> QED BY <1>3 DEF Elements

(* There are no more jupes in a list than structures.                      *)
LEMMA ListIsShort ==
  ASSUME NEW b \in Nat, NEW l \in Seq(1 .. b), NoTwice(l)
  PROVE  Len(l) <= b
<1> DEFINE n == Len(l)
<1>1. n \in Nat /\ l \in [1 .. n -> 1 .. b]
  BY LenProperties
<1>2. l \in Injection(1 .. n, 1 .. b)
  BY <1>1 DEF NoTwice, Injection, IsInjective
<1> HIDE DEF n
<1>3. IsFiniteSet(1 .. b) /\ Cardinality(1 .. b) = b /\ Cardinality(1 .. n) = n
  <2>1. IsFiniteSet(1 .. b) /\ Cardinality(1 .. b) = b
    BY FS_Interval
  <2>2. Cardinality(1 .. n) = n
    BY <1>1, FS_Interval
  <2> QED BY <2>1, <2>2
<1>4. Cardinality(1 .. n) <= Cardinality(1 .. b)
  BY <1>2, <1>3, FS_Injection
<1> QED BY <1>3, <1>4 DEF n

(* The structures of gone, none of them active, are freed: the list and    *)
(* the memory are now k and r.                                             *)
Thinned(l, m, gone, k, r) ==
  /\ DOMAIN r = DOMAIN m \ gone /\ \A j \in DOMAIN r : r[j] = m[j]
  /\ Elements(k) = Elements(l) \ gone
  /\ ActiveIn(k, r) = ActiveIn(l, m)
  /\ \A n \in Names : HeldIn(r, n) = HeldIn(m, n)

LEMMA LeavesOut ==
  ASSUME NEW b \in Nat, NEW l, NEW m, Memory(l, m, b), NEW gone,
         \A j \in DOMAIN m : j \in gone => ~ m[j].active,
         NEW k, k = Keep(l, DOMAIN m \ gone), NEW r, r = Restrict(m, DOMAIN m \ gone)
  PROVE  Memory(k, r, b) /\ Thinned(l, m, gone, k, r)
<1> DEFINE D == DOMAIN m
           C == D \ gone
<1>1. /\ m \in [D -> Jupe] /\ D \subseteq 1 .. b /\ l \in Seq(D) /\ NoTwice(l)
      /\ \A j \in D : m[j].prev <= b /\ (m[j].active => m[j].expires = Never)
      /\ \A i, j \in Elements(l) : m[i].name = m[j].name => i = j
      /\ Linked(l, m)
  BY DEF Memory
<1>2. DOMAIN r = C /\ (\A j \in C : r[j] = m[j]) /\ r \in [C -> Jupe]
  BY <1>1 DEF Restrict
<1>3. Elements(k) = Elements(l) \cap C /\ NoTwice(k) /\ k \in Seq(D)
  BY <1>1, KeepKeeps
<1>4. PICK at : KeptFrom(l, C, k, at)
  BY <1>1, KeepPlaces
<1>5. Len(l) \in Nat /\ Len(k) \in Nat /\ DOMAIN k = 1 .. Len(k)
  BY <1>1, <1>3, LenProperties
<1>6. \A i \in 1 .. Len(l) : l[i] \in D
  BY <1>1, ElementOfSeq
<1>7. Elements(l) \subseteq D
  BY <1>6 DEF Elements
<1>8. k \in Seq(C)
  <2>1. \A i \in 1 .. Len(k) : k[i] \in C
    BY <1>4 DEF KeptFrom
  <2> QED BY <1>3, <2>1, ListOf
<1>9. Linked(k, r)
  <2> SUFFICES ASSUME NEW i \in 1 .. Len(k), r[k[i]].prev \in DOMAIN r
               PROVE  i > 1 /\ k[i - 1] = r[k[i]].prev
    BY DEF Linked
  <2>1. k[i] \in C /\ r[k[i]] = m[k[i]] /\ k[i] = l[at[i]] /\ at[i] \in 1 .. Len(l)
    BY <1>2, <1>4 DEF KeptFrom
  <2>2. m[l[at[i]]].prev \in C
    BY <1>2, <2>1
  <2>3. at[i] > 1 /\ l[at[i] - 1] = m[l[at[i]]].prev
    BY <1>1, <2>1, <2>2 DEF Linked
  <2>4. at[i] - 1 \in 1 .. Len(l) /\ l[at[i] - 1] \in C
    BY <1>5, <2>1, <2>2, <2>3
  <2>5. PICK h \in 1 .. Len(k) : at[h] = at[i] - 1
    BY <1>4, <2>4 DEF KeptFrom
  <2>6. /\ \A q \in 1 .. Len(k) : at[q] \in Int
        /\ \A q, s \in 1 .. Len(k) : q < s => at[q] < at[s]
    <3>1. \A q \in 1 .. Len(k) : at[q] \in 1 .. Len(l)
      BY <1>4 DEF KeptFrom
    <3>2. \A q \in 1 .. Len(k) : at[q] \in Int
      <4>1. 1 .. Len(l) \subseteq Int
        OBVIOUS
      <4> QED BY <3>1, <4>1
    <3>3. \A q, s \in 1 .. Len(k) : q < s => at[q] < at[s]
      BY <1>4 DEF KeptFrom
    <3> QED BY <3>2, <3>3
  <2>7. h < i
    <3> DEFINE x == at[h]
               y == at[i]
    <3>1. x \in Int /\ y \in Int /\ x = y - 1
      BY <2>5, <2>6
    <3>2. (i < h => y < x) /\ (i = h => y = x)
      BY <2>6
    <3> HIDE DEF x, y
    <3>3. ~ (i < h) /\ i # h
      BY <3>1, <3>2
    <3> QED BY <1>5, <3>3
  <2>8. i - 1 \in 1 .. Len(k) /\ i > 1
    BY <1>5, <2>7
  <2>9. h = i - 1
    <3>1. at[h] \in Int /\ at[i] \in Int /\ at[i - 1] \in Int
      BY <2>6, <2>8
    <3>4. i - 1 < i
      BY <1>5
    <3>3. at[i - 1] < at[i]
      BY <2>6, <2>8, <3>4
    <3>2. h < i - 1 => at[h] < at[i - 1]
      BY <2>6, <2>8
    <3> QED BY <1>5, <2>5, <2>7, <2>8, <3>1, <3>2, <3>3
  <2>10. k[i - 1] = l[at[i] - 1]
    BY <1>4, <2>5, <2>9 DEF KeptFrom
  <2> QED BY <2>1, <2>3, <2>8, <2>10
<1>10. Memory(k, r, b)
  <2>1. \A j \in C : r[j].prev <= b /\ (r[j].active => r[j].expires = Never)
    BY <1>1, <1>2
  <2>2. \A i, j \in Elements(k) : r[i].name = r[j].name => i = j
    BY <1>1, <1>2, <1>3
  <2> QED BY <1>1, <1>2, <1>3, <1>8, <1>9, <2>1, <2>2 DEF Memory
<1>11. Elements(k) = Elements(l) \ gone
  BY <1>3, <1>7
<1>12. {j \in Elements(k) : r[j].active} = {j \in Elements(l) : m[j].active}
  BY <1>2, <1>3, <1>7
<1>13. ActiveIn(k, r) = ActiveIn(l, m)
  <2> DEFINE A == {j \in Elements(l) : m[j].active}
             B == {j \in Elements(k) : r[j].active}
  <2>1. A = B /\ \A j \in B : r[j] = m[j]
    BY <1>2, <1>3, <1>12
  <2> HIDE DEF A, B
  <2>2. {Saved(r[j]) : j \in B} = {Saved(m[j]) : j \in A}
    BY <2>1
  <2> QED BY <2>2 DEF ActiveIn, ActiveOf, A, B
<1>14. \A n \in Names : HeldIn(r, n) = HeldIn(m, n)
  BY <1>2 DEF HeldIn
<1> QED BY <1>2, <1>10, <1>11, <1>13, <1>14 DEF Thinned

(* Two structures that differ in j_prev at most.                           *)
Alike(x, y) ==
  /\ x.name = y.name /\ x.active = y.active /\ x.expires = y.expires
  /\ x.score = y.score /\ x.votes = y.votes

LEMMA Relinked ==
  ASSUME NEW x \in Jupe, NEW p \in Nat, NEW y, y = [x EXCEPT !.prev = p]
  PROVE  y \in Jupe /\ y.prev = p /\ Alike(x, y) /\ (Good(x) => Good(y))
<1>1. y \in Jupe /\ y.prev = p
  BY DEF Jupe
<1>2. Alike(x, y)
  BY DEF Alike, Jupe
<1> QED BY <1>1, <1>2 DEF Alike, Good

LEMMA AlikeActive ==
  ASSUME NEW S, NEW m, NEW r, \A j \in S : Alike(m[j], r[j])
  PROVE  ActiveOf(S, r) = ActiveOf(S, m)
<1> DEFINE A == {i \in S : m[i].active}
           B == {i \in S : r[i].active}
<1>1. A = B /\ \A j \in A : Saved(r[j]) = Saved(m[j])
  BY DEF Alike, Saved
<1> HIDE DEF A, B
<1>2. {Saved(r[j]) : j \in B} = {Saved(m[j]) : j \in A}
  BY <1>1
<1> QED BY <1>2 DEF A, B, ActiveOf

(* What an oper's first vote for n starts with, the structure j.           *)
Fresh(x, n) ==
  /\ x \in Jupe /\ x.name = n /\ ~ x.active /\ x.score = 0 /\ x.votes = <<>>
  /\ x.prev = NULL

(* j is new in front of the list.                                          *)
Grown(l, m, j, n, k, r) ==
  /\ DOMAIN r = DOMAIN m \cup {j} /\ Fresh(r[j], n) /\ Good(r[j])
  /\ \A i \in DOMAIN m : Alike(m[i], r[i]) /\ (Good(m[i]) => Good(r[i]))
  /\ Elements(k) = Elements(l) \cup {j}
  /\ ActiveIn(k, r) = ActiveIn(l, m)
  /\ \A v \in Names : HeldIn(r, v) = HeldIn(m, v)

LEMMA FirstVote ==
  ASSUME NEW b \in Nat, NEW l, NEW m, Memory(l, m, b), NEW n \in Names,
         \A i \in Elements(l) : m[i].name # n,
         NEW j, j = b + 1,
         NEW L, L = Pushed([list |-> l, jupes |-> m], j, n)
  PROVE  Memory(L.list, L.jupes, j) /\ Grown(l, m, j, n, L.list, L.jupes)
<1> DEFINE D == DOMAIN m
           k == L.list
           r == L.jupes
           new == [name |-> n, active |-> FALSE, expires |-> Timeout, score |-> 0,
                   votes |-> <<>>, prev |-> NULL]
           p(i) == IF l # <<>> /\ i = l[1] THEN j ELSE m[i].prev
<1>1. /\ m \in [D -> Jupe] /\ D \subseteq 1 .. b /\ l \in Seq(D) /\ NoTwice(l)
      /\ \A i \in D : m[i].prev <= b /\ (m[i].active => m[i].expires = Never)
      /\ \A h, i \in Elements(l) : m[h].name = m[i].name => h = i
      /\ Linked(l, m)
  BY DEF Memory
<1>2. /\ k = <<j>> \o l /\ DOMAIN r = D \cup {j} /\ r[j] = new
      /\ \A i \in D : r[i] = [m[i] EXCEPT !.prev = p(i)]
  <2>1. j \notin D
    BY <1>1
  <2> QED BY <2>1 DEF Pushed
<1>3. \A i \in D : p(i) \in Nat /\ p(i) <= j
  <2>1. \A i \in D : m[i].prev \in Nat /\ m[i].prev <= b
    BY <1>1 DEF Jupe
  <2> QED BY <2>1
<1>4. \A i \in D : /\ r[i] \in Jupe /\ r[i].prev = p(i) /\ Alike(m[i], r[i])
                   /\ Good(m[i]) => Good(r[i])
  <2> SUFFICES ASSUME NEW i \in D
               PROVE  /\ r[i] \in Jupe /\ r[i].prev = p(i) /\ Alike(m[i], r[i])
                      /\ Good(m[i]) => Good(r[i])
    OBVIOUS
  <2>1. m[i] \in Jupe /\ p(i) \in Nat /\ r[i] = [m[i] EXCEPT !.prev = p(i)]
    BY <1>1, <1>2, <1>3
  <2> HIDE DEF p, r
  <2> QED BY <2>1, Relinked
<1> HIDE DEF k, r, p
<1>15. \A i \in D : r[i] \in Jupe
  BY <1>4
<1>16. \A i \in D : Alike(m[i], r[i])
  BY <1>4
<1>5. Fresh(r[j], n) /\ Good(r[j])
  <2>1. Timeout \in Expiry /\ Timeout # Never
    BY JupesAssumption DEF Expiry
  <2>2. new \in Jupe
    BY <2>1, NoVotes DEF Jupe, NULL
  <2> HIDE DEF r
  <2>3. Fresh(r[j], n)
    BY <1>2, <2>2 DEF Fresh
  <2>4. r[j].score = Worth(r[j].votes) /\ \A s, t \in DOMAIN r[j].votes : s = t
    BY <1>2, NoVotes
  <2> QED BY <1>2, <2>1, <2>3, <2>4 DEF Good
<1> HIDE DEF new
<1>6. /\ Len(l) \in Nat /\ (\A i \in 1 .. Len(l) : l[i] \in D) /\ Elements(l) \subseteq D
      /\ j \notin D
  <2>1. Len(l) \in Nat /\ \A i \in 1 .. Len(l) : l[i] \in D
    BY <1>1, LenProperties, ElementOfSeq
  <2>2. Elements(l) \subseteq D
    BY <2>1 DEF Elements
  <2>3. j \notin D
    BY <1>1
  <2> QED BY <2>1, <2>2, <2>3
<1>7. /\ k \in Seq(D \cup {j}) /\ Len(k) = Len(l) + 1 /\ k[1] = j
      /\ \A i \in 2 .. Len(k) : k[i] = l[i - 1] /\ i - 1 \in 1 .. Len(l)
      /\ NoTwice(k) /\ Elements(k) = Elements(l) \cup {j}
  <2>1. <<j>> \in Seq(D \cup {j}) /\ Len(<<j>>) = 1 /\ <<j>>[1] = j
    OBVIOUS
  <2>2. l \in Seq(D \cup {j})
    BY <1>1, <1>6, ListOf
  <2>3. NoTwice(<<j>>) /\ Elements(<<j>>) = {j}
    BY <2>1 DEF NoTwice, Elements
  <2>4. /\ k \in Seq(D \cup {j}) /\ Len(k) = 1 + Len(l)
        /\ \A i \in 1 .. 1 + Len(l) : k[i] = IF i <= 1 THEN <<j>>[i] ELSE l[i - 1]
    BY <1>2, <2>1, <2>2, ConcatProperties
  <2>5. NoTwice(k) /\ Elements(k) = Elements(l) \cup {j}
    <3> DEFINE E == D \cup {j}
               q == <<j>>
    <3>1. Elements(q) \cap Elements(l) = {}
      BY <1>6, <2>3
    <3>2. q \in Seq(E) /\ l \in Seq(E) /\ NoTwice(q) /\ NoTwice(l) /\ k = q \o l
      BY <1>1, <1>2, <2>1, <2>2, <2>3
    <3>3. Elements(q) = {j}
      BY <2>3
    <3> HIDE DEF E, q
    <3>4. NoTwice(k) /\ Elements(k) = Elements(q) \cup Elements(l)
      BY <3>1, <3>2, JoinedLists
    <3> QED BY <3>3, <3>4
  <2>6. 1 \in 1 .. 1 + Len(l) /\ \A i \in 2 .. 1 + Len(l) :
          i \in 1 .. 1 + Len(l) /\ ~ (i <= 1) /\ i - 1 \in 1 .. Len(l)
    BY <1>6
  <2> QED BY <1>6, <2>1, <2>4, <2>5, <2>6
<1>8. Linked(k, r)
  <2> SUFFICES ASSUME NEW i \in 1 .. Len(k), r[k[i]].prev \in DOMAIN r
               PROVE  i > 1 /\ k[i - 1] = r[k[i]].prev
    BY DEF Linked
  <2>1. CASE i = 1
    <3>1. r[k[i]].prev = NULL
      BY <1>5, <1>7, <2>1 DEF Fresh
    <3>2. NULL \notin DOMAIN r
      BY <1>1, <1>2 DEF NULL
    <3> QED BY <3>1, <3>2
  <2>2. CASE i # 1
    <3> DEFINE h == i - 1
    <3>1. h \in 1 .. Len(l) /\ k[i] = l[h] /\ i > 1 /\ i \in 2 .. Len(k)
      BY <1>6, <1>7, <2>2
    <3>2. r[k[i]].prev = p(l[h]) /\ l[h] \in D
      <4>1. l[h] \in D
        BY <1>6, <3>1
      <4> HIDE DEF h
      <4> QED BY <1>4, <3>1, <4>1
    <3>3. CASE h = 1
      <4>1. l # <<>> /\ p(l[h]) = j
        BY <3>1, <3>3 DEF p
      <4> QED BY <1>7, <3>1, <3>2, <3>3, <4>1
    <3>4. CASE h # 1
      <4>1. l[h] # l[1]
        <5>1. 1 \in 1 .. Len(l)
          BY <1>6, <3>1
        <5> HIDE DEF h
        <5> QED BY <1>1, <3>1, <3>4, <5>1 DEF NoTwice
      <4>2. p(l[h]) = m[l[h]].prev /\ m[l[h]].prev <= b /\ m[l[h]].prev \in Nat
        BY <1>1, <3>2, <4>1 DEF Jupe, p
      <4>3. m[l[h]].prev \in D
        BY <1>2, <3>2, <4>2
      <4>4. h > 1 /\ l[h - 1] = m[l[h]].prev
        BY <1>1, <3>1, <4>3 DEF Linked
      <4>5. k[h] = l[h - 1]
        <5>1. h \in 2 .. Len(k)
          BY <1>6, <1>7, <3>1, <4>4
        <5> HIDE DEF h
        <5> QED BY <1>7, <5>1
      <4> QED BY <3>1, <3>2, <4>2, <4>4, <4>5
    <3> QED BY <3>3, <3>4
  <2> QED BY <2>1, <2>2
<1>9. \A g, i \in Elements(k) : r[g].name = r[i].name => g = i
  <2>1. r[j].name = n
    BY <1>5 DEF Fresh
  <2>2. \A i \in Elements(l) : r[i].name = m[i].name
    BY <1>6, <1>16 DEF Alike
  <2> QED BY <1>1, <1>7, <2>1, <2>2
<1>10. Memory(k, r, j)
  <2>1. r \in [D \cup {j} -> Jupe]
    <3>1. r = [i \in D \cup {j} |-> r[i]]
      BY DEF r, Pushed
    <3>2. \A i \in D \cup {j} : r[i] \in Jupe
      BY <1>5, <1>15 DEF Fresh
    <3> QED BY <3>1, <3>2
  <2>2. D \cup {j} \subseteq 1 .. j
    BY <1>1
  <2>3. \A i \in D \cup {j} : r[i].prev <= j /\ (r[i].active => r[i].expires = Never)
    <3>1. r[j].prev <= j /\ ~ r[j].active
      BY <1>5 DEF Fresh, NULL
    <3>2. \A i \in D : r[i].prev <= j
      <4>1. \A i \in D : r[i].prev = p(i)
        BY <1>4
      <4> QED BY <1>3, <4>1
    <3>3. \A i \in D : r[i].active => r[i].expires = Never
      BY <1>1, <1>16 DEF Alike
    <3> QED BY <3>1, <3>2, <3>3
  <2> QED BY <1>2, <1>7, <1>8, <1>9, <2>1, <2>2, <2>3 DEF Memory
<1>11. ~ r[j].active
  BY <1>5 DEF Fresh
<1>12. ActiveIn(k, r) = ActiveIn(l, m)
  <2>1. {i \in Elements(k) : r[i].active} = {i \in Elements(l) : r[i].active}
    BY <1>7, <1>11
  <2>2. ActiveIn(k, r) = ActiveOf(Elements(l), r)
    BY <2>1 DEF ActiveIn, ActiveOf
  <2>3. \A i \in Elements(l) : Alike(m[i], r[i])
    BY <1>6, <1>16
  <2> QED BY <2>2, <2>3, AlikeActive DEF ActiveIn
<1>13. \A v \in Names : HeldIn(r, v) = HeldIn(m, v)
  <2>1. \A v : HeldIn(r, v) = {i \in D : r[i].name = v /\ r[i].active}
    BY <1>2, <1>11 DEF HeldIn
  <2>2. \A v : {i \in D : r[i].name = v /\ r[i].active} = {i \in D : m[i].name = v /\ m[i].active}
    BY <1>16 DEF Alike
  <2> QED BY <2>1, <2>2 DEF HeldIn
<1>14. Grown(l, m, j, n, k, r)
  <2>1. \A i \in D : Alike(m[i], r[i]) /\ (Good(m[i]) => Good(r[i]))
    BY <1>4
  <2> QED BY <1>2, <1>5, <1>7, <1>12, <1>13, <2>1 DEF Grown
<1> QED BY <1>10, <1>14 DEF k, r

(* A vote changes what is at j, which was not active.                      *)
Counted(l, m, j, x, w) ==
  /\ DOMAIN w = DOMAIN m
  /\ ~ x.active => ActiveIn(l, w) = ActiveIn(l, m)
  /\ \A n \in Names : HeldIn(w, n) = HeldIn(m, n) \cup (IF x.active /\ n = x.name THEN {j} ELSE {})
  /\ AllGood(m) /\ Good(x) => AllGood(w)

LEMMA VoteCounts ==
  ASSUME NEW b \in Nat, NEW l, NEW m, Memory(l, m, b), NEW j \in Elements(l), ~ m[j].active,
         NEW x \in Jupe, x.name = m[j].name, x.prev = m[j].prev,
         x.active => x.expires = Never, NEW w, w = [m EXCEPT ![j] = x]
  PROVE  Memory(l, w, b) /\ Counted(l, m, j, x, w)
<1> DEFINE D == DOMAIN m
<1>1. /\ m \in [D -> Jupe] /\ D \subseteq 1 .. b /\ l \in Seq(D) /\ NoTwice(l)
      /\ \A i \in D : m[i].prev <= b /\ (m[i].active => m[i].expires = Never)
      /\ \A h, i \in Elements(l) : m[h].name = m[i].name => h = i
      /\ Linked(l, m)
  BY DEF Memory
<1>2. (\A i \in 1 .. Len(l) : l[i] \in D) /\ Elements(l) \subseteq D
  <2>1. \A i \in 1 .. Len(l) : l[i] \in D
    BY <1>1, ElementOfSeq
  <2> QED BY <2>1 DEF Elements
<1>3. /\ DOMAIN w = D /\ w \in [D -> Jupe] /\ w[j] = x /\ j \in D
      /\ \A i \in D : i # j => w[i] = m[i]
  BY <1>1, <1>2
<1>4. \A i \in D : w[i].name = m[i].name /\ w[i].prev = m[i].prev
  BY <1>3
<1>5. Linked(l, w)
  BY <1>1, <1>2, <1>3, <1>4 DEF Linked
<1>6. Memory(l, w, b)
  <2>1. \A i \in D : w[i].prev <= b /\ (w[i].active => w[i].expires = Never)
    BY <1>1, <1>3, <1>4
  <2>2. \A h, i \in Elements(l) : w[h].name = w[i].name => h = i
    BY <1>1, <1>2, <1>4
  <2> QED BY <1>1, <1>3, <1>5, <2>1, <2>2 DEF Memory
<1>7. ASSUME ~ x.active PROVE ActiveIn(l, w) = ActiveIn(l, m)
  <2> DEFINE A == {i \in Elements(l) : m[i].active}
             B == {i \in Elements(l) : w[i].active}
  <2>1. A = B /\ \A i \in A : w[i] = m[i]
    BY <1>2, <1>3, <1>7
  <2> HIDE DEF A, B
  <2>2. {Saved(w[i]) : i \in B} = {Saved(m[i]) : i \in A}
    BY <2>1
  <2> QED BY <2>2 DEF ActiveIn, ActiveOf, A, B
<1>8. ASSUME NEW n \in Names
      PROVE  HeldIn(w, n) = HeldIn(m, n) \cup (IF x.active /\ n = x.name THEN {j} ELSE {})
  BY <1>3 DEF HeldIn
<1>9. AllGood(m) /\ Good(x) => AllGood(w)
  BY <1>3 DEF AllGood
<1> QED BY <1>3, <1>6, <1>7, <1>8, <1>9 DEF Counted

(* j is where Place says.                                                  *)
LEMMA PlaceIs ==
  ASSUME NEW l, NoTwice(l), NEW k \in 1 .. Len(l)
  PROVE  Place(l, l[k]) = k
BY DEF Place, NoTwice

(* j has left the memory; of the list at least j is gone.                  *)
Shrunk(m, j, r) ==
  /\ DOMAIN r = DOMAIN m \ {j}
  /\ \A i \in DOMAIN r : Alike(m[i], r[i]) /\ (Good(m[i]) => Good(r[i]))
  /\ \A n \in Names : HeldIn(r, n) = HeldIn(m, n) \ {j}

LEMMA JupeUnlinks ==
  ASSUME NEW b \in Nat, NEW l, NEW m, Memory(l, m, b), NEW j \in Elements(l),
         LinksGood([list |-> l, jupes |-> m], j),
         NEW L, L = Unlinked([list |-> l, jupes |-> m], j)
  PROVE  Memory(L.list, L.jupes, b) /\ Shrunk(m, j, L.jupes)
<1> DEFINE D == DOMAIN m
           N == Len(l)
           q == L.list
           r == L.jupes
           p == m[j].prev
           rest == SubSeq(l, Place(l, j) + 1, N)
           to(i) == IF rest # <<>> /\ i = rest[1] THEN p ELSE m[i].prev
<1>1. /\ m \in [D -> Jupe] /\ D \subseteq 1 .. b /\ l \in Seq(D) /\ NoTwice(l)
      /\ \A i \in D : m[i].prev <= b /\ (m[i].active => m[i].expires = Never)
      /\ \A h, i \in Elements(l) : m[h].name = m[i].name => h = i
      /\ Linked(l, m)
  BY DEF Memory
<1>2. N \in Nat /\ (\A i \in 1 .. N : l[i] \in D) /\ Elements(l) \subseteq D
  <2>1. N \in Nat /\ \A i \in 1 .. N : l[i] \in D
    BY <1>1, LenProperties, ElementOfSeq
  <2> QED BY <2>1 DEF Elements
<1>3. PICK k \in 1 .. N : l[k] = j
  BY DEF Elements
<1>4. Place(l, j) = k
  BY <1>1, <1>3, PlaceIs
<1>5. rest \in Seq(D) /\ Len(rest) = N - k /\ \A i \in 1 .. N - k : rest[i] = l[k + i]
  <2>1. \A i \in k + 1 .. N : l[i] \in D
    BY <1>2
  <2>2. /\ rest \in Seq(D) /\ Len(rest) = IF k + 1 <= N THEN N - (k + 1) + 1 ELSE 0
        /\ \A i \in 1 .. N - (k + 1) + 1 : rest[i] = l[(k + 1) + i - 1]
    BY <1>2, <1>4, <2>1, SubSeqProperties
  <2>3. N - (k + 1) + 1 = N - k /\ \A i \in 1 .. N - k : (k + 1) + i - 1 = k + i
    BY <1>2
  <2>4. Len(rest) = N - k
    BY <1>2, <2>2
  <2> HIDE DEF rest
  <2> QED BY <2>2, <2>3, <2>4
<1>6. /\ DOMAIN r = D \ {j} /\ q = IF p = NULL THEN rest ELSE SubSeq(l, 1, Place(l, p)) \o rest
      /\ \A i \in D \ {j} : r[i] = [m[i] EXCEPT !.prev = to(i)]
  BY DEF Unlinked
<1> HIDE DEF q, r
<1>7. /\ p \in Nat
      /\ p # NULL => p \in D /\ k > 1 /\ l[k - 1] = p /\ Place(l, p) = k - 1
  <2>1. p \in Nat /\ j \in D
    BY <1>1, <1>2 DEF Jupe
  <2>2. ASSUME p # NULL PROVE p \in D /\ k > 1 /\ l[k - 1] = p /\ Place(l, p) = k - 1
    <3>1. p \in D
      BY <2>2 DEF LinksGood
    <3>2. k > 1 /\ l[k - 1] = p
      BY <1>1, <1>3, <3>1 DEF Linked
    <3>3. k - 1 \in 1 .. N
      BY <1>2, <3>2
    <3> QED BY <1>1, <3>1, <3>2, <3>3, PlaceIs
  <2> QED BY <2>1, <2>2
<1> HIDE DEF rest
<1>8. ASSUME p = NULL
      PROVE  /\ q \in Seq(D) /\ Len(q) = N - k
             /\ \A i \in 1 .. N - k : q[i] = l[i + k] /\ i + k \in 1 .. N /\ i + k # k
  <2>1. \A i \in 1 .. N - k : k + i = i + k /\ i + k \in 1 .. N /\ i + k # k
    BY <1>2
  <2> QED BY <1>5, <1>6, <1>8, <2>1
<1> DEFINE at(i) == IF i < k THEN i ELSE i + 1
<1>9. ASSUME p # NULL
      PROVE  /\ q \in Seq(D) /\ Len(q) = N - 1
             /\ \A i \in 1 .. N - 1 : q[i] = l[at(i)] /\ at(i) \in 1 .. N /\ at(i) # k
  <2> DEFINE front == SubSeq(l, 1, k - 1)
  <2>1. k - 1 \in Nat /\ q = front \o rest
    <3>1. k \in Nat /\ k > 1
      BY <1>2, <1>7, <1>9
    <3>2. q = front \o rest
      BY <1>6, <1>7, <1>9
    <3> QED BY <3>1, <3>2
  <2>2. front \in Seq(D) /\ Len(front) = k - 1 /\ \A i \in 1 .. k - 1 : front[i] = l[i]
    <3>1. \A i \in 1 .. k - 1 : l[i] \in D
      BY <1>2
    <3>2. /\ front \in Seq(D) /\ Len(front) = IF 1 <= k - 1 THEN (k - 1) - 1 + 1 ELSE 0
          /\ \A i \in 1 .. (k - 1) - 1 + 1 : front[i] = l[1 + i - 1]
      BY <2>1, <3>1, SubSeqProperties
    <3>3. (k - 1) - 1 + 1 = k - 1 /\ \A i \in 1 .. k - 1 : 1 + i - 1 = i
      BY <2>1
    <3>4. Len(front) = k - 1
      BY <2>1, <3>2
    <3> HIDE DEF front
    <3> QED BY <3>2, <3>3, <3>4
  <2> HIDE DEF front
  <2>3. /\ q \in Seq(D) /\ Len(q) = (k - 1) + (N - k)
        /\ \A i \in 1 .. (k - 1) + (N - k) :
             q[i] = IF i <= k - 1 THEN front[i] ELSE rest[i - (k - 1)]
    <3> DEFINE E == D
    <3>1. front \in Seq(E) /\ rest \in Seq(E)
      BY <1>5, <2>2
    <3> HIDE DEF E
    <3>2. /\ front \o rest \in Seq(E) /\ Len(front \o rest) = Len(front) + Len(rest)
          /\ \A i \in 1 .. Len(front) + Len(rest) :
               (front \o rest)[i] = IF i <= Len(front) THEN front[i] ELSE rest[i - Len(front)]
      BY <3>1, ConcatProperties
    <3> QED BY <1>5, <2>1, <2>2, <3>2 DEF E
  <2>4. (k - 1) + (N - k) = N - 1
    BY <1>2
  <2>5. ASSUME NEW i \in 1 .. N - 1 PROVE q[i] = l[at(i)] /\ at(i) \in 1 .. N /\ at(i) # k
    <3>1. CASE i < k
      <4>1. i <= k - 1 /\ i \in 1 .. k - 1 /\ at(i) = i /\ i \in 1 .. N
        BY <1>2, <3>1
      <4> QED BY <2>2, <2>3, <2>4, <3>1, <4>1
    <3>2. CASE ~ (i < k)
      <4>1. ~ (i <= k - 1) /\ i - (k - 1) \in 1 .. N - k /\ at(i) = i + 1 /\ i + 1 \in 1 .. N
        BY <1>2, <3>2
      <4>2. q[i] = l[k + (i - (k - 1))]
        BY <1>5, <2>3, <2>4, <4>1
      <4>3. k + (i - (k - 1)) = i + 1 /\ i + 1 # k
        BY <3>2
      <4> QED BY <4>1, <4>2, <4>3
    <3> QED BY <3>1, <3>2
  <2> HIDE DEF at
  <2> QED BY <2>3, <2>4, <2>5
<1> DEFINE Cut(f) ==
      /\ q \in Seq(D) /\ \A i \in 1 .. Len(q) : f[i] \in 1 .. N /\ f[i] # k /\ q[i] = l[f[i]]
      /\ \A h, i \in 1 .. Len(q) : f[h] = f[i] => h = i
      /\ \A i \in 1 .. Len(q) :
           \/ f[i] = 1
           \/ f[i] = k + 1 /\ (p # NULL => i > 1 /\ q[i - 1] = p)
           \/ i > 1 /\ f[i - 1] = f[i] - 1
<1>10. \E f : Cut(f)
  <2>1. CASE p = NULL
    <3> DEFINE f == [i \in 1 .. N - k |-> i + k]
    <3>1. q \in Seq(D) /\ \A i \in 1 .. Len(q) : f[i] \in 1 .. N /\ f[i] # k /\ q[i] = l[f[i]]
      BY <1>8, <2>1
    <3>2. \A h, i \in 1 .. Len(q) : f[h] = f[i] => h = i
      BY <1>2, <1>8, <2>1
    <3>3. \A i \in 1 .. Len(q) : f[i] = k + 1 \/ (i > 1 /\ f[i - 1] = f[i] - 1)
      <4>1. Len(q) = N - k
        BY <1>8, <2>1
      <4> SUFFICES ASSUME NEW i \in 1 .. N - k, i # 1
                   PROVE  i > 1 /\ f[i - 1] = f[i] - 1
        BY <1>2, <4>1
      <4>2. i - 1 \in 1 .. N - k /\ i > 1
        BY <1>2
      <4>3. f[i - 1] = (i - 1) + k /\ f[i] = i + k
        BY <4>2
      <4> QED BY <4>2, <4>3
    <3> HIDE DEF f
    <3> QED BY <2>1, <3>1, <3>2, <3>3
  <2>2. CASE p # NULL
    <3> DEFINE f == [i \in 1 .. N - 1 |-> at(i)]
    <3>1. q \in Seq(D) /\ \A i \in 1 .. Len(q) : f[i] \in 1 .. N /\ f[i] # k /\ q[i] = l[f[i]]
      <4> HIDE DEF at
      <4> QED BY <1>9, <2>2
    <3>2. \A h, i \in 1 .. N - 1 : f[h] = f[i] => h = i
      BY <1>2
    <3>3. \A i \in 1 .. N - 1 : i # k /\ i > 1 => f[i - 1] = f[i] - 1
      BY <1>2
    <3>4. \A i \in 1 .. N - 1 : i = k => f[i] = k + 1
      BY <1>2
    <3>5. \A i \in 1 .. N - 1 : i = 1 /\ i # k => f[i] = 1
      BY <1>2
    <3>6. k > 1 /\ (k \in 1 .. N - 1 => q[k - 1] = p)
      <4>1. k > 1 /\ l[k - 1] = p
        BY <1>7, <2>2
      <4>2. k - 1 \in 1 .. N - 1 /\ at(k - 1) = k - 1
        BY <1>2, <4>1
      <4> HIDE DEF at
      <4> QED BY <1>9, <2>2, <4>1, <4>2
    <3> HIDE DEF f
    <3>7. Len(q) = N - 1 /\ \A i \in 1 .. N - 1 : i = 1 \/ i > 1
      BY <1>9, <2>2
    <3>8. \A i \in 1 .. Len(q) :
           \/ f[i] = 1
           \/ f[i] = k + 1 /\ (p # NULL => i > 1 /\ q[i - 1] = p)
           \/ i > 1 /\ f[i - 1] = f[i] - 1
      BY <3>3, <3>4, <3>5, <3>6, <3>7
    <3>9. \A h, i \in 1 .. Len(q) : f[h] = f[i] => h = i
      BY <3>2, <3>7
    <3> HIDE DEF N, p
    <3> QED BY <3>1, <3>8, <3>9
  <2> QED BY <2>1, <2>2
<1> HIDE DEF at
<1>11. PICK f : Cut(f)
  BY <1>10
<1>12. ASSUME NEW i \in D \ {j}
       PROVE  /\ r[i] \in Jupe /\ r[i].prev = to(i) /\ r[i].prev <= b /\ Alike(m[i], r[i])
              /\ Good(m[i]) => Good(r[i])
  <2>1. m[i] \in Jupe /\ r[i] = [m[i] EXCEPT !.prev = to(i)]
    BY <1>1, <1>6
  <2>2. m[i].prev \in Nat /\ m[i].prev <= b /\ p <= b
    BY <1>1, <1>2, <2>1 DEF Jupe
  <2>3. to(i) \in Nat /\ to(i) <= b
    BY <1>7, <2>2
  <2> HIDE DEF to
  <2> QED BY <2>1, <2>3, Relinked
<1>13. /\ q \in Seq(D \ {j}) /\ NoTwice(q) /\ Elements(q) \subseteq Elements(l)
       /\ Elements(q) \subseteq D \ {j}
  <2>1. \A i \in 1 .. Len(q) : q[i] \in Elements(l) /\ q[i] \in D \ {j}
    <3> SUFFICES ASSUME NEW i \in 1 .. Len(q)
                 PROVE  q[i] \in Elements(l) /\ q[i] \in D \ {j}
      OBVIOUS
    <3>1. f[i] \in 1 .. N /\ f[i] # k /\ q[i] = l[f[i]]
      BY <1>11
    <3>2. l[f[i]] # j
      BY <1>1, <1>3, <3>1 DEF NoTwice
    <3> QED BY <1>2, <3>1, <3>2 DEF Elements
  <2>2. q \in Seq(D) /\ \A i \in 1 .. Len(q) : q[i] \in D \ {j}
    BY <1>11, <2>1
  <2>3. q \in Seq(D \ {j})
    BY <2>2, ListOf
  <2>4. NoTwice(q)
    <3> SUFFICES ASSUME NEW h \in 1 .. Len(q), NEW i \in 1 .. Len(q), q[h] = q[i]
                 PROVE  h = i
      BY DEF NoTwice
    <3>1. /\ f[h] \in 1 .. N /\ f[i] \in 1 .. N /\ l[f[h]] = l[f[i]]
          /\ f[h] = f[i] => h = i
      BY <1>11
    <3> QED BY <1>1, <3>1 DEF NoTwice
  <2>5. Elements(q) \subseteq Elements(l) /\ Elements(q) \subseteq D \ {j}
    BY <2>1 DEF Elements
  <2> QED BY <2>3, <2>4, <2>5
<1>14. ASSUME NEW g \in 1 .. N
       PROVE  to(l[g]) = IF g = k + 1 THEN p ELSE m[l[g]].prev
  <2>1. CASE g = k + 1
    <3>1. 1 \in 1 .. N - k /\ k + 1 = g
      BY <1>2, <2>1
    <3>2. rest[1] = l[g] /\ rest # <<>>
      BY <1>5, <3>1
    <3> QED BY <2>1, <3>2
  <2>2. CASE g # k + 1
    <3>1. ASSUME rest # <<>> PROVE l[g] # rest[1]
      <4>1. Len(rest) # 0
        BY <1>5, <3>1, EmptySeq
      <4>2. 1 \in 1 .. N - k /\ k + 1 \in 1 .. N
        BY <1>2, <1>5, <4>1
      <4>3. rest[1] = l[k + 1]
        BY <1>5, <4>2
      <4> QED BY <1>1, <2>2, <4>2, <4>3 DEF NoTwice
    <3> QED BY <2>2, <3>1
  <2> QED BY <2>1, <2>2
<1>15. Linked(q, r)
  <2> SUFFICES ASSUME NEW i \in 1 .. Len(q), r[q[i]].prev \in DOMAIN r
               PROVE  i > 1 /\ q[i - 1] = r[q[i]].prev
    BY DEF Linked
  <2>1. /\ f[i] \in 1 .. N /\ q[i] = l[f[i]] /\ l[f[i]] \in D \ {j}
        /\ \/ f[i] = 1
           \/ f[i] = k + 1 /\ (p # NULL => i > 1 /\ q[i - 1] = p)
           \/ i > 1 /\ f[i - 1] = f[i] - 1
    BY <1>11, <1>13 DEF Elements
  <2>2. r[q[i]].prev = IF f[i] = k + 1 THEN p ELSE m[l[f[i]]].prev
    <3> HIDE DEF to
    <3> QED BY <1>12, <1>14, <2>1
  <2>3. CASE f[i] = k + 1
    <3>1. r[q[i]].prev = p /\ p \in D
      BY <1>6, <2>2, <2>3
    <3>2. p # NULL
      BY <1>1, <3>1 DEF NULL
    <3>3. \/ i > 1 /\ q[i - 1] = p
          \/ i > 1 /\ f[i - 1] = f[i] - 1
      BY <2>1, <2>3, <3>2
    <3>4. ASSUME i > 1, f[i - 1] = f[i] - 1 PROVE FALSE
      <4>1. i - 1 \in 1 .. Len(q) /\ f[i - 1] = k
        BY <2>3, <3>4
      <4> QED BY <1>11, <4>1
    <3> QED BY <3>1, <3>3, <3>4
  <2>4. CASE f[i] # k + 1
    <3>1. r[q[i]].prev = m[l[f[i]]].prev /\ m[l[f[i]]].prev \in D
      BY <1>6, <2>2, <2>4
    <3>2. f[i] > 1 /\ l[f[i] - 1] = m[l[f[i]]].prev
      BY <1>1, <2>1, <3>1 DEF Linked
    <3>3. i > 1 /\ f[i - 1] = f[i] - 1
      BY <2>1, <2>4, <3>2
    <3>4. i - 1 \in 1 .. Len(q)
      BY <3>3
    <3>5. q[i - 1] = l[f[i] - 1]
      BY <1>11, <3>3, <3>4
    <3> QED BY <3>1, <3>2, <3>3, <3>5
  <2> QED BY <2>3, <2>4
<1>16. Memory(q, r, b)
  <2>1. r \in [D \ {j} -> Jupe]
    <3>1. r = [i \in D \ {j} |-> r[i]]
      BY DEF r, Unlinked
    <3> HIDE DEF to
    <3>2. \A i \in D \ {j} : r[i] \in Jupe
      BY <1>12
    <3> QED BY <3>1, <3>2
  <2>2. \A i \in D \ {j} : r[i].prev <= b /\ (r[i].active => r[i].expires = Never)
    <3> HIDE DEF to
    <3> QED BY <1>1, <1>12 DEF Alike
  <2>3. \A h, i \in Elements(q) : r[h].name = r[i].name => h = i
    <3> HIDE DEF to
    <3>1. \A i \in Elements(q) : i \in Elements(l) /\ r[i].name = m[i].name
      BY <1>12, <1>13 DEF Alike
    <3> QED BY <1>1, <3>1
  <2> QED BY <1>1, <1>6, <1>13, <1>15, <2>1, <2>2, <2>3 DEF Memory
<1>17. Shrunk(m, j, r)
  <2> HIDE DEF to
  <2>1. \A i \in D \ {j} : Alike(m[i], r[i]) /\ (Good(m[i]) => Good(r[i]))
    BY <1>12
  <2>2. \A n \in Names : HeldIn(r, n) = HeldIn(m, n) \ {j}
    BY <1>6, <2>1 DEF HeldIn, Alike
  <2> QED BY <1>6, <2>1, <2>2 DEF Shrunk
<1> QED BY <1>16, <1>17 DEF q, r

-----------------------------------------------------------------------------
(* What is written of a jupe, or of a part of it.                          *)
LEMMA SavedIs ==
  ASSUME NEW x \in Jupe, NEW y, y = Saved(x)
  PROVE  /\ y \in Entry /\ y.name = x.name /\ y.active = x.active /\ y.expires = x.expires
         /\ Good(x) => Good(y)
<1>1. /\ y \in Entry /\ y.name = x.name /\ y.active = x.active /\ y.expires = x.expires
      /\ y.score = x.score /\ y.votes = x.votes
  BY DEF Jupe, Entry, Saved
<1> QED BY <1>1 DEF Good

LEMMA CutIs ==
  ASSUME NEW x \in Entry, x.active => x.expires = Never, NEW y \in Cuts(x)
  PROVE  y \in Entry /\ y.name = x.name /\ (y.active => y.expires = Never)
<1> DEFINE noScore == [x EXCEPT !.score = 0, !.votes = <<>>]
           noFlags == [noScore EXCEPT !.active = FALSE]
           noTime == [noFlags EXCEPT !.expires = Never]
<1>1. /\ noScore \in Entry /\ noScore.name = x.name /\ noScore.active = x.active
      /\ noScore.expires = x.expires
  BY NoVotes DEF Entry
<1> HIDE DEF noScore
<1>2. noFlags \in Entry /\ noFlags.name = x.name /\ noFlags.active = FALSE
  BY <1>1 DEF Entry
<1> HIDE DEF noFlags
<1>3. noTime \in Entry /\ noTime.name = x.name /\ noTime.active = FALSE
  BY <1>2 DEF Entry, Expiry
<1>4. ASSUME NEW D \in SUBSET DOMAIN x.votes, NEW z, z = [x EXCEPT !.votes = Restrict(@, D)]
      PROVE  z \in Entry /\ z.name = x.name /\ z.active = x.active /\ z.expires = x.expires
  <2>1. x.votes \in Ballots
    BY DEF Entry
  <2>2. Restrict(x.votes, D) \in Ballots
    <3>1. IsFiniteSet(D) /\ D \in SUBSET Servers
      BY <2>1, FS_Subset DEF Ballots
    <3>2. Restrict(x.votes, D) \in [D -> Userhosts]
      BY <2>1 DEF Ballots, Restrict
    <3>3. DOMAIN Restrict(x.votes, D) = D
      BY <3>2
    <3> QED BY <3>1, <3>2, <3>3 DEF Ballots
  <2> QED BY <1>4, <2>2 DEF Entry
<1> HIDE DEF noTime
<1>5. \/ y \in {noScore, noFlags, noTime}
      \/ \E D \in SUBSET DOMAIN x.votes : y = [x EXCEPT !.votes = Restrict(@, D)]
  BY DEF Cuts, noScore, noFlags, noTime
<1> QED BY <1>1, <1>2, <1>3, <1>4, <1>5

(* The file f has been written as far as it goes, except perhaps that its  *)
(* last jupe, when cut, is only a part.                                    *)
WrittenOf(all, f, cut) ==
  /\ f \in Seq(Entry) /\ Len(f) <= Len(all)
  /\ \A k \in 1 .. Len(f) :
       /\ f[k].name = all[k].name /\ (f[k].active => f[k].expires = Never)
       /\ f[k] = all[k] \/ (cut /\ k = Len(f))

LEMMA WrittenAs ==
  ASSUME NEW all \in Seq(Entry), \A k \in 1 .. Len(all) : all[k].active => all[k].expires = Never
  PROVE  /\ WrittenOf(all, all, FALSE)
         /\ \A k \in 1 .. Len(all) :
              /\ WrittenOf(all, SubSeq(all, 1, k - 1), FALSE)
              /\ \A y \in Cuts(all[k]) : WrittenOf(all, Append(SubSeq(all, 1, k - 1), y), TRUE)
<1> DEFINE N == Len(all)
<1>1. N \in Nat /\ \A k \in 1 .. N : all[k] \in Entry
  BY LenProperties, ElementOfSeq
<1>2. WrittenOf(all, all, FALSE)
  BY <1>1 DEF WrittenOf
<1> SUFFICES ASSUME NEW k \in 1 .. N
             PROVE  /\ WrittenOf(all, SubSeq(all, 1, k - 1), FALSE)
                    /\ \A y \in Cuts(all[k]) : WrittenOf(all, Append(SubSeq(all, 1, k - 1), y), TRUE)
  BY <1>2
<1> DEFINE f == SubSeq(all, 1, k - 1)
<1>3. f \in Seq(Entry) /\ Len(f) = k - 1 /\ \A i \in 1 .. k - 1 : f[i] = all[i] /\ i \in 1 .. N
  <2>1. k - 1 \in Nat /\ \A i \in 1 .. k - 1 : i \in 1 .. N
    BY <1>1
  <2>2. \A i \in 1 .. k - 1 : all[i] \in Entry
    BY <1>1, <2>1
  <2>3. /\ f \in Seq(Entry) /\ Len(f) = IF 1 <= k - 1 THEN (k - 1) - 1 + 1 ELSE 0
        /\ \A i \in 1 .. (k - 1) - 1 + 1 : f[i] = all[1 + i - 1]
    BY <2>1, <2>2, SubSeqProperties
  <2>4. (k - 1) - 1 + 1 = k - 1 /\ \A i \in 1 .. k - 1 : 1 + i - 1 = i
    BY <1>1
  <2>5. Len(f) = k - 1
    BY <2>1, <2>3
  <2> HIDE DEF f
  <2> QED BY <2>1, <2>3, <2>4, <2>5
<1> HIDE DEF f
<1>4. k - 1 <= N /\ k \in Nat
  BY <1>1
<1>5. WrittenOf(all, f, FALSE)
  BY <1>1, <1>3, <1>4 DEF WrittenOf
<1>6. ASSUME NEW y \in Cuts(all[k]) PROVE WrittenOf(all, Append(f, y), TRUE)
  <2> DEFINE g == Append(f, y)
  <2>1. y \in Entry /\ y.name = all[k].name /\ (y.active => y.expires = Never)
    BY <1>1, CutIs
  <2>2. g \in Seq(Entry) /\ Len(g) = k /\ g[k] = y /\ \A i \in 1 .. k - 1 : g[i] = all[i]
    <3>1. /\ g \in Seq(Entry) /\ Len(g) = Len(f) + 1 /\ g[Len(f) + 1] = y
          /\ \A i \in 1 .. Len(f) : g[i] = f[i]
      BY <1>3, <2>1, AppendProperties
    <3>2. Len(f) + 1 = k
      BY <1>3, <1>4
    <3> HIDE DEF g
    <3> QED BY <1>3, <3>1, <3>2
  <2> HIDE DEF g
  <2>3. \A i \in 1 .. k : i = k \/ i \in 1 .. k - 1
    BY <1>4
  <2>4. k <= N
    BY <1>1
  <2>5. \A i \in 1 .. k - 1 : i \in 1 .. N
    BY <1>3
  <2> QED BY <2>1, <2>2, <2>3, <2>4, <2>5 DEF WrittenOf, g
<1> QED BY <1>5, <1>6 DEF f

(* The jupes of a list as the file has them.                               *)
LEMMA ContentIs ==
  ASSUME NEW b \in Nat, NEW L, Memory(L.list, L.jupes, b), NEW all, all = Content(L)
  PROVE  /\ all \in Seq(Entry) /\ Len(all) <= b
         /\ \A h, k \in 1 .. Len(all) : all[h].name = all[k].name => h = k
         /\ \A k \in 1 .. Len(all) : all[k].active => all[k].expires = Never
         /\ AllGood(L.jupes) => \A k \in 1 .. Len(all) : Good(all[k])
         /\ {x \in Elements(all) : x.active} = ActiveIn(L.list, L.jupes)
<1> DEFINE l == L.list
           m == L.jupes
           N == Len(l)
<1>1. /\ \A i \in DOMAIN m : m[i] \in Jupe /\ (m[i].active => m[i].expires = Never)
      /\ DOMAIN m \subseteq 1 .. b /\ l \in Seq(DOMAIN m) /\ NoTwice(l)
      /\ \A h, i \in Elements(l) : m[h].name = m[i].name => h = i
  BY DEF Memory
<1>2. N \in Nat /\ (\A k \in 1 .. N : l[k] \in DOMAIN m) /\ all = [k \in 1 .. N |-> Saved(m[l[k]])]
  BY <1>1, LenProperties, ElementOfSeq DEF Content
<1> HIDE DEF l, m
<1>3. N <= b
  <2>1. \A k \in 1 .. N : l[k] \in 1 .. b
    BY <1>1, <1>2
  <2>2. l \in Seq(1 .. b)
    BY <1>1, <2>1, ListOf
  <2> QED BY <1>1, <2>2, ListIsShort
<1>4. ASSUME NEW k \in 1 .. N
      PROVE  /\ all[k] = Saved(m[l[k]]) /\ all[k] \in Entry /\ all[k].name = m[l[k]].name
             /\ all[k].active = m[l[k]].active /\ all[k].expires = m[l[k]].expires
             /\ Good(m[l[k]]) => Good(all[k])
  <2>1. m[l[k]] \in Jupe /\ all[k] = Saved(m[l[k]])
    BY <1>1, <1>2
  <2> QED BY <2>1, SavedIs
<1> HIDE DEF N
<1>5. all \in Seq(Entry) /\ Len(all) = N
  <2>1. DOMAIN all = 1 .. N /\ all \in [1 .. N -> Entry]
    BY <1>2, <1>4
  <2> QED BY <1>2, <2>1, SeqDef, LenProperties
<1>6. \A h, k \in 1 .. N : all[h].name = all[k].name => h = k
  <2>1. \A k \in 1 .. N : l[k] \in Elements(l)
    BY DEF Elements, N
  <2>2. \A h, k \in 1 .. N : l[h] = l[k] => h = k
    BY <1>1 DEF NoTwice, N
  <2> QED BY <1>1, <1>4, <2>1, <2>2
<1>7. \A k \in 1 .. N : all[k].active => all[k].expires = Never
  BY <1>1, <1>2, <1>4
<1>8. AllGood(m) => \A k \in 1 .. N : Good(all[k])
  BY <1>2, <1>4 DEF AllGood
<1>9. {x \in Elements(all) : x.active} = ActiveIn(l, m)
  <2> DEFINE X == {x \in Elements(all) : x.active}
             A == {j \in Elements(l) : m[j].active}
  <2>1. ASSUME NEW x \in X PROVE x \in ActiveIn(l, m)
    <3>1. PICK k \in 1 .. N : x = all[k]
      BY <1>5 DEF Elements
    <3>2. l[k] \in A
      BY <1>4, <3>1 DEF Elements, N
    <3> QED BY <1>4, <3>1, <3>2 DEF ActiveIn, ActiveOf
  <2>2. ASSUME NEW x \in ActiveIn(l, m) PROVE x \in X
    <3>1. PICK j \in A : x = Saved(m[j])
      BY <2>2 DEF ActiveIn, ActiveOf
    <3>2. PICK k \in 1 .. N : j = l[k]
      BY DEF Elements, N
    <3> QED BY <1>4, <1>5, <3>1, <3>2 DEF Elements
  <2> HIDE DEF X
  <2>3. X = ActiveIn(l, m)
    BY <2>1, <2>2
  <2> QED BY <2>3 DEF X
<1> QED BY <1>3, <1>5, <1>6, <1>7, <1>8, <1>9 DEF l, m

(* After a write, whole or not, the file is well-formed, of what its jupes *)
(* were worth, and has the active ones if it says that nothing went wrong. *)
LEMMA WritesWell ==
  ASSUME NEW b \in 0 .. MaxJupes, NEW L, Memory(L.list, L.jupes, b), FileOK, Writes(L)
  PROVE  /\ FileOK'
         /\ saved' => ActiveInFile' = ActiveIn(L.list, L.jupes)
         /\ AllGood(L.jupes) /\ FileGood => FileGood'
<1> DEFINE all == Content(L)
           Goods(f, cut) == AllGood(L.jupes) =>
                              \A k \in 1 .. Len(f) : Good(f[k]) \/ (cut /\ k = Len(f))
           Fine(f, cut) ==
             /\ f \in Seq(Entry) /\ Len(f) <= MaxJupes /\ Goods(f, cut)
             /\ \A h, k \in 1 .. Len(f) : f[h].name = f[k].name => h = k
             /\ \A k \in 1 .. Len(f) : f[k].active => f[k].expires = Never
<1>1. b \in Nat /\ b <= MaxJupes /\ MaxJupes \in Nat /\ MaxFailures \in Nat
  BY JupesAssumption
<1>2. /\ all \in Seq(Entry) /\ Len(all) <= b
      /\ \A h, k \in 1 .. Len(all) : all[h].name = all[k].name => h = k
      /\ \A k \in 1 .. Len(all) : all[k].active => all[k].expires = Never
      /\ AllGood(L.jupes) => \A k \in 1 .. Len(all) : Good(all[k])
      /\ {x \in Elements(all) : x.active} = ActiveIn(L.list, L.jupes)
  BY <1>1, ContentIs
<1> HIDE DEF all
<1>3. ASSUME NEW f, NEW cut, WrittenOf(all, f, cut) PROVE Fine(f, cut)
  <2>1. /\ f \in Seq(Entry) /\ Len(f) <= Len(all) /\ Len(f) \in Nat /\ Len(all) \in Nat
        /\ \A k \in 1 .. Len(f) : f[k].active => f[k].expires = Never
        /\ \A k \in 1 .. Len(f) : f[k].name = all[k].name
        /\ \A k \in 1 .. Len(f) : f[k] = all[k] \/ (cut /\ k = Len(f))
    BY <1>2, <1>3, LenProperties DEF WrittenOf
  <2>2. Len(f) <= MaxJupes /\ \A k \in 1 .. Len(f) : k \in 1 .. Len(all)
    BY <1>1, <1>2, <2>1
  <2>3. \A h, k \in 1 .. Len(f) : f[h].name = f[k].name => h = k
    BY <1>2, <2>1, <2>2
  <2>4. Goods(f, cut)
    BY <1>2, <2>1, <2>2
  <2> HIDE DEF Goods
  <2> QED BY <2>1, <2>2, <2>3, <2>4
<1>4. ASSUME NEW cut, Fine(file', cut), cut => end' = "cut", end' \in {"whole", "cut", "bare"},
             saved' \in BOOLEAN, failures' \in 0 .. MaxFailures
      PROVE  FileOK' /\ (AllGood(L.jupes) /\ FileGood => FileGood')
  BY <1>4 DEF FileOK, FileGood
<1> HIDE DEF Fine, Goods
<1>5. failures \in 0 .. MaxFailures
  BY DEF FileOK
<1>6. CASE file' = all /\ end' = "whole" /\ saved' = TRUE /\ UNCHANGED failures
  <2>1. Fine(file', FALSE)
    BY <1>2, <1>3, <1>6, WrittenAs
  <2>2. ActiveInFile' = ActiveIn(L.list, L.jupes)
    BY <1>2, <1>6 DEF ActiveInFile
  <2> QED BY <1>4, <1>5, <1>6, <2>1, <2>2
<1>7. ASSUME failures < MaxFailures, saved' = FALSE, failures' = failures + 1
      PROVE  saved' \in BOOLEAN /\ failures' \in 0 .. MaxFailures /\ ~ saved'
  <2>1. saved' \in BOOLEAN /\ ~ saved'
    BY <1>7
  <2>2. failures' \in 0 .. MaxFailures
    BY <1>1, <1>5, <1>7
  <2> QED BY <2>1, <2>2
<1>8. CASE /\ failures < MaxFailures /\ saved' = FALSE /\ failures' = failures + 1
           /\ UNCHANGED <<file, end>>
  BY <1>7, <1>8 DEF FileOK, FileGood
<1>9. CASE /\ failures < MaxFailures /\ saved' = FALSE /\ failures' = failures + 1
           /\ \E k \in DOMAIN all : file' = SubSeq(all, 1, k - 1) /\ end' \in {"whole", "bare"}
  <2>1. PICK k \in 1 .. Len(all) : file' = SubSeq(all, 1, k - 1) /\ end' \in {"whole", "bare"}
    BY <1>2, <1>9, LenProperties
  <2>2. Fine(file', FALSE)
    BY <1>2, <1>3, <2>1, WrittenAs
  <2> QED BY <1>4, <1>7, <1>9, <2>1, <2>2
<1>10. CASE /\ failures < MaxFailures /\ saved' = FALSE /\ failures' = failures + 1
            /\ \E k \in DOMAIN all : \E y \in Cuts(all[k]) :
                 file' = Append(SubSeq(all, 1, k - 1), y) /\ end' = "cut"
  <2>0. PICK k \in 1 .. Len(all) : \E y \in Cuts(all[k]) :
               file' = Append(SubSeq(all, 1, k - 1), y) /\ end' = "cut"
    BY <1>2, <1>10, LenProperties
  <2>1. PICK y \in Cuts(all[k]) : file' = Append(SubSeq(all, 1, k - 1), y) /\ end' = "cut"
    BY <2>0
  <2>2. Fine(file', TRUE)
    BY <1>2, <1>3, <2>1, WrittenAs
  <2> QED BY <1>4, <1>7, <1>10, <2>1, <2>2
<1> QED BY <1>6, <1>8, <1>9, <1>10 DEF Writes, all

-----------------------------------------------------------------------------
(* The jupe x with the vote of u on s, and how it is when active.          *)
VotedFor(x, u, s) == [x EXCEPT !.votes = WithVote(@, s, u), !.score = @ + Points(u)]
Activated(y) == [y EXCEPT !.active = TRUE, !.expires = Never]

LEMMA VotedIs ==
  ASSUME NEW x \in Jupe, ~ x.active, NEW u \in Userhosts, NEW s \in Servers,
         s \notin DOMAIN x.votes, u \notin Range(x.votes),
         NEW y, y = VotedFor(x, u, s), NEW z, z = Activated(y)
  PROVE  /\ y \in Jupe /\ y.name = x.name /\ y.prev = x.prev /\ ~ y.active
         /\ z \in Jupe /\ z.name = x.name /\ z.prev = x.prev /\ z.active /\ z.expires = Never
         /\ Good(x) => Good(y)
         /\ Good(x) /\ ~ (y.score < Needed) => Good(z)
<1> DEFINE w == WithVote(x.votes, s, u)
<1>1. Points(u) \in Nat /\ x.score \in Nat /\ x.votes \in Ballots /\ Needed \in Nat
  BY JupesAssumption DEF Points, Jupe
<1>2. /\ w \in Ballots /\ DOMAIN w = DOMAIN x.votes \cup {s} /\ w[s] = u
      /\ \A t \in DOMAIN x.votes : w[t] = x.votes[t]
      /\ Worth(w) = Worth(x.votes) + Points(u)
  <2> DEFINE v == x.votes
  <2>1. v \in Ballots /\ s \notin DOMAIN v
    BY <1>1
  <2> HIDE DEF v
  <2>2. /\ WithVote(v, s, u) \in Ballots /\ DOMAIN WithVote(v, s, u) = DOMAIN v \cup {s}
        /\ WithVote(v, s, u)[s] = u /\ \A t \in DOMAIN v : WithVote(v, s, u)[t] = v[t]
        /\ Worth(WithVote(v, s, u)) = Worth(v) + Points(u)
    BY <2>1, OneVoteMore
  <2> QED BY <2>2 DEF v
<1> HIDE DEF w
<1>3. y = [x EXCEPT !.votes = w, !.score = x.score + Points(u)]
  BY DEF w, VotedFor
<1>4. x.score + Points(u) \in Nat
  BY <1>1
<1>5. /\ y \in Jupe /\ y.name = x.name /\ y.prev = x.prev /\ y.active = x.active
      /\ y.expires = x.expires /\ y.votes = w /\ y.score = x.score + Points(u)
  BY <1>2, <1>3, <1>4 DEF Jupe
<1>6. Never \in Expiry
  BY DEF Expiry
<1>7. /\ z \in Jupe /\ z.name = x.name /\ z.prev = x.prev /\ z.active
      /\ z.expires = Never /\ z.votes = w /\ z.score = y.score
  BY <1>5, <1>6 DEF Jupe, Activated
<1>8. ASSUME Good(x)
      PROVE  y.score = Worth(w) /\ \A r, t \in DOMAIN w : w[r] = w[t] => r = t
  <2>1. y.score = Worth(w)
    BY <1>2, <1>5, <1>8 DEF Good
  <2>2. \A t \in DOMAIN x.votes : x.votes[t] # u
    BY DEF Range
  <2> QED BY <1>2, <1>8, <2>1, <2>2 DEF Good
<1>9. Good(x) => Good(y)
  BY <1>5, <1>8 DEF Good
<1>10. ASSUME Good(x), ~ (y.score < Needed) PROVE Good(z)
  <2>1. z.score >= Needed
    BY <1>1, <1>4, <1>5, <1>7, <1>10
  <2> QED BY <1>7, <1>8, <1>10, <2>1 DEF Good
<1> QED BY <1>5, <1>7, <1>9, <1>10

(* The active jupes in memory can be counted.                              *)
LEMMA HeldAreFew ==
  ASSUME NEW b \in Nat, NEW l, NEW m, Memory(l, m, b), NEW n
  PROVE  IsFiniteSet(HeldIn(m, n)) /\ Cardinality(HeldIn(m, n)) \in 0 .. b
<1>1. HeldIn(m, n) \in SUBSET (1 .. b)
  BY DEF HeldIn, Memory
<1>2. IsFiniteSet(1 .. b) /\ Cardinality(1 .. b) = b
  BY FS_Interval
<1>3. /\ IsFiniteSet(HeldIn(m, n)) /\ Cardinality(HeldIn(m, n)) <= Cardinality(1 .. b)
      /\ Cardinality(HeldIn(m, n)) \in Nat
  BY <1>1, <1>2, FS_Subset, FS_CardinalityType
<1> QED BY <1>2, <1>3

(* Before anything is written or registered: the jupes of l and m are as   *)
(* good as those there were, and as many of them are active.               *)
Meanwhile(l, m, b) ==
  /\ Memory(l, m, b)
  /\ intact => AllGood(m)
  /\ saved => ActiveIn(l, m) = ActiveInFile
  /\ \A n \in Names : HeldIn(m, n) = HeldIn(jupes, n)

(* What a step owes if it leaves intact alone and is not wild.             *)
After(b) ==
  /\ Memory(list', jupes', b) /\ FileOK' /\ clients' \in [Names -> 0 .. MaxJupes]
  /\ intact => AllGood(jupes') /\ FileGood'
  /\ saved' => ActiveIn(list', jupes') = ActiveInFile'
  /\ \A n \in Names : clients'[n] = Cardinality(HeldIn(jupes', n))

LEMMA NothingWritten ==
  ASSUME IInv, ~ wild, NEW b \in 0 .. MaxJupes, NEW l, NEW m, Meanwhile(l, m, b),
         jupes' = m, list' = l, UNCHANGED <<clients, file, end, saved, failures>>
  PROVE  After(b)
<1>1. FileOK' /\ (FileGood => FileGood') /\ ActiveInFile' = ActiveInFile
  BY DEF IInv, FileOK, FileGood, ActiveInFile
<1>2. Memory(list', jupes', b) /\ (intact => AllGood(jupes') /\ FileGood')
  BY <1>1 DEF IInv, Meanwhile
<1>3. saved' => ActiveIn(list', jupes') = ActiveInFile'
  BY <1>1 DEF Meanwhile
<1>4. clients' \in [Names -> 0 .. MaxJupes] /\ \A n \in Names : clients'[n] = Cardinality(HeldIn(jupes', n))
  BY DEF IInv, Meanwhile
<1> QED BY <1>1, <1>2, <1>3, <1>4 DEF After

(* The memory of L with x at j.                                            *)
Put(L, j, x) == [L EXCEPT !.jupes[j] = x]

(* A vote on the jupe j of l that is not active.                           *)
LEMMA VoteKeeps ==
  ASSUME IInv, ~ wild, NEW b \in 0 .. MaxJupes, NEW l, NEW m, Meanwhile(l, m, b),
         NEW j \in Elements(l), ~ m[j].active, NEW u \in Userhosts, NEW s \in Servers,
         s \notin DOMAIN m[j].votes, u \notin Range(m[j].votes),
         Vote([list |-> l, jupes |-> m], j, u, s)
  PROVE  After(b)
<1> DEFINE L == [list |-> l, jupes |-> m]
           y == VotedFor(m[j], u, s)
           z == Activated(y)
<1>1. /\ Memory(l, m, b) /\ (intact => AllGood(m)) /\ (saved => ActiveIn(l, m) = ActiveInFile)
      /\ \A n \in Names : HeldIn(m, n) = HeldIn(jupes, n)
      /\ b \in Nat /\ b <= MaxJupes /\ MaxJupes \in Nat
  BY JupesAssumption DEF Meanwhile
<1>2. m[j] \in Jupe /\ j \in DOMAIN m
  BY <1>1, ElementOfSeq DEF Memory, Elements
<1>3. /\ y \in Jupe /\ y.name = m[j].name /\ y.prev = m[j].prev /\ ~ y.active
      /\ z \in Jupe /\ z.name = m[j].name /\ z.prev = m[j].prev /\ z.active /\ z.expires = Never
      /\ Good(m[j]) => Good(y)
      /\ Good(m[j]) /\ ~ (y.score < Needed) => Good(z)
  <2> DEFINE x == m[j]
  <2>1. /\ x \in Jupe /\ ~ x.active /\ s \notin DOMAIN x.votes /\ u \notin Range(x.votes)
        /\ y = VotedFor(x, u, s) /\ z = Activated(y)
    BY <1>2
  <2> HIDE DEF x, y, z
  <2>2. /\ y \in Jupe /\ y.name = x.name /\ y.prev = x.prev /\ ~ y.active
        /\ z \in Jupe /\ z.name = x.name /\ z.prev = x.prev /\ z.active /\ z.expires = Never
        /\ Good(x) => Good(y)
        /\ Good(x) /\ ~ (y.score < Needed) => Good(z)
    BY <2>1, VotedIs
  <2> QED BY <2>2 DEF x
<1>4. \/ /\ Now(Put(L, j, y)) /\ Writes(Put(L, j, y)) /\ UNCHANGED clients
      \/ /\ Now(Put(L, j, z)) /\ Writes(Put(L, j, z)) /\ ~ (y.score < Needed)
         /\ clients' = [clients EXCEPT ![y.name] = @ + 1]
      \/ /\ Now(Put(L, j, y)) /\ UNCHANGED <<clients, file, end, saved, failures>>
  BY DEF Vote, Put, VotedFor, Activated
<1> HIDE DEF y, z
<1>5. \A x : Put(L, j, x).list = l /\ Put(L, j, x).jupes = [m EXCEPT ![j] = x]
  BY DEF Put
<1> HIDE DEF L
<1>6. ASSUME NEW x, x \in {y, z}, NEW w, w = [m EXCEPT ![j] = x]
      PROVE  Memory(l, w, b) /\ Counted(l, m, j, x, w)
  BY <1>1, <1>3, <1>6, VoteCounts
<1>7. IInv /\ FileOK /\ (intact => FileGood) /\ clients \in [Names -> 0 .. MaxJupes]
      /\ \A n \in Names : clients[n] = Cardinality(HeldIn(m, n))
  BY <1>1 DEF IInv
<1>8. CASE Now(Put(L, j, y)) /\ Writes(Put(L, j, y)) /\ UNCHANGED clients
  <2> DEFINE w == [m EXCEPT ![j] = y]
  <2>1. Memory(l, w, b) /\ Counted(l, m, j, y, w) /\ jupes' = w /\ list' = l
    BY <1>5, <1>6, <1>8 DEF Now
  <2>2. Put(L, j, y).list = l /\ Put(L, j, y).jupes = w
    BY <1>5
  <2> HIDE DEF w
  <2>3. /\ FileOK' /\ (saved' => ActiveInFile' = ActiveIn(l, w))
        /\ AllGood(w) /\ FileGood => FileGood'
    BY <1>1, <1>7, <1>8, <2>1, <2>2, WritesWell
  <2>4. /\ \A n \in Names : HeldIn(w, n) = HeldIn(m, n)
        /\ intact => AllGood(w)
    BY <1>1, <1>2, <1>3, <2>1 DEF Counted, AllGood
  <2> QED BY <1>7, <1>8, <2>1, <2>3, <2>4 DEF After
<1>9. CASE /\ Now(Put(L, j, z)) /\ Writes(Put(L, j, z)) /\ ~ (y.score < Needed)
           /\ clients' = [clients EXCEPT ![y.name] = @ + 1]
  <2> DEFINE w == [m EXCEPT ![j] = z]
  <2>1. Memory(l, w, b) /\ Counted(l, m, j, z, w) /\ jupes' = w /\ list' = l
    BY <1>5, <1>6, <1>9 DEF Now
  <2>2. Put(L, j, z).list = l /\ Put(L, j, z).jupes = w
    BY <1>5
  <2> HIDE DEF w
  <2>3. /\ FileOK' /\ (saved' => ActiveInFile' = ActiveIn(l, w))
        /\ AllGood(w) /\ FileGood => FileGood'
    BY <1>1, <1>7, <1>9, <2>1, <2>2, WritesWell
  <2>4. intact => AllGood(w)
    BY <1>1, <1>2, <1>3, <1>9, <2>1 DEF Counted, AllGood
  <2>5. y.name \in Names /\ z.name = y.name
    BY <1>2, <1>3 DEF Jupe
  <2>6. ASSUME NEW n \in Names
        PROVE  clients'[n] = Cardinality(HeldIn(w, n)) /\ clients'[n] \in 0 .. MaxJupes
    <3>1. Cardinality(HeldIn(w, n)) \in 0 .. b
      BY <1>1, <2>1, HeldAreFew
    <3>2. Cardinality(HeldIn(w, n)) \in 0 .. MaxJupes
      BY <1>1, <3>1
    <3>3. CASE n = y.name
      <4>1. HeldIn(w, n) = HeldIn(m, n) \cup {j} /\ j \notin HeldIn(m, n)
        BY <1>3, <2>1, <2>5, <3>3, SMTT(30) DEF Counted, HeldIn
      <4>2. Cardinality(HeldIn(w, n)) = Cardinality(HeldIn(m, n)) + 1
        <5> DEFINE A == HeldIn(m, n)
                   B == HeldIn(w, n)
        <5>1. IsFiniteSet(A) /\ B = A \cup {j} /\ j \notin A
          BY <1>1, <4>1, HeldAreFew
        <5> HIDE DEF A, B
        <5>2. Cardinality(B) = Cardinality(A) + 1
          BY <5>1, FS_AddElement
        <5> QED BY <5>2 DEF A, B
      <4>3. clients'[n] = clients[n] + 1
        BY <1>7, <1>9, <3>3
      <4> QED BY <1>7, <3>2, <4>2, <4>3
    <3>4. CASE n # y.name
      <4>1. HeldIn(w, n) = HeldIn(m, n)
        BY <2>1, <2>5, <3>4 DEF Counted
      <4>2. clients'[n] = clients[n]
        BY <1>7, <1>9, <3>4
      <4> QED BY <1>7, <3>2, <4>1, <4>2
    <3> QED BY <3>3, <3>4
  <2>7. clients' \in [Names -> 0 .. MaxJupes]
    BY <1>7, <1>9, <2>6
  <2> QED BY <1>7, <2>1, <2>3, <2>4, <2>6, <2>7 DEF After
<1>10. CASE Now(Put(L, j, y)) /\ UNCHANGED <<clients, file, end, saved, failures>>
  <2> DEFINE w == [m EXCEPT ![j] = y]
  <2>1. Memory(l, w, b) /\ Counted(l, m, j, y, w) /\ jupes' = w /\ list' = l
    BY <1>5, <1>6, <1>10 DEF Now
  <2> HIDE DEF w
  <2>2. Meanwhile(l, w, b)
    BY <1>1, <1>2, <1>3, <2>1 DEF Counted, AllGood, Meanwhile
  <2> QED BY <1>7, <1>10, <2>1, <2>2, NothingWritten
<1> QED BY <1>4, <1>8, <1>9, <1>10

(* Freeing jupes that have expired.                                        *)
LEMMA ExpiredGo ==
  ASSUME IInv, NEW gone, \A j \in gone : j \in DOMAIN jupes /\ Expired(j)
  PROVE  LET L == Without(gone)
         IN  /\ L = [list |-> L.list, jupes |-> L.jupes] /\ Meanwhile(L.list, L.jupes, born)
             /\ DOMAIN L.jupes = DOMAIN jupes \ gone /\ Elements(L.list) = Listed \ gone
             /\ \A j \in DOMAIN L.jupes : L.jupes[j] = jupes[j]
<1> DEFINE k == Keep(list, DOMAIN jupes \ gone)
           r == Restrict(jupes, DOMAIN jupes \ gone)
<1>1. born \in Nat /\ Memory(list, jupes, born)
  BY JupesAssumption DEF IInv
<1>2. \A j \in DOMAIN jupes : j \in gone => ~ jupes[j].active
  BY <1>1, JupesAssumption DEF Memory, Expired
<1>3. Memory(k, r, born) /\ Thinned(list, jupes, gone, k, r)
  BY <1>1, <1>2, LeavesOut
<1>4. Without(gone) = [list |-> k, jupes |-> r]
  BY DEF Without
<1> HIDE DEF k, r
<1>5. Without(gone).list = k /\ Without(gone).jupes = r
  BY <1>4
<1>6. Meanwhile(k, r, born)
  BY <1>3 DEF Meanwhile, Thinned, AllGood, IInv
<1>7. DOMAIN r = DOMAIN jupes \ gone /\ Elements(k) = Listed \ gone /\ \A j \in DOMAIN r : r[j] = jupes[j]
  BY <1>3 DEF Thinned, Listed
<1> QED BY <1>4, <1>5, <1>6, <1>7

(* What a search for n finds and leaves behind.                            *)
LEMMA Searched ==
  ASSUME IInv, NEW n \in Names
  PROVE  LET L == AfterFind(n)
         IN  /\ L = [list |-> L.list, jupes |-> L.jupes] /\ Meanwhile(L.list, L.jupes, born)
             /\ \A j \in DOMAIN L.jupes : L.jupes[j] = jupes[j]
             /\ \A j \in Found(n) : j \in Elements(L.list) /\ j \in DOMAIN L.jupes
             /\ Found(n) = {} => \A j \in Elements(L.list) : L.jupes[j].name # n
<1> DEFINE gone == {j \in Named(n) : Expired(j)}
           L == AfterFind(n)
<1>1. Listed \subseteq DOMAIN jupes
  BY ElementOfSeq DEF IInv, Memory, Listed, Elements
<1>2. \A j \in gone : j \in DOMAIN jupes /\ Expired(j)
  BY <1>1 DEF Named
<1>3. L = Without(gone)
  BY DEF AfterFind
<1> HIDE DEF L, gone
<1>4. /\ L = [list |-> L.list, jupes |-> L.jupes] /\ Meanwhile(L.list, L.jupes, born)
      /\ DOMAIN L.jupes = DOMAIN jupes \ gone /\ Elements(L.list) = Listed \ gone
      /\ \A j \in DOMAIN L.jupes : L.jupes[j] = jupes[j]
  BY <1>2, <1>3, ExpiredGo
<1>5. \A j \in Found(n) : j \in Elements(L.list) /\ j \in DOMAIN L.jupes
  BY <1>1, <1>4 DEF Found, Named, gone
<1>6. ASSUME Found(n) = {}, NEW j \in Elements(L.list) PROVE L.jupes[j].name # n
  <2>1. j \in Listed /\ j \notin gone /\ L.jupes[j] = jupes[j]
    BY <1>1, <1>4, <1>6
  <2> QED BY <1>6, <2>1 DEF Found, Named, gone
<1> QED BY <1>4, <1>5, <1>6 DEF L

(* A step that owes After owes no more than that.                          *)
LEMMA AfterIsEnough ==
  ASSUME IInv, born' \in 0 .. MaxJupes, After(born'), wild' \in BOOLEAN, UNCHANGED intact
  PROVE  IInv'
BY DEF IInv, After

LEMMA AgainKeeps ==
  ASSUME IInv, NEW u \in Userhosts, NEW s \in Servers, NEW n \in Names, JupeAgain(u, s, n)
  PROVE  IInv'
<1> DEFINE L == AfterFind(n)
<1>1. PICK j \in Found(n) :
        /\ ~ jupes[j].active /\ u \notin Range(jupes[j].votes) /\ s \notin DOMAIN jupes[j].votes
        /\ \/ Vote(L, j, u, s) /\ UNCHANGED wild
           \/ VoteFails(L)
  BY DEF JupeAgain
<1>2. ~ wild /\ UNCHANGED <<born, intact>> /\ born \in 0 .. MaxJupes /\ wild \in BOOLEAN
  BY DEF JupeAgain, IInv
<1> HIDE DEF L
<1>3. /\ L = [list |-> L.list, jupes |-> L.jupes] /\ Meanwhile(L.list, L.jupes, born)
      /\ j \in Elements(L.list) /\ L.jupes[j] = jupes[j]
  BY <1>1, Searched DEF L
<1>4. CASE Vote(L, j, u, s) /\ UNCHANGED wild
  <2> DEFINE l == L.list
             m == L.jupes
  <2>1. /\ Vote([list |-> l, jupes |-> m], j, u, s) /\ Meanwhile(l, m, born) /\ j \in Elements(l)
        /\ ~ m[j].active /\ s \notin DOMAIN m[j].votes /\ u \notin Range(m[j].votes)
    BY <1>1, <1>3, <1>4
  <2> HIDE DEF l, m
  <2>2. After(born)
    BY <1>2, <2>1, VoteKeeps
  <2>3. After(born') /\ born' \in 0 .. MaxJupes /\ wild' \in BOOLEAN
    BY <1>2, <1>4, <2>2
  <2> QED BY <1>2, <2>3, AfterIsEnough
<1>5. CASE VoteFails(L)
  <2>1. After(born)
    BY <1>2, <1>3, <1>5, NothingWritten DEF VoteFails, Now
  <2>2. After(born') /\ born' \in 0 .. MaxJupes /\ wild' \in BOOLEAN
    BY <1>2, <1>5, <2>1 DEF VoteFails
  <2> QED BY <1>2, <2>2, AfterIsEnough
<1> QED BY <1>1, <1>4, <1>5

LEMMA NewKeeps ==
  ASSUME IInv, NEW u \in Userhosts, NEW s \in Servers, NEW n \in Names, JupeNew(u, s, n)
  PROVE  IInv'
<1> DEFINE F == AfterFind(n)
           j == born + 1
           L == Pushed(F, j, n)
<1>1. /\ ~ wild /\ Found(n) = {} /\ born < MaxJupes /\ born' = j /\ UNCHANGED intact
      /\ \/ Vote(L, j, u, s) /\ UNCHANGED wild
         \/ VoteFails(L)
  BY DEF JupeNew
<1>2. born \in Nat /\ j \in 0 .. MaxJupes /\ wild \in BOOLEAN
  BY <1>1, JupesAssumption DEF IInv
<1> HIDE DEF F
<1>3. /\ F = [list |-> F.list, jupes |-> F.jupes] /\ Meanwhile(F.list, F.jupes, born)
      /\ \A i \in Elements(F.list) : F.jupes[i].name # n
  BY <1>1, Searched DEF F
<1>4. L = [list |-> L.list, jupes |-> L.jupes]
  BY DEF Pushed
<1>5. Memory(L.list, L.jupes, j) /\ Grown(F.list, F.jupes, j, n, L.list, L.jupes)
  <2> DEFINE k == F.list
             r == F.jupes
  <2>1. L = Pushed([list |-> k, jupes |-> r], j, n)
    BY <1>3
  <2>2. Memory(k, r, born) /\ \A i \in Elements(k) : r[i].name # n
    BY <1>3 DEF Meanwhile
  <2> HIDE DEF k, r, L
  <2>3. j = born + 1
    OBVIOUS
  <2> HIDE DEF j
  <2>4. Memory(L.list, L.jupes, j) /\ Grown(k, r, j, n, L.list, L.jupes)
    BY <1>2, <2>1, <2>2, <2>3, FirstVote
  <2> QED BY <2>4 DEF k, r
<1> HIDE DEF L
<1>6. Meanwhile(L.list, L.jupes, j)
  <2>1. intact => AllGood(L.jupes)
    BY <1>3, <1>5 DEF Meanwhile, Grown, AllGood
  <2>2. saved => ActiveIn(L.list, L.jupes) = ActiveInFile
    BY <1>3, <1>5 DEF Meanwhile, Grown
  <2>3. \A v \in Names : HeldIn(L.jupes, v) = HeldIn(jupes, v)
    BY <1>3, <1>5 DEF Meanwhile, Grown
  <2> QED BY <1>5, <2>1, <2>2, <2>3 DEF Meanwhile
<1>7. /\ j \in Elements(L.list) /\ ~ L.jupes[j].active
      /\ s \notin DOMAIN L.jupes[j].votes /\ u \notin Range(L.jupes[j].votes)
  BY <1>5, NoVotes DEF Grown, Fresh, Range
<1>8. CASE Vote(L, j, u, s) /\ UNCHANGED wild
  <2> DEFINE l == L.list
             m == L.jupes
  <2>1. /\ Vote([list |-> l, jupes |-> m], j, u, s) /\ Meanwhile(l, m, j) /\ j \in Elements(l)
        /\ ~ m[j].active /\ s \notin DOMAIN m[j].votes /\ u \notin Range(m[j].votes)
    BY <1>4, <1>6, <1>7, <1>8
  <2> HIDE DEF l, m, j
  <2>2. After(j)
    BY <1>1, <1>2, <2>1, VoteKeeps
  <2>3. After(born') /\ born' \in 0 .. MaxJupes /\ wild' \in BOOLEAN
    BY <1>1, <1>2, <1>8, <2>2
  <2> QED BY <1>1, <2>3, AfterIsEnough
<1>9. CASE VoteFails(L)
  <2> HIDE DEF j
  <2>1. After(j)
    BY <1>1, <1>2, <1>6, <1>9, NothingWritten DEF VoteFails, Now
  <2>2. After(born') /\ born' \in 0 .. MaxJupes /\ wild' \in BOOLEAN
    BY <1>1, <1>2, <1>9, <2>1 DEF VoteFails
  <2> QED BY <1>1, <2>2, AfterIsEnough
<1> QED BY <1>1, <1>8, <1>9

(* JUPE, UNJUPE refused, and JUPES.                                        *)
LEMMA LookingKeeps ==
  ASSUME IInv, \/ \E n \in Names : Refused(n)
               \/ List
  PROVE  IInv'
<1>1. PICK gone : /\ \A j \in gone : j \in DOMAIN jupes /\ Expired(j)
                  /\ ~ wild /\ Now(Without(gone))
                  /\ UNCHANGED <<born, clients, file, end, saved, failures, intact, wild>>
  <2>1. Listed \subseteq DOMAIN jupes
    BY ElementOfSeq DEF IInv, Memory, Listed, Elements
  <2>2. ASSUME NEW n \in Names, Refused(n)
        PROVE  \E gone : /\ \A j \in gone : j \in DOMAIN jupes /\ Expired(j)
                         /\ ~ wild /\ Now(Without(gone))
                         /\ UNCHANGED <<born, clients, file, end, saved, failures, intact, wild>>
    <3> DEFINE gone == {j \in Named(n) : Expired(j)}
    <3>1. (\A j \in gone : j \in DOMAIN jupes /\ Expired(j)) /\ Now(Without(gone))
      BY <2>1, <2>2 DEF Refused, AfterFind, Named
    <3> HIDE DEF gone
    <3> QED BY <2>2, <3>1 DEF Refused
  <2>3. ASSUME List
        PROVE  \E gone : /\ \A j \in gone : j \in DOMAIN jupes /\ Expired(j)
                         /\ ~ wild /\ Now(Without(gone))
                         /\ UNCHANGED <<born, clients, file, end, saved, failures, intact, wild>>
    <3> DEFINE gone == {j \in Listed : Expired(j)}
    <3>1. (\A j \in gone : j \in DOMAIN jupes /\ Expired(j)) /\ Now(Without(gone))
      BY <2>1, <2>3 DEF List
    <3> HIDE DEF gone
    <3> QED BY <2>3, <3>1 DEF List
  <2> QED BY <2>2, <2>3
<1> DEFINE L == Without(gone)
<1>2. Meanwhile(L.list, L.jupes, born)
  BY <1>1, ExpiredGo
<1> HIDE DEF L
<1>3. born \in 0 .. MaxJupes /\ wild \in BOOLEAN /\ jupes' = L.jupes /\ list' = L.list
  BY <1>1 DEF IInv, Now, L
<1>4. After(born)
  BY <1>1, <1>2, <1>3, NothingWritten
<1>5. After(born') /\ born' \in 0 .. MaxJupes /\ wild' \in BOOLEAN
  BY <1>1, <1>3, <1>4
<1> QED BY <1>1, <1>5, AfterIsEnough

LEMMA UnjupeKeeps ==
  ASSUME IInv, NEW n \in Names, Unjupe(n)
  PROVE  IInv'
<1> DEFINE L == AfterFind(n)
           U(j) == Unlinked(L, j)
<1>1. PICK j \in Found(n) :
        /\ jupes[j].active
        /\ IF LinksGood(L, j)
           THEN Now(U(j)) /\ Writes(U(j)) /\ UNCHANGED wild
           ELSE wild' = TRUE /\ UNCHANGED <<jupes, list, file, end, saved, failures>>
        /\ clients' = [clients EXCEPT ![n] = @ - 1]
  BY DEF Unjupe
<1>2. /\ ~ wild /\ UNCHANGED <<born, intact>> /\ born \in 0 .. MaxJupes /\ wild \in BOOLEAN
      /\ born \in Nat /\ MaxJupes \in Nat /\ FileOK /\ (intact => FileGood)
      /\ clients \in [Names -> 0 .. MaxJupes] /\ intact \in BOOLEAN
      /\ \A v \in Names : clients[v] = Cardinality(HeldIn(jupes, v))
      /\ Memory(list, jupes, born)
  BY JupesAssumption DEF Unjupe, IInv
<1> HIDE DEF L
<1>3. /\ L = [list |-> L.list, jupes |-> L.jupes] /\ Meanwhile(L.list, L.jupes, born)
      /\ j \in Elements(L.list) /\ j \in DOMAIN L.jupes /\ L.jupes[j] = jupes[j]
  BY <1>1, Searched DEF L
<1>4. j \in HeldIn(jupes, n) /\ \A v \in Names : v # n => j \notin HeldIn(jupes, v)
  <2>1. j \in DOMAIN jupes
    BY <1>1, <1>2, ElementOfSeq DEF Found, Named, Listed, Elements, Memory
  <2> QED BY <1>1, <2>1 DEF Found, Named, HeldIn
<1>5. /\ \A v \in Names : clients'[v] = Cardinality(HeldIn(jupes, v) \ {j})
      /\ clients' \in [Names -> 0 .. MaxJupes]
  <2>1. ASSUME NEW v \in Names
        PROVE  clients'[v] = Cardinality(HeldIn(jupes, v) \ {j}) /\ clients'[v] \in 0 .. MaxJupes
    <3>1. CASE v = n
      <4>1. Cardinality(HeldIn(jupes, v) \ {j}) = Cardinality(HeldIn(jupes, v)) - 1
        BY <1>2, <1>4, <3>1, HeldAreFew, FS_RemoveElement
      <4>2. IsFiniteSet(HeldIn(jupes, v) \ {j}) /\ Cardinality(HeldIn(jupes, v) \ {j}) \in Nat
        BY <1>2, HeldAreFew, FS_RemoveElement, FS_CardinalityType
      <4>3. clients'[v] = clients[v] - 1
        BY <1>1, <1>2, <3>1
      <4>4. clients[v] = Cardinality(HeldIn(jupes, v)) /\ clients[v] \in 0 .. MaxJupes
        BY <1>2
      <4> QED BY <1>2, <4>1, <4>2, <4>3, <4>4
    <3>2. CASE v # n
      <4>1. HeldIn(jupes, v) \ {j} = HeldIn(jupes, v)
        BY <1>4, <3>2
      <4> QED BY <1>1, <1>2, <3>2, <4>1
    <3> QED BY <3>1, <3>2
  <2> QED BY <1>1, <1>2, <2>1
<1>6. CASE LinksGood(L, j)
  <2> DEFINE V == U(j)
             l == L.list
             m == L.jupes
  <2>1. /\ V = Unlinked([list |-> l, jupes |-> m], j) /\ LinksGood([list |-> l, jupes |-> m], j)
        /\ Memory(l, m, born) /\ j \in Elements(l)
    BY <1>3, <1>6 DEF Meanwhile
  <2>2. jupes' = V.jupes /\ list' = V.list /\ Writes(V) /\ UNCHANGED wild
    BY <1>1, <1>6 DEF Now
  <2>3. /\ intact => AllGood(m)
        /\ \A v \in Names : HeldIn(m, v) = HeldIn(jupes, v)
    BY <1>3 DEF Meanwhile
  <2> HIDE DEF V, l, m
  <2>4. Memory(V.list, V.jupes, born) /\ Shrunk(m, j, V.jupes)
    BY <1>2, <2>1, JupeUnlinks
  <2>5. /\ FileOK' /\ (saved' => ActiveInFile' = ActiveIn(V.list, V.jupes))
        /\ AllGood(V.jupes) /\ FileGood => FileGood'
    BY <1>2, <2>2, <2>4, WritesWell
  <2>6. intact => AllGood(V.jupes)
    BY <2>3, <2>4 DEF Shrunk, AllGood
  <2>7. \A v \in Names : HeldIn(V.jupes, v) = HeldIn(jupes, v) \ {j}
    BY <2>3, <2>4 DEF Shrunk
  <2>8. After(born)
    BY <1>2, <1>5, <2>2, <2>4, <2>5, <2>6, <2>7 DEF After
  <2>9. After(born') /\ born' \in 0 .. MaxJupes /\ wild' \in BOOLEAN
    BY <1>2, <2>2, <2>8
  <2> QED BY <1>2, <2>9, AfterIsEnough
<1>7. CASE ~ LinksGood(L, j)
  <2>1. wild' = TRUE /\ UNCHANGED <<jupes, list, file, end, saved, failures>>
    BY <1>1, <1>7
  <2> QED BY <1>2, <1>5, <2>1 DEF IInv, FileOK, FileGood, ActiveInFile
<1> QED BY <1>6, <1>7

-----------------------------------------------------------------------------
(* A jupe, in memory or in the file, after a tick.                         *)
LEMMA OlderIs ==
  ASSUME NEW R \in {Jupe, Entry}, NEW x \in R, NEW y, y = Older(x)
  PROVE  /\ y \in R /\ y.name = x.name /\ y.active = x.active
         /\ y.score = x.score /\ y.votes = x.votes
         /\ x.expires = Never => y = x
         /\ y.expires = Never => x.expires = Never
         /\ R = Jupe => y.prev = x.prev
         /\ Good(x) => Good(y)
<1>1. x.expires \in Expiry /\ Never \notin Nat /\ Timeout \in Nat
  <2>1. CASE R = Jupe
    BY JupesAssumption, <2>1 DEF Jupe
  <2>2. CASE R = Entry
    BY JupesAssumption, <2>2 DEF Entry
  <2> QED BY <2>1, <2>2
<1>2. CASE x.expires \in {0, Never}
  BY <1>2 DEF Older
<1>3. CASE x.expires \notin {0, Never}
  <2> DEFINE e == x.expires - 1
  <2>1. e \in Expiry /\ e # Never
    BY <1>1, <1>3 DEF Expiry
  <2>2. y = [x EXCEPT !.expires = e]
    BY <1>3 DEF Older
  <2> HIDE DEF e
  <2>3. /\ y \in R /\ y.name = x.name /\ y.active = x.active /\ y.expires = e
        /\ y.score = x.score /\ y.votes = x.votes
        /\ R = Jupe => y.prev = x.prev
    <3>1. CASE R = Jupe
      BY <2>1, <2>2, <3>1 DEF Jupe
    <3>2. CASE R = Entry
      <4>1. R = Jupe => y.prev = x.prev
        BY <2>2, <3>2
      <4>2. /\ y \in R /\ y.name = x.name /\ y.active = x.active /\ y.expires = e
            /\ y.score = x.score /\ y.votes = x.votes
        BY <2>1, <2>2, <3>2 DEF Entry
      <4> QED BY <4>1, <4>2
    <3> QED BY <3>1, <3>2
  <2>4. Good(x) => Good(y)
    BY <1>3, <2>1, <2>3 DEF Good
  <2> QED BY <1>3, <2>1, <2>3, <2>4
<1> QED BY <1>2, <1>3

LEMMA TickKeeps ==
  ASSUME IInv, Tick
  PROVE  IInv'
<1> DEFINE D == DOMAIN jupes
           N == Len(file)
           w == jupes'
           g == file'
<1>1. /\ ~ wild /\ UNCHANGED <<list, born, clients, end, saved, failures, intact, wild>>
      /\ w = [j \in D |-> Older(jupes[j])] /\ g = [k \in DOMAIN file |-> Older(file[k])]
  BY DEF Tick
<1>2. /\ jupes \in [D -> Jupe] /\ D \subseteq 1 .. born /\ list \in Seq(D) /\ NoTwice(list)
      /\ \A j \in D : jupes[j].prev <= born /\ (jupes[j].active => jupes[j].expires = Never)
      /\ \A i, j \in Elements(list) : jupes[i].name = jupes[j].name => i = j
      /\ Linked(list, jupes)
  BY DEF IInv, Memory
<1>3. (\A k \in 1 .. Len(list) : list[k] \in D) /\ Elements(list) \subseteq D
  <2>1. \A k \in 1 .. Len(list) : list[k] \in D
    BY <1>2, ElementOfSeq
  <2> QED BY <2>1 DEF Elements
<1>4. /\ file \in Seq(Entry) /\ N <= MaxJupes
      /\ \A k, l \in 1 .. N : file[k].name = file[l].name => k = l
      /\ \A k \in 1 .. N : file[k].active => file[k].expires = Never
      /\ end \in {"whole", "cut", "bare"} /\ saved \in BOOLEAN /\ failures \in 0 .. MaxFailures
  BY DEF IInv, FileOK
<1>5. N \in Nat /\ DOMAIN file = 1 .. N /\ \A k \in 1 .. N : file[k] \in Entry
  BY <1>4, LenProperties, ElementOfSeq
<1> HIDE DEF w, g
<1>6. ASSUME NEW j \in D
      PROVE  /\ w[j] \in Jupe /\ w[j].name = jupes[j].name /\ w[j].active = jupes[j].active
             /\ w[j].prev = jupes[j].prev
             /\ w[j].active => w[j] = jupes[j]
             /\ Good(jupes[j]) => Good(w[j])
  <2> DEFINE x == jupes[j]
             y == w[j]
  <2>1. x \in Jupe /\ y = Older(x) /\ (x.active => x.expires = Never)
    BY <1>1, <1>2
  <2> HIDE DEF x, y
  <2>2. /\ y \in Jupe /\ y.name = x.name /\ y.active = x.active /\ y.prev = x.prev
        /\ x.expires = Never => y = x
        /\ Good(x) => Good(y)
    BY <2>1, OlderIs
  <2> QED BY <2>1, <2>2 DEF x, y
<1>7. ASSUME NEW k \in 1 .. N
      PROVE  /\ g[k] \in Entry /\ g[k].name = file[k].name /\ g[k].active = file[k].active
             /\ g[k].active => g[k] = file[k]
             /\ Good(file[k]) => Good(g[k])
  <2> DEFINE x == file[k]
             y == g[k]
  <2>1. x \in Entry /\ y = Older(x) /\ (x.active => x.expires = Never)
    BY <1>1, <1>4, <1>5
  <2> HIDE DEF x, y
  <2>2. /\ y \in Entry /\ y.name = x.name /\ y.active = x.active
        /\ x.expires = Never => y = x
        /\ Good(x) => Good(y)
    BY <2>1, OlderIs
  <2> QED BY <2>1, <2>2 DEF x, y
<1>8. DOMAIN w = D /\ w \in [D -> Jupe]
  <2>1. DOMAIN w = D /\ w = [j \in D |-> w[j]]
    BY <1>1
  <2> QED BY <1>6, <2>1
<1>9. g \in Seq(Entry) /\ Len(g) = N
  <2>1. DOMAIN g = 1 .. N /\ g \in [1 .. N -> Entry]
    <3>1. DOMAIN g = 1 .. N /\ g = [k \in 1 .. N |-> g[k]]
      BY <1>1, <1>5
    <3> QED BY <1>7, <3>1
  <2> QED BY <1>5, <2>1, SeqDef, LenProperties
<1>10. Memory(list, w, born)
  <2>1. \A j \in D : w[j].prev <= born /\ (w[j].active => w[j].expires = Never)
    BY <1>2, <1>6
  <2>2. \A i, j \in Elements(list) : w[i].name = w[j].name => i = j
    BY <1>2, <1>3, <1>6
  <2>3. Linked(list, w)
    BY <1>2, <1>3, <1>6, <1>8 DEF Linked
  <2> QED BY <1>2, <1>8, <2>1, <2>2, <2>3 DEF Memory
<1>11. ActiveIn(list, w) = ActiveIn(list, jupes)
  <2> DEFINE A == {j \in Elements(list) : jupes[j].active}
             B == {j \in Elements(list) : w[j].active}
  <2>1. A = B /\ \A j \in A : w[j] = jupes[j]
    BY <1>3, <1>6
  <2> HIDE DEF A, B
  <2>2. {Saved(w[j]) : j \in B} = {Saved(jupes[j]) : j \in A}
    BY <2>1
  <2> QED BY <2>2 DEF ActiveIn, ActiveOf, A, B
<1>12. {x \in Elements(g) : x.active} = {x \in Elements(file) : x.active}
  <2>1. ASSUME NEW x \in Elements(g), x.active PROVE x \in Elements(file)
    BY <1>7, <1>9, <2>1 DEF Elements
  <2>2. ASSUME NEW x \in Elements(file), x.active PROVE x \in Elements(g)
    BY <1>7, <1>9, <2>2 DEF Elements
  <2> QED BY <2>1, <2>2
<1>13. \A n \in Names : HeldIn(w, n) = HeldIn(jupes, n)
  BY <1>6, <1>8 DEF HeldIn
<1>14. FileOK'
  <2>1. \A k, l \in 1 .. N : g[k].name = g[l].name => k = l
    BY <1>4, <1>7
  <2>2. \A k \in 1 .. N : g[k].active => g[k].expires = Never
    BY <1>4, <1>7
  <2> QED BY <1>1, <1>4, <1>9, <2>1, <2>2 DEF FileOK, g
<1>15. FileGood => FileGood'
  BY <1>1, <1>7, <1>9 DEF FileGood, g
<1>16. AllGood(jupes) => AllGood(w)
  BY <1>6, <1>8 DEF AllGood
<1>17. ActiveInFile' = ActiveInFile
  BY <1>12 DEF ActiveInFile, g
<1>18. After(born)
  <2>1. /\ ~ wild /\ clients \in [Names -> 0 .. MaxJupes]
        /\ intact => AllGood(jupes) /\ FileGood
        /\ saved => ActiveIn(list, jupes) = ActiveInFile
        /\ \A n \in Names : clients[n] = Cardinality(HeldIn(jupes, n))
    BY <1>1 DEF IInv
  <2> QED BY <1>1, <1>10, <1>11, <1>13, <1>14, <1>15, <1>16, <1>17, <2>1 DEF After, w
<1>19. After(born') /\ born' \in 0 .. MaxJupes /\ wild' \in BOOLEAN
  BY <1>1, <1>18 DEF IInv
<1> QED BY <1>1, <1>19, AfterIsEnough

-----------------------------------------------------------------------------
LEMMA ReverseKeeps ==
  ASSUME NEW S, NEW s \in Seq(S), NoTwice(s), NEW t, t = Reverse(s)
  PROVE  t \in Seq(S) /\ Len(t) = Len(s) /\ NoTwice(t) /\ Elements(t) = Elements(s)
<1> DEFINE n == Len(s)
<1>1. n \in Nat /\ (\A k \in 1 .. n : s[k] \in S) /\ t = [k \in 1 .. n |-> s[(n - k) + 1]]
  BY LenProperties, ElementOfSeq DEF Reverse
<1> HIDE DEF n
<1>2. \A k \in 1 .. n : (n - k) + 1 \in 1 .. n /\ t[k] = s[(n - k) + 1]
  BY <1>1
<1>3. t \in [1 .. n -> S]
  BY <1>1, <1>2
<1>4. t \in Seq(S) /\ Len(t) = n
  BY <1>1, <1>3, SeqDef, LenProperties
<1>5. NoTwice(t)
  <2> SUFFICES ASSUME NEW h \in 1 .. n, NEW k \in 1 .. n, t[h] = t[k]
               PROVE  h = k
    BY <1>4 DEF NoTwice
  <2> DEFINE a == (n - h) + 1
             b == (n - k) + 1
  <2>1. a \in 1 .. Len(s) /\ b \in 1 .. Len(s) /\ s[a] = s[b]
    BY <1>2 DEF n
  <2> HIDE DEF a, b
  <2>2. a = b
    BY <2>1 DEF NoTwice
  <2> QED BY <1>1, <2>2 DEF a, b
<1>6. Elements(t) \subseteq Elements(s)
  BY <1>2, <1>4 DEF Elements, n
<1>7. Elements(s) \subseteq Elements(t)
  <2> SUFFICES ASSUME NEW k \in 1 .. n PROVE s[k] \in Elements(t)
    BY DEF Elements, n
  <2> DEFINE h == (n - k) + 1
  <2>1. h \in 1 .. n /\ (n - h) + 1 = k
    BY <1>1
  <2> HIDE DEF h
  <2>2. t[h] = s[k]
    BY <1>2, <2>1
  <2> QED BY <1>4, <2>1, <2>2 DEF Elements
<1> QED BY <1>4, <1>5, <1>6, <1>7 DEF n

(* A jupe of the file in memory.                                           *)
Loaded(y) ==
  [name |-> y.name, active |-> y.active, expires |-> y.expires, score |-> y.score,
   votes |-> y.votes, prev |-> NULL]

LEMMA LoadedIs ==
  ASSUME NEW y \in Entry, NEW x, x = Loaded(y)
  PROVE  /\ x \in Jupe /\ x.name = y.name /\ x.active = y.active /\ x.expires = y.expires
         /\ x.prev = 0 /\ Saved(x) = y
         /\ Good(y) => Good(x)
<1>1. /\ x \in Jupe /\ x.name = y.name /\ x.active = y.active /\ x.expires = y.expires
      /\ x.score = y.score /\ x.votes = y.votes /\ x.prev = 0
  BY DEF Loaded, Entry, Jupe, NULL
<1>2. y = [name |-> y.name, active |-> y.active, expires |-> y.expires, score |-> y.score,
           votes |-> y.votes]
  BY DEF Entry
<1>3. Saved(x) = y
  BY <1>1, <1>2 DEF Saved
<1> QED BY <1>1, <1>3 DEF Good

LEMMA RestartKeeps ==
  ASSUME IInv, Restart
  PROVE  IInv'
<1> DEFINE K == {r \in Elements(file) : r.expires # 0}
           t == Keep(file, K)
           kept == Reverse(t)
           N == Len(kept)
           w == jupes'
           l == list'
<1>1. /\ wild' \in BOOLEAN
      /\ w = [j \in DOMAIN kept |-> Loaded(kept[j])]
      /\ l = [k \in DOMAIN kept |-> k] /\ born' = N
      /\ clients' = Registered(kept) /\ saved' = TRUE /\ intact' = (intact /\ end # "cut")
      /\ UNCHANGED <<file, end, failures>>
  BY DEF Restart, Loaded
<1> HIDE DEF w, l, K, kept, t
<1>2. /\ file \in Seq(Entry) /\ Len(file) <= MaxJupes
      /\ \A h, k \in 1 .. Len(file) : file[h].name = file[k].name => h = k
      /\ \A k \in 1 .. Len(file) : file[k].active => file[k].expires = Never
      /\ end \in {"whole", "cut", "bare"} /\ failures \in 0 .. MaxFailures /\ intact \in BOOLEAN
      /\ Len(file) \in Nat /\ MaxJupes \in Nat
  BY JupesAssumption, LenProperties DEF IInv, FileOK
<1>3. NoTwice(file) /\ \A x, y \in Elements(file) : x.name = y.name => x = y
  BY <1>2 DEF NoTwice, Elements
<1>4. t \in Seq(Entry) /\ Elements(t) = Elements(file) \cap K /\ NoTwice(t) /\ Len(t) <= Len(file)
  <2>1. t \in Seq(Entry) /\ Elements(t) = Elements(file) \cap K /\ NoTwice(t)
    BY <1>2, <1>3, KeepKeeps DEF t
  <2>2. \E at : KeptFrom(file, K, t, at)
    BY <1>2, KeepPlaces DEF t
  <2> QED BY <2>1, <2>2 DEF KeptFrom
<1>5. /\ kept \in Seq(Entry) /\ NoTwice(kept) /\ N <= MaxJupes /\ N \in Nat
      /\ Elements(kept) = K /\ DOMAIN kept = 1 .. N
  <2>1. kept \in Seq(Entry) /\ NoTwice(kept) /\ Elements(kept) = Elements(t) /\ Len(kept) = Len(t)
    BY <1>4, ReverseKeeps DEF kept
  <2>2. K \subseteq Elements(file)
    BY DEF K
  <2>3. N \in Nat /\ DOMAIN kept = 1 .. N /\ Len(t) \in Nat
    BY <1>4, <2>1, LenProperties
  <2> QED BY <1>2, <1>4, <2>1, <2>2, <2>3
<1>6. ASSUME NEW k \in 1 .. N
      PROVE  /\ w[k] \in Jupe /\ w[k].name = kept[k].name /\ w[k].active = kept[k].active
             /\ w[k].prev = 0 /\ Saved(w[k]) = kept[k] /\ kept[k] \in Elements(file)
             /\ w[k].active => w[k].expires = Never
             /\ Good(kept[k]) => Good(w[k])
  <2> DEFINE x == w[k]
             y == kept[k]
  <2>1. y \in Entry /\ y \in K /\ x = Loaded(y)
    BY <1>1, <1>5, ElementOfSeq DEF Elements
  <2>2. y \in Elements(file) /\ (y.active => y.expires = Never)
    BY <1>2, <2>1 DEF K, Elements
  <2> HIDE DEF x, y
  <2>3. /\ x \in Jupe /\ x.name = y.name /\ x.active = y.active /\ x.expires = y.expires
        /\ x.prev = 0 /\ Saved(x) = y
        /\ Good(y) => Good(x)
    BY <2>1, LoadedIs
  <2> QED BY <2>2, <2>3 DEF x, y
<1>7. /\ l \in Seq(1 .. N) /\ Len(l) = N /\ (\A k \in 1 .. N : l[k] = k) /\ NoTwice(l)
      /\ Elements(l) = 1 .. N
  <2>1. l \in [1 .. N -> 1 .. N] /\ \A k \in 1 .. N : l[k] = k
    BY <1>1, <1>5
  <2>2. l \in Seq(1 .. N) /\ Len(l) = N
    BY <1>5, <2>1, SeqDef, LenProperties
  <2>3. NoTwice(l) /\ Elements(l) = 1 .. N
    BY <2>1, <2>2 DEF NoTwice, Elements
  <2> QED BY <2>1, <2>2, <2>3
<1> HIDE DEF N
<1>8. DOMAIN w = 1 .. N /\ w \in [1 .. N -> Jupe]
  <2>1. DOMAIN w = 1 .. N /\ w = [k \in 1 .. N |-> w[k]]
    BY <1>1, <1>5
  <2> QED BY <1>6, <2>1
<1>9. Memory(l, w, N)
  <2>1. \A k \in 1 .. N : w[k].prev <= N /\ (w[k].active => w[k].expires = Never)
    BY <1>5, <1>6
  <2>2. \A h, k \in 1 .. N : w[h].name = w[k].name => h = k
    <3> SUFFICES ASSUME NEW h \in 1 .. N, NEW k \in 1 .. N, w[h].name = w[k].name
                 PROVE  h = k
      OBVIOUS
    <3>1. kept[h] = kept[k]
      BY <1>3, <1>6
    <3> QED BY <1>5, <3>1 DEF NoTwice, N
  <2>3. Linked(l, w)
    BY <1>6, <1>7, <1>8 DEF Linked
  <2> QED BY <1>7, <1>8, <2>1, <2>2, <2>3 DEF Memory
<1>10. ActiveIn(l, w) = ActiveInFile
  <2>1. ASSUME NEW x \in ActiveIn(l, w) PROVE x \in ActiveInFile
    <3>1. PICK k \in 1 .. N : w[k].active /\ x = Saved(w[k])
      BY <1>7, <2>1 DEF ActiveIn, ActiveOf
    <3> QED BY <1>6, <3>1 DEF ActiveInFile
  <2>2. ASSUME NEW x \in ActiveInFile PROVE x \in ActiveIn(l, w)
    <3>1. x \in Elements(file) /\ x.active /\ x.expires = Never
      BY <1>2, <2>2 DEF ActiveInFile, Elements
    <3>2. x \in Elements(kept)
      BY <1>5, <3>1, JupesAssumption DEF K
    <3>3. PICK k \in 1 .. N : x = kept[k]
      BY <3>2 DEF Elements, N
    <3>4. w[k].active /\ x = Saved(w[k]) /\ k \in Elements(l)
      BY <1>6, <1>7, <3>1, <3>3
    <3> QED BY <3>4 DEF ActiveIn, ActiveOf
  <2> QED BY <2>1, <2>2
<1>11. FileOK' /\ ActiveInFile' = ActiveInFile
  BY <1>1, <1>2 DEF FileOK, ActiveInFile
<1>12. intact' => AllGood(w) /\ FileGood'
  <2> SUFFICES ASSUME intact' PROVE AllGood(w) /\ FileGood'
    OBVIOUS
  <2>1. intact /\ end # "cut"
    BY <1>1
  <2>2. FileGood
    BY <2>1 DEF IInv
  <2>3. \A x \in Elements(file) : Good(x)
    BY <2>1, <2>2 DEF FileGood, Elements
  <2>4. AllGood(w)
    BY <1>6, <1>8, <2>3 DEF AllGood
  <2> QED BY <1>1, <2>2, <2>4 DEF FileGood
<1>13. \A n \in Names : /\ clients'[n] = Cardinality(HeldIn(w, n)) /\ clients'[n] \in 0 .. MaxJupes
  <2> SUFFICES ASSUME NEW n \in Names
               PROVE  clients'[n] = Cardinality(HeldIn(w, n)) /\ clients'[n] \in 0 .. MaxJupes
    OBVIOUS
  <2>1. {j \in DOMAIN kept : kept[j].name = n /\ kept[j].active} = HeldIn(w, n)
    BY <1>5, <1>6, <1>8 DEF HeldIn
  <2>2. clients'[n] = Cardinality(HeldIn(w, n))
    BY <1>1, <2>1 DEF Registered
  <2>3. Cardinality(HeldIn(w, n)) \in 0 .. N
    BY <1>5, <1>9, HeldAreFew
  <2> QED BY <1>2, <1>5, <2>2, <2>3
<1>14. clients' \in [Names -> 0 .. MaxJupes]
  BY <1>1, <1>13 DEF Registered
<1>15. born' \in 0 .. MaxJupes /\ Memory(list', jupes', born') /\ intact' \in BOOLEAN
  BY <1>1, <1>2, <1>5, <1>9 DEF w, l
<1> QED BY <1>1, <1>10, <1>11, <1>12, <1>13, <1>14, <1>15 DEF IInv, w, l

-----------------------------------------------------------------------------
(* The invariant holds at the start, is kept, and is what is claimed.      *)
LEMMA InvStarts == Init => IInv
<1> SUFFICES ASSUME Init PROVE IInv
  OBVIOUS
<1>1. /\ jupes = <<>> /\ list = <<>> /\ born = 0 /\ clients = [n \in Names |-> 0]
      /\ file = <<>> /\ end = "whole" /\ saved = TRUE /\ failures = 0
      /\ intact = TRUE /\ wild = FALSE
  BY DEF Init
<1>2. MaxJupes \in Nat /\ MaxFailures \in Nat
  BY JupesAssumption
<1>3. DOMAIN <<>> = {} /\ Len(<<>>) = 0 /\ Elements(<<>>) = {} /\ NoTwice(<<>>)
  BY DEF Elements, NoTwice
<1>4. <<>> \in [{} -> Jupe] /\ <<>> \in Seq({}) /\ <<>> \in Seq(Entry)
  BY <1>3
<1>5. Memory(list, jupes, born)
  <2>1. Linked(<<>>, <<>>)
    BY <1>3 DEF Linked
  <2> QED BY <1>1, <1>3, <1>4, <2>1 DEF Memory
<1>6. FileOK /\ AllGood(jupes) /\ FileGood
  BY <1>1, <1>2, <1>3, <1>4 DEF FileOK, AllGood, FileGood
<1>7. ActiveIn(list, jupes) = ActiveInFile
  BY <1>1, <1>3 DEF ActiveIn, ActiveOf, ActiveInFile
<1>8. \A n \in Names : clients[n] = Cardinality(HeldIn(jupes, n))
  <2>1. \A n : HeldIn(jupes, n) = {}
    BY <1>1, <1>3 DEF HeldIn
  <2>2. Cardinality({}) = 0
    BY FS_EmptySet
  <2>3. \A n \in Names : Cardinality(HeldIn(jupes, n)) = 0
    BY <2>1, <2>2
  <2>4. clients = [n \in Names |-> 0]
    BY <1>1
  <2> QED BY <2>3, <2>4
<1>9. born \in 0 .. MaxJupes /\ 0 \in 0 .. MaxJupes
  BY <1>1, <1>2
<1>10. clients \in [Names -> 0 .. MaxJupes]
  <2> HIDE DEF Init
  <2>1. clients = [n \in Names |-> 0]
    BY <1>1
  <2> QED BY <1>9, <2>1
<1>11. intact \in BOOLEAN /\ wild \in BOOLEAN
  BY <1>1
<1> QED BY <1>5, <1>6, <1>7, <1>8, <1>9, <1>10, <1>11 DEF IInv

LEMMA InvIsKept == IInv /\ [Next]_vars => IInv'
<1> SUFFICES ASSUME IInv, [Next]_vars PROVE IInv'
  OBVIOUS
<1>1. CASE Tick
  BY <1>1, TickKeeps
<1>2. ASSUME NEW u \in Userhosts, NEW s \in Servers, NEW n \in Names, JupeAgain(u, s, n)
      PROVE  IInv'
  BY <1>2, AgainKeeps
<1>3. ASSUME NEW u \in Userhosts, NEW s \in Servers, NEW n \in Names, JupeNew(u, s, n)
      PROVE  IInv'
  BY <1>3, NewKeeps
<1>4. CASE \/ \E n \in Names : Refused(n)
           \/ List
  BY <1>4, LookingKeeps
<1>5. ASSUME NEW n \in Names, Unjupe(n) PROVE IInv'
  BY <1>5, UnjupeKeeps
<1>6. CASE Restart
  BY <1>6, RestartKeeps
<1>7. CASE UNCHANGED vars
  BY <1>7 DEF vars, IInv, FileOK, FileGood, ActiveInFile
<1> QED BY <1>1, <1>2, <1>3, <1>4, <1>5, <1>6, <1>7 DEF Next

LEMMA InvHolds == Spec => []IInv
BY InvStarts, InvIsKept, PTL DEF Spec

(* Every jupe in memory has the points of different opers on different     *)
(* servers, is active only with enough of them, lasts exactly while it is  *)
(* active, and there is one of a name (_do_jupe, _jupe_find,               *)
(* _datafile_load), for any opers, points and time-out.                    *)
THEOREM JupesAreSound == Spec => []JupesSound
<1>1. IInv => JupesSound
  <2> SUFFICES ASSUME IInv PROVE JupesSound
    OBVIOUS
  <2>1. /\ \A j \in DOMAIN jupes : jupes[j] \in Jupe /\ jupes[j].prev <= born
        /\ DOMAIN jupes \subseteq 1 .. born /\ list \in Seq(DOMAIN jupes)
        /\ \A i, j \in Listed : jupes[i].name = jupes[j].name => i = j
        /\ intact => AllGood(jupes)
    BY DEF IInv, Memory, Listed
  <2>2. TypeOK
    <3>1. \A j \in DOMAIN jupes :
            /\ jupes[j].name \in Names /\ jupes[j].expires \in 0 .. Timeout \cup {Never}
            /\ jupes[j].prev \in Nat /\ jupes[j].prev <= born
      BY <2>1 DEF Jupe, Expiry
    <3>2. born \in 0 .. MaxJupes /\ clients \in [Names -> 0 .. MaxJupes]
      BY DEF IInv
    <3>3. \A j \in DOMAIN jupes : jupes[j].prev \in 0 .. born
      BY <3>1, <3>2
    <3>4. /\ end \in {"whole", "cut", "bare"} /\ saved \in BOOLEAN
          /\ failures \in 0 .. MaxFailures /\ intact \in BOOLEAN /\ wild \in BOOLEAN
      BY DEF IInv, FileOK
    <3> QED BY <2>1, <3>1, <3>2, <3>3, <3>4 DEF TypeOK
  <2>3. Earned /\ OnlyActiveStay
    BY <2>1 DEF Earned, OnlyActiveStay, AllGood, Good
  <2>4. OnePerName
    <3> SUFFICES ASSUME NEW n \in Names PROVE Cardinality(Named(n)) <= 1
      BY DEF OnePerName
    <3>1. CASE Named(n) = {}
      BY <3>1, FS_EmptySet
    <3>2. CASE Named(n) # {}
      <4>1. PICK j : j \in Named(n)
        BY <3>2
      <4>2. \A i \in Named(n) : i = j
        BY <2>1, <4>1 DEF Named
      <4>3. Named(n) = {j}
        BY <4>1, <4>2, ZenonT(30)
      <4>4. Cardinality(Named(n)) = 1
        BY <4>3, FS_Singleton
      <4> QED BY <4>4
    <3> QED BY <3>1, <3>2
  <2> QED BY <2>2, <2>3, <2>4 DEF JupesSound
<1> QED BY <1>1, InvHolds, PTL

(* What _datafile_save wrote is, whatever has happened since, the active   *)
(* jupes of the list, unless a write failed.                               *)
THEOREM ActiveOnesComeBack == Spec => []ComesBack
<1>1. IInv => ComesBack
  BY DEF IInv, ComesBack, ActiveIn, ActiveOf, ActiveInFile, Listed
<1> QED BY <1>1, InvHolds, PTL

(* A name has as many registered clients as active jupes in memory         *)
(* (simodule_add_client in _do_jupe and _datafile_load, _jupe_free).       *)
THEOREM OneClientPerJupe == Spec => []ClientPerJupe
<1>1. IInv => ClientPerJupe
  BY DEF IInv, ClientPerJupe, HeldIn
<1> QED BY <1>1, InvHolds, PTL
=============================================================================
