-------------------------- MODULE ConnectionsProofs --------------------------
(***************************************************************************)
(* Proofs that connections, the array for poll(), the listener and the     *)
(* count of attempts agree, and that each entry of the array asks for what *)
(* its connection needs, for any sockets, servers and configurations.      *)
(*                                                                         *)
(* That every connection is at its place is not inductive: the entry that  *)
(* moves must be of a connection, and be the only one that claims its      *)
(* place.  Matched says so both ways.  The lemmas are about a record s of  *)
(* connections like Conns, as the operators of Connections are.            *)
(*                                                                         *)
(* Then the same for the output of one connection, of any block size and   *)
(* however much a write takes: the blocks hold the bytes of the lines in   *)
(* their order, and every step is one of a plain queue of bytes.           *)
(***************************************************************************)
EXTENDS Connections, OutQueue, DataProofs

Connection == [kind : {"listener", "unknown", "server"},
               flag : {"none", "connecting", "connected"}, pos : Nat,
               idle : 0 .. 2, pinged : BOOLEAN, queued : BOOLEAN]
Entry == [fd : Fds, in : BOOLEAN, out : BOOLEAN, stale : {"none", "used", "due"}]

(* A record with the fields of Conns.                                      *)
Shape(s) ==
  /\ DOMAIN s = {"con", "pfds", "outgoing", "waiting", "tried"}
  /\ s.waiting \in BOOLEAN /\ s.tried \in [Servers -> {"no", "yes", "never"}]

(* Places and entries name each other, both ways.                          *)
Matched(s) ==
  /\ s.con \in [DOMAIN s.con -> Connection] /\ s.pfds \in Seq(Entry)
  /\ \A fd \in DOMAIN s.con : /\ s.con[fd].pos \in 1 .. Len(s.pfds)
                              /\ s.pfds[s.con[fd].pos].fd = fd
  /\ \A k \in 1 .. Len(s.pfds) : /\ s.pfds[k].fd \in DOMAIN s.con
                                 /\ s.con[s.pfds[k].fd].pos = k

StartedIn(s) == {fd \in DOMAIN s.con : s.con[fd].flag # "none"}
ListenersIn(s) == {fd \in DOMAIN s.con : s.con[fd].kind = "listener"}

(* At most one connection was started from here, and it is counted.        *)
CountedIn(s) ==
  /\ \A f, g \in StartedIn(s) : f = g
  /\ s.outgoing = (IF StartedIn(s) = {} THEN 0 ELSE 1)
  /\ \A fd \in ListenersIn(s) : fd \notin StartedIn(s)

(* An entry asks for what its connection needs.                            *)
Asks(e, c) ==
  /\ e.out = c.queued
  /\ e.in = (c.flag # "connecting")
  /\ c.flag = "connecting" => c.queued

PolledIn(s) == \A fd \in DOMAIN s.con : Asks(s.pfds[s.con[fd].pos], s.con[fd])

Sound(s) == Shape(s) /\ Matched(s) /\ CountedIn(s) /\ PolledIn(s)

(* New times of attempts.                                                  *)
LEMMA RenewedIsSame ==
  ASSUME NEW t \in [Servers -> {"no", "yes", "never"}]
  PROVE  Renewed(t) \in [Servers -> {"no", "yes", "never"}]
BY DEF Renewed

(* siconn_add: the new entry and its connection know each other.           *)
LEMMA AddedIsSound ==
  ASSUME NEW s, Sound(s), NEW fd \in Fds, fd \notin DOMAIN s.con,
         NEW kind \in {"listener", "unknown"}, NEW flag \in {"none", "connecting"},
         flag = "connecting" => kind = "unknown" /\ s.outgoing = 0,
         NEW o, o = IF flag = "none" THEN s.outgoing ELSE 1
  PROVE  LET t == [Added(s, fd, kind, flag) EXCEPT !.outgoing = o]
         IN  /\ Sound(t) /\ Len(t.pfds) = Len(s.pfds) + 1
             /\ ListenersIn(t) = ListenersIn(s) \cup (IF kind = "listener" THEN {fd} ELSE {})
<1> DEFINE t == [Added(s, fd, kind, flag) EXCEPT !.outgoing = o]
           r == [kind |-> kind, flag |-> flag, pos |-> Len(s.pfds) + 1, idle |-> 0,
                 pinged |-> FALSE, queued |-> flag = "connecting"]
           e == [fd |-> fd, in |-> flag = "none", out |-> flag # "none", stale |-> "none"]
<1>1. Shape(s) /\ Matched(s) /\ CountedIn(s)
  BY DEF Sound
<1>2. /\ t.pfds = Append(s.pfds, e) /\ t.outgoing = o /\ Shape(t)
      /\ t.con = [c \in DOMAIN s.con \cup {fd} |-> IF c = fd THEN r ELSE s.con[c]]
  BY <1>1 DEF Added, Shape
<1> HIDE DEF r, e, t
<1>3. /\ DOMAIN t.con = DOMAIN s.con \cup {fd} /\ t.con[fd] = r
      /\ \A g \in DOMAIN s.con : t.con[g] = s.con[g]
      /\ t.con = [g \in DOMAIN t.con |-> t.con[g]]
  BY <1>2
<1>4. (flag = "connecting") \in BOOLEAN /\ (flag = "none") \in BOOLEAN /\ (flag # "none") \in BOOLEAN
  OBVIOUS
<1>5. s.pfds \in Seq(Entry) /\ Len(s.pfds) \in Nat
  BY <1>1 DEF Matched
<1>6. r \in Connection /\ e \in Entry
  BY <1>4, <1>5 DEF r, e, Connection, Entry
<1>7. /\ t.pfds \in Seq(Entry) /\ Len(t.pfds) = Len(s.pfds) + 1
      /\ t.pfds[Len(s.pfds) + 1] = e /\ \A k \in 1 .. Len(s.pfds) : t.pfds[k] = s.pfds[k]
  BY <1>2, <1>5, <1>6
<1>8. t.con \in [DOMAIN t.con -> Connection]
  <2>1. \A g \in DOMAIN s.con : s.con[g] \in Connection
    BY <1>1 DEF Matched
  <2>2. \A g \in DOMAIN t.con : t.con[g] \in Connection
    BY <2>1, <1>3, <1>6
  <2> QED BY <2>2, <1>3
<1>9. r.pos = Len(s.pfds) + 1 /\ e.fd = fd /\ r.flag = flag /\ r.kind = kind
  BY DEF r, e
<1>10. ASSUME NEW g \in DOMAIN t.con
       PROVE  t.con[g].pos \in 1 .. Len(t.pfds) /\ t.pfds[t.con[g].pos].fd = g
  <2>1. CASE g = fd
    BY <2>1, <1>3, <1>5, <1>7, <1>9
  <2>2. CASE g \in DOMAIN s.con
    <3>1. s.con[g].pos \in 1 .. Len(s.pfds) /\ s.pfds[s.con[g].pos].fd = g
      BY <2>2, <1>1 DEF Matched
    <3>2. t.con[g].pos = s.con[g].pos
      BY <2>2, <1>3
    <3>3. t.pfds[s.con[g].pos] = s.pfds[s.con[g].pos]
      BY <3>1, <1>7
    <3> QED BY <3>1, <3>2, <3>3, <1>5, <1>7
  <2> QED BY <2>1, <2>2, <1>3
<1>11. ASSUME NEW k \in 1 .. Len(t.pfds)
       PROVE  t.pfds[k].fd \in DOMAIN t.con /\ t.con[t.pfds[k].fd].pos = k
  <2>1. CASE k = Len(s.pfds) + 1
    BY <2>1, <1>3, <1>7, <1>9
  <2>2. CASE k \in 1 .. Len(s.pfds)
    BY <2>2, <1>1, <1>3, <1>7 DEF Matched
  <2> QED BY <2>1, <2>2, <1>5, <1>7
<1>12. Matched(t)
  BY <1>7, <1>8, <1>10, <1>11 DEF Matched
<1>13. StartedIn(t) = StartedIn(s) \cup (IF flag = "none" THEN {} ELSE {fd})
  BY <1>3, <1>9 DEF StartedIn
<1>14. ListenersIn(t) = ListenersIn(s) \cup (IF kind = "listener" THEN {fd} ELSE {})
  BY <1>3, <1>9 DEF ListenersIn
<1>15. fd \notin ListenersIn(s) /\ fd \notin StartedIn(s)
  BY DEF ListenersIn, StartedIn
<1>16. CountedIn(t)
  BY <1>1, <1>2, <1>13, <1>14, <1>15 DEF CountedIn
<1>17. PolledIn(t)
  <2> SUFFICES ASSUME NEW g \in DOMAIN t.con
               PROVE  Asks(t.pfds[t.con[g].pos], t.con[g])
    BY DEF PolledIn
  <2>1. CASE g = fd
    <3>1. Asks(e, r)
      BY DEF Asks, e, r
    <3> QED BY <2>1, <3>1, <1>3, <1>7, <1>9
  <2>2. CASE g \in DOMAIN s.con
    <3>1. s.con[g].pos \in 1 .. Len(s.pfds) /\ Asks(s.pfds[s.con[g].pos], s.con[g])
      BY <2>2, <1>1 DEF Matched, PolledIn, Sound
    <3> QED BY <2>2, <3>1, <1>3, <1>7
  <2> QED BY <2>1, <2>2, <1>3
<1>18. Sound(t)
  BY <1>2, <1>12, <1>16, <1>17 DEF Sound
<1> QED BY <1>7, <1>14, <1>18 DEF t

(* Ended changes no connection, and what is counted only when the one that *)
(* ends was started from here.                                             *)
LEMMA EndedKeeps ==
  ASSUME NEW s, Shape(s), NEW c, NEW young
  PROVE  LET t == Ended(s, c, young)
         IN  /\ Shape(t) /\ t.con = s.con /\ t.pfds = s.pfds
             /\ t.outgoing = IF c.flag = "none" THEN s.outgoing ELSE 0
BY RenewedIsSame DEF Ended, Shape

(* A list that is nothing but entries.                                     *)
LEMMA EntriesList ==
  ASSUME NEW n \in Nat, NEW q, q = [k \in 1 .. n |-> q[k]], \A k \in 1 .. n : q[k] \in Entry
  PROVE  q \in Seq(Entry) /\ Len(q) = n
<1> SUFFICES ASSUME NEW S, \A k \in 1 .. n : q[k] \in S
             PROVE  q \in Seq(S) /\ Len(q) = n
  OBVIOUS
<1>1. q \in [1 .. n -> S]
  OBVIOUS
<1> QED BY <1>1

(* t is s without the slot of fd, the last one moved into its place.       *)
SlotGone(s, fd, t) ==
  LET p == s.con[fd].pos
      n == Len(s.pfds)
  IN  /\ Shape(t) /\ t.outgoing = s.outgoing
      /\ t.pfds \in Seq(Entry) /\ Len(t.pfds) = n - 1
      /\ \A k \in 1 .. n - 1 : t.pfds[k] = IF k = p THEN s.pfds[n] ELSE s.pfds[k]
      /\ t.con \in [DOMAIN s.con -> Connection]
      /\ \A g \in DOMAIN s.con :
            /\ t.con[g].kind = s.con[g].kind /\ t.con[g].flag = s.con[g].flag
            /\ t.con[g].queued = s.con[g].queued
            /\ g # fd => t.con[g].pos = IF s.con[g].pos = n THEN p ELSE s.con[g].pos

(* The last entry moves up to the place p of fd.                           *)
LEMMA WithoutSlotMoves ==
  ASSUME NEW s, Shape(s), Matched(s), NEW fd \in DOMAIN s.con
  PROVE  SlotGone(s, fd, WithoutSlot(s, s.con[fd].pos))
<1> DEFINE p == s.con[fd].pos
           n == Len(s.pfds)
           t == WithoutSlot(s, p)
<1>1. /\ s.pfds \in Seq(Entry) /\ n \in Nat /\ p \in 1 .. n /\ s.pfds[p].fd = fd
      /\ s.con \in [DOMAIN s.con -> Connection] /\ p \in Nat
  BY DEF Matched
<1>2. \A g \in DOMAIN s.con : s.con[g].pos \in 1 .. n /\ s.pfds[s.con[g].pos].fd = g
  BY DEF Matched
<1>3. \A k \in 1 .. n : s.pfds[k].fd \in DOMAIN s.con /\ s.con[s.pfds[k].fd].pos = k
  BY DEF Matched
<1>4. \A g \in DOMAIN s.con : s.con[g] \in Connection
  BY <1>1
<1> HIDE DEF p, n
<1>5. CASE p = n
  <2>1. t = [s EXCEPT !.pfds = Front(@)]
    BY <1>5 DEF WithoutSlot, n
  <2>2. Shape(t) /\ t.con = s.con /\ t.outgoing = s.outgoing /\ t.pfds = SubSeq(s.pfds, 1, n - 1)
    BY <2>1 DEF Shape, Front, n
  <2> HIDE DEF t
  <2>3. /\ t.pfds \in Seq(Entry) /\ Len(t.pfds) = n - 1
        /\ \A k \in 1 .. n - 1 : t.pfds[k] = s.pfds[k]
    BY <2>2, <1>1 DEF n
  <2>4. \A g \in DOMAIN s.con : g # fd => s.con[g].pos # n
    BY <1>1, <1>2, <1>5
  <2>5. SlotGone(s, fd, t)
    BY <2>2, <2>3, <2>4, <1>1, <1>5 DEF SlotGone, p, n
  <2> QED BY <2>5 DEF t, p
<1>6. CASE p # n
  <2> DEFINE m == s.pfds[n].fd
             q == [s.pfds EXCEPT ![p] = s.pfds[n]]
  <2>0. m \in DOMAIN s.con /\ s.con[m].pos = n /\ m # fd
    BY <1>1, <1>3, <1>6 DEF p, n
  <2>1. t = [s EXCEPT !.pfds = Front(q), !.con[m].pos = p]
    BY <1>6 DEF WithoutSlot, n
  <2>2. s.con[m] \in Connection /\ m \in DOMAIN s.con
    BY <2>0, <1>4
  <2> HIDE DEF m, q
  <2>3. /\ Shape(t) /\ t.con = [s.con EXCEPT ![m].pos = p] /\ t.outgoing = s.outgoing
        /\ t.pfds = SubSeq(q, 1, Len(q) - 1)
    BY <2>1 DEF Shape, Front
  <2> HIDE DEF t
  <2>4. q \in Seq(Entry) /\ Len(q) = n /\ \A k \in 1 .. n : q[k] = IF k = p THEN s.pfds[n] ELSE s.pfds[k]
    BY <1>1 DEF q, n
  <2>5. /\ t.pfds \in Seq(Entry) /\ Len(t.pfds) = n - 1
        /\ \A k \in 1 .. n - 1 : t.pfds[k] = q[k]
    BY <2>3, <2>4, <1>1
  <2>6. [s.con[m] EXCEPT !.pos = p] \in Connection
    BY <2>2, <1>1 DEF Connection
  <2>7. t.con \in [DOMAIN s.con -> Connection]
    BY <2>3, <2>6, <2>2, <1>1
  <2>8. ASSUME NEW g \in DOMAIN s.con
        PROVE  /\ t.con[g].kind = s.con[g].kind /\ t.con[g].flag = s.con[g].flag
               /\ t.con[g].queued = s.con[g].queued
               /\ g # fd => t.con[g].pos = IF s.con[g].pos = n THEN p ELSE s.con[g].pos
    <3>1. CASE g = m
      <4>1. t.con[m] = [s.con[m] EXCEPT !.pos = p]
        BY <2>2, <2>3, <1>1
      <4> QED BY <4>1, <3>1, <2>0, <2>2 DEF Connection
    <3>2. CASE g # m
      <4>1. t.con[g] = s.con[g]
        BY <3>2, <2>2, <2>3, <1>1
      <4>2. s.con[g].pos # n
        BY <3>2, <1>2 DEF m
      <4> QED BY <4>1, <4>2
    <3> QED BY <3>1, <3>2
  <2>9. SlotGone(s, fd, t)
    BY <2>3, <2>4, <2>5, <2>7, <2>8 DEF SlotGone, p, n
  <2> QED BY <2>9 DEF t, p
<1> QED BY <1>5, <1>6

(* siconn_del: the entry that moved and its connection know each other, a  *)
(* failed attempt is counted out, and nothing else goes.                   *)
LEMMA DeletedIsSound ==
  ASSUME NEW s, Sound(s), NEW fd \in DOMAIN s.con, NEW young
  PROVE  LET t == Deleted(s, fd, young)
         IN  /\ Sound(t) /\ Len(t.pfds) = Len(s.pfds) - 1
             /\ ListenersIn(t) = ListenersIn(s) \ {fd}
             /\ s.con[fd].flag = "none" => t.outgoing = s.outgoing
<1> DEFINE u == Ended(s, s.con[fd], young)
           p == s.con[fd].pos
           n == Len(s.pfds)
           v == WithoutSlot(u, p)
           t == Deleted(s, fd, young)
<1>0. Shape(s) /\ Matched(s) /\ CountedIn(s)
  BY DEF Sound
<1>1. /\ Shape(u) /\ u.con = s.con /\ u.pfds = s.pfds
      /\ u.outgoing = IF s.con[fd].flag = "none" THEN s.outgoing ELSE 0
  BY <1>0, EndedKeeps
<1>2. t = [v EXCEPT !.con = Restrict(@, DOMAIN @ \ {fd})]
  BY <1>1 DEF Deleted
<1> HIDE DEF u, t
<1>3. Matched(u) /\ fd \in DOMAIN u.con /\ u.con[fd].pos = p /\ Len(u.pfds) = n
  BY <1>0, <1>1 DEF Matched
<1>4. /\ Shape(v) /\ v.outgoing = u.outgoing
      /\ v.pfds \in Seq(Entry) /\ Len(v.pfds) = n - 1
      /\ \A k \in 1 .. n - 1 : v.pfds[k] = IF k = p THEN s.pfds[n] ELSE s.pfds[k]
      /\ v.con \in [DOMAIN s.con -> Connection]
      /\ \A g \in DOMAIN s.con :
            /\ v.con[g].kind = s.con[g].kind /\ v.con[g].flag = s.con[g].flag
            /\ v.con[g].queued = s.con[g].queued
            /\ g # fd => v.con[g].pos = IF s.con[g].pos = n THEN p ELSE s.con[g].pos
  <2>1. SlotGone(u, fd, WithoutSlot(u, u.con[fd].pos))
    BY <1>1, <1>3, WithoutSlotMoves
  <2>2. SlotGone(u, fd, v)
    BY <2>1, <1>3
  <2> HIDE DEF v, p, n
  <2>3. u.con[fd].pos = p /\ Len(u.pfds) = n
    BY <1>3
  <2> QED BY <2>2, <2>3, <1>1, ZenonT(40) DEF SlotGone
<1> HIDE DEF v
<1>5. /\ Shape(t) /\ t.outgoing = u.outgoing /\ t.pfds = v.pfds
      /\ t.con = [g \in DOMAIN s.con \ {fd} |-> v.con[g]]
  BY <1>2, <1>4 DEF Shape, Restrict
<1>6. /\ n \in Nat /\ p \in 1 .. n /\ s.pfds[p].fd = fd
      /\ \A g \in DOMAIN s.con : s.con[g].pos \in 1 .. n /\ s.pfds[s.con[g].pos].fd = g
      /\ \A k \in 1 .. n : s.pfds[k].fd \in DOMAIN s.con /\ s.con[s.pfds[k].fd].pos = k
  BY <1>0 DEF Matched
<1> HIDE DEF p, n
<1>7. ASSUME NEW g \in DOMAIN t.con
      PROVE  t.con[g].pos \in 1 .. Len(t.pfds) /\ t.pfds[t.con[g].pos].fd = g
  <2>1. g \in DOMAIN s.con /\ g # fd /\ t.con[g] = v.con[g]
    BY <1>5
  <2>2. s.con[g].pos # p
    BY <2>1, <1>6
  <2>3. CASE s.con[g].pos = n
    BY <2>1, <2>2, <2>3, <1>4, <1>5, <1>6, SMTT(40)
  <2>4. CASE s.con[g].pos # n
    BY <2>1, <2>2, <2>4, <1>4, <1>5, <1>6, SMTT(40)
  <2> QED BY <2>3, <2>4
<1>8. ASSUME NEW k \in 1 .. Len(t.pfds)
      PROVE  t.pfds[k].fd \in DOMAIN t.con /\ t.con[t.pfds[k].fd].pos = k
  <2>1. k \in 1 .. n - 1 /\ Len(t.pfds) = n - 1
    BY <1>4, <1>5
  <2>2. CASE k = p
    <3>1. t.pfds[k] = s.pfds[n] /\ s.con[s.pfds[n].fd].pos = n /\ n # p /\ n \in 1 .. n
      BY <2>1, <2>2, <1>4, <1>5, <1>6
    <3>2. s.pfds[n].fd \in DOMAIN s.con /\ s.pfds[n].fd # fd
      BY <3>1, <1>6 DEF p
    <3>3. v.con[s.pfds[n].fd].pos = p
      BY <3>1, <3>2, <1>4
    <3> QED BY <2>2, <3>1, <3>2, <3>3, <1>5
  <2>3. CASE k # p
    <3>1. t.pfds[k] = s.pfds[k] /\ s.con[s.pfds[k].fd].pos = k /\ k # n /\ k \in 1 .. n
      BY <2>1, <2>3, <1>4, <1>5, <1>6
    <3>2. s.pfds[k].fd \in DOMAIN s.con /\ s.pfds[k].fd # fd
      BY <2>3, <3>1, <1>6 DEF p
    <3>3. v.con[s.pfds[k].fd].pos = k
      BY <3>1, <3>2, <1>4
    <3> QED BY <3>1, <3>2, <3>3, <1>5
  <2> QED BY <2>2, <2>3
<1>9. t.con \in [DOMAIN t.con -> Connection]
  BY <1>4, <1>5
<1>10. Matched(t)
  BY <1>4, <1>5, <1>7, <1>8, <1>9 DEF Matched
<1>11. ListenersIn(t) = ListenersIn(s) \ {fd}
  BY <1>4, <1>5 DEF ListenersIn
<1>12. StartedIn(t) = StartedIn(s) \ {fd}
  BY <1>4, <1>5 DEF StartedIn
<1>13. t.outgoing = (IF StartedIn(t) = {} THEN 0 ELSE 1)
  <2>1. CASE s.con[fd].flag = "none"
    <3>1. fd \notin StartedIn(s)
      BY <2>1 DEF StartedIn
    <3> QED BY <3>1, <2>1, <1>0, <1>1, <1>5, <1>12 DEF CountedIn
  <2>2. CASE s.con[fd].flag # "none"
    <3>1. fd \in StartedIn(s)
      BY <2>2 DEF StartedIn
    <3>2. StartedIn(t) = {}
      BY <3>1, <1>0, <1>12 DEF CountedIn
    <3> QED BY <3>2, <2>2, <1>1, <1>5
  <2> QED BY <2>1, <2>2
<1>14. CountedIn(t)
  BY <1>0, <1>11, <1>12, <1>13 DEF CountedIn
<1>15. PolledIn(t)
  <2> SUFFICES ASSUME NEW g \in DOMAIN t.con
               PROVE  Asks(t.pfds[t.con[g].pos], t.con[g])
    BY DEF PolledIn
  <2>1. g \in DOMAIN s.con /\ g # fd /\ t.con[g] = v.con[g]
    BY <1>5
  <2>2. t.con[g].flag = s.con[g].flag /\ t.con[g].queued = s.con[g].queued
    BY <2>1, <1>4
  <2>3. Asks(s.pfds[s.con[g].pos], s.con[g])
    BY <2>1, <1>0 DEF Sound, PolledIn
  <2>4. t.pfds[t.con[g].pos] = s.pfds[s.con[g].pos]
    <3>1. s.con[g].pos # p /\ s.con[g].pos \in 1 .. n
      BY <2>1, <1>6
    <3>2. CASE s.con[g].pos = n
      BY <2>1, <3>1, <3>2, <1>4, <1>5, <1>6
    <3>3. CASE s.con[g].pos # n
      <4>1. t.con[g].pos = s.con[g].pos /\ s.con[g].pos \in 1 .. n - 1
        BY <2>1, <3>1, <3>3, <1>4, <1>6
      <4> QED BY <3>1, <4>1, <1>4, <1>5
    <3> QED BY <3>2, <3>3
  <2> QED BY <2>2, <2>3, <2>4 DEF Asks
<1> QED BY <1>1, <1>4, <1>5, <1>10, <1>11, <1>14, <1>15 DEF Sound, t, n

(* What neither adds a connection nor takes one away, and tells none of    *)
(* them to be another's, keeps all of it sound.                            *)
LEMMA SameIsSound ==
  ASSUME NEW s, Sound(s), NEW t, Shape(t), DOMAIN t.con = DOMAIN s.con,
         t.con \in [DOMAIN t.con -> Connection], t.pfds \in Seq(Entry),
         Len(t.pfds) = Len(s.pfds), t.outgoing = s.outgoing,
         \A g \in DOMAIN s.con :
           /\ t.con[g].pos = s.con[g].pos
           /\ (t.con[g].flag = "none") = (s.con[g].flag = "none")
           /\ (t.con[g].kind = "listener") = (s.con[g].kind = "listener"),
         \A k \in 1 .. Len(s.pfds) : t.pfds[k].fd = s.pfds[k].fd,
         \A g \in DOMAIN s.con : Asks(t.pfds[s.con[g].pos], t.con[g])
  PROVE  Sound(t) /\ ListenersIn(t) = ListenersIn(s)
<1>0. Matched(s)
  BY DEF Sound
<1>1. Matched(t)
  <2>1. ASSUME NEW fd \in DOMAIN t.con
        PROVE  t.con[fd].pos \in 1 .. Len(t.pfds) /\ t.pfds[t.con[fd].pos].fd = fd
    <3>1. /\ s.con[fd].pos \in 1 .. Len(s.pfds) /\ s.pfds[s.con[fd].pos].fd = fd
          /\ t.con[fd].pos = s.con[fd].pos
      BY <1>0 DEF Matched
    <3>2. t.pfds[s.con[fd].pos].fd = s.pfds[s.con[fd].pos].fd
      BY <3>1
    <3> QED BY <3>1, <3>2
  <2>2. ASSUME NEW k \in 1 .. Len(t.pfds)
        PROVE  t.pfds[k].fd \in DOMAIN t.con /\ t.con[t.pfds[k].fd].pos = k
    <3>1. t.pfds[k].fd = s.pfds[k].fd
      OBVIOUS
    <3>2. s.pfds[k].fd \in DOMAIN s.con /\ s.con[s.pfds[k].fd].pos = k
      BY <1>0 DEF Matched
    <3> QED BY <3>1, <3>2
  <2> QED BY <2>1, <2>2 DEF Matched
<1>2. ListenersIn(t) = ListenersIn(s) /\ StartedIn(t) = StartedIn(s)
  BY DEF ListenersIn, StartedIn
<1>3. CountedIn(t)
  BY <1>2 DEF Sound, CountedIn
<1>4. PolledIn(t)
  BY DEF PolledIn
<1> QED BY <1>1, <1>2, <1>3, <1>4 DEF Sound

(* What still asks for the same.                                           *)
LEMMA AsksTheSame ==
  ASSUME NEW s, Sound(s), NEW t, NEW g \in DOMAIN s.con,
         t.con[g].flag = s.con[g].flag, t.con[g].queued = s.con[g].queued,
         t.pfds[s.con[g].pos].in = s.pfds[s.con[g].pos].in,
         t.pfds[s.con[g].pos].out = s.pfds[s.con[g].pos].out
  PROVE  Asks(t.pfds[s.con[g].pos], t.con[g])
BY DEF Sound, PolledIn, Asks

(* The times of the attempts are nobody's business.                        *)
LEMMA SameFieldsAreSound ==
  ASSUME NEW s, Sound(s), NEW t, Shape(t), t.con = s.con, t.pfds = s.pfds,
         t.outgoing = s.outgoing
  PROVE  Sound(t) /\ ListenersIn(t) = ListenersIn(s)
BY DEF Sound, Matched, CountedIn, StartedIn, ListenersIn, PolledIn

(* Somebody has connected to the listener.                                 *)
LEMMA AcceptedIsSound ==
  ASSUME NEW s, Sound(s), NEW fd \in Fds, fd \notin DOMAIN s.con
  PROVE  LET t == Added(s, fd, "unknown", "none")
         IN  /\ Sound(t) /\ Len(t.pfds) = Len(s.pfds) + 1
             /\ ListenersIn(t) = ListenersIn(s)
<1> DEFINE a == Added(s, fd, "unknown", "none")
           t == [a EXCEPT !.outgoing = s.outgoing]
<1>1. Sound(t) /\ Len(t.pfds) = Len(s.pfds) + 1 /\ ListenersIn(t) = ListenersIn(s)
  <2> DEFINE kind == "unknown"
             flag == "none"
             o == s.outgoing
  <2>1. /\ kind \in {"listener", "unknown"} /\ flag \in {"none", "connecting"}
        /\ (flag = "connecting" => kind = "unknown" /\ s.outgoing = 0)
        /\ o = (IF flag = "none" THEN s.outgoing ELSE 1) /\ kind # "listener"
    OBVIOUS
  <2> HIDE DEF kind, flag, o
  <2>2. LET u == [Added(s, fd, kind, flag) EXCEPT !.outgoing = o]
        IN  /\ Sound(u) /\ Len(u.pfds) = Len(s.pfds) + 1
            /\ ListenersIn(u) = ListenersIn(s) \cup (IF kind = "listener" THEN {fd} ELSE {})
    BY <2>1, AddedIsSound
  <2> QED BY <2>1, <2>2 DEF kind, flag, o
<1>2. Shape(a) /\ a.outgoing = s.outgoing
  BY DEF Added, Shape, Sound
<1> HIDE DEF a
<1>3. t.con = a.con /\ t.pfds = a.pfds /\ t.outgoing = a.outgoing
  BY <1>2 DEF Shape
<1> HIDE DEF t
<1> QED BY <1>1, <1>2, <1>3, SameFieldsAreSound DEF a

(* The fields of connections that may change without a word to the rest.   *)
LEMMA HeardIsSound ==
  ASSUME NEW s, Sound(s), NEW fd \in DOMAIN s.con
  PROVE  LET t == Heard(s, fd)
         IN  /\ Sound(t) /\ ListenersIn(t) = ListenersIn(s) /\ Len(t.pfds) = Len(s.pfds)
             /\ DOMAIN t.con = DOMAIN s.con /\ t.con[fd].kind = s.con[fd].kind
             /\ t.con[fd].flag = s.con[fd].flag /\ t.con[fd].pos = s.con[fd].pos
<1> DEFINE t == Heard(s, fd)
           r == [s.con[fd] EXCEPT !.idle = 0, !.pinged = FALSE]
<1>1. Shape(s) /\ Matched(s) /\ s.con[fd] \in Connection
  BY DEF Sound, Matched
<1>2. /\ r \in Connection /\ r.pos = s.con[fd].pos /\ r.flag = s.con[fd].flag
      /\ r.kind = s.con[fd].kind /\ r.queued = s.con[fd].queued
  <2> DEFINE nought == 0
             halfway == [s.con[fd] EXCEPT !.idle = nought]
  <2>1. nought \in 0 .. 2 /\ r = [halfway EXCEPT !.pinged = FALSE]
    BY <1>1 DEF Connection
  <2> HIDE DEF nought
  <2>2. /\ halfway \in Connection /\ halfway.pos = s.con[fd].pos
        /\ halfway.flag = s.con[fd].flag /\ halfway.kind = s.con[fd].kind
        /\ halfway.queued = s.con[fd].queued
    BY <1>1, <2>1 DEF Connection
  <2> HIDE DEF halfway, r
  <2> QED BY <2>1, <2>2 DEF Connection
<1>3. /\ Shape(t) /\ t.pfds = s.pfds /\ t.outgoing = s.outgoing
      /\ t.con = [[s.con EXCEPT ![fd].idle = 0] EXCEPT ![fd].pinged = FALSE]
  BY <1>1 DEF Heard, Shape
<1>4. [[s.con EXCEPT ![fd].idle = 0] EXCEPT ![fd].pinged = FALSE] = [s.con EXCEPT ![fd] = r]
  BY <1>1 DEF Matched
<1> HIDE DEF r, t
<1>5. /\ t.con \in [DOMAIN s.con -> Connection] /\ t.con[fd] = r
      /\ \A g \in DOMAIN s.con \ {fd} : t.con[g] = s.con[g]
  <2>1. s.con \in [DOMAIN s.con -> Connection] /\ t.con = [s.con EXCEPT ![fd] = r]
    BY <1>1, <1>3, <1>4 DEF Matched
  <2> QED BY <2>1, <1>2
<1>6. \A g \in DOMAIN s.con :
        /\ t.con[g].pos = s.con[g].pos /\ t.con[g].flag = s.con[g].flag
        /\ t.con[g].kind = s.con[g].kind /\ t.con[g].queued = s.con[g].queued
  BY <1>2, <1>5
<1>7. Sound(t) /\ ListenersIn(t) = ListenersIn(s)
  <2>1. /\ DOMAIN t.con = DOMAIN s.con /\ t.con \in [DOMAIN t.con -> Connection]
        /\ t.pfds \in Seq(Entry)
    BY <1>1, <1>3, <1>5 DEF Matched
  <2>2. \A g \in DOMAIN s.con :
          /\ t.con[g].pos = s.con[g].pos
          /\ (t.con[g].flag = "none") = (s.con[g].flag = "none")
          /\ (t.con[g].kind = "listener") = (s.con[g].kind = "listener")
    BY <1>6
  <2>3. \A g \in DOMAIN s.con : Asks(t.pfds[s.con[g].pos], t.con[g])
    BY <1>3, <1>6, AsksTheSame
  <2> QED BY <2>1, <2>2, <2>3, <1>3, SameIsSound
<1> QED BY <1>3, <1>5, <1>6, <1>7 DEF t

(* siconn_printfv: output that is left over waits, and nothing else moves. *)
LEMMA LeftOverIsSound ==
  ASSUME NEW s, Sound(s), NEW Q \in SUBSET DOMAIN s.con
  PROVE  LET t == LeftOver(s, Q)
         IN  /\ Sound(t) /\ ListenersIn(t) = ListenersIn(s) /\ Len(t.pfds) = Len(s.pfds)
             /\ DOMAIN t.con = DOMAIN s.con
             /\ \A g \in DOMAIN s.con : t.con[g].pos = s.con[g].pos
<1> DEFINE t == LeftOver(s, Q)
           queues(fd) == s.con[fd].queued \/ fd \in Q
           asks(k) == s.pfds[k].out \/ \E fd \in Q : s.con[fd].pos = k
           c == [fd \in DOMAIN s.con |-> [s.con[fd] EXCEPT !.queued = queues(fd)]]
           p == [k \in DOMAIN s.pfds |-> [s.pfds[k] EXCEPT !.out = asks(k)]]
<1>1. Shape(s) /\ Matched(s)
  BY DEF Sound
<1>2. t = [s EXCEPT !.con = c, !.pfds = p]
  BY DEF LeftOver
<1>3. \A g \in DOMAIN s.con :
        /\ c[g] \in Connection /\ c[g].pos = s.con[g].pos
        /\ c[g].flag = s.con[g].flag /\ c[g].kind = s.con[g].kind
        /\ c[g].queued = queues(g)
  <2> SUFFICES ASSUME NEW g \in DOMAIN s.con
               PROVE  /\ c[g] \in Connection /\ c[g].pos = s.con[g].pos
                      /\ c[g].flag = s.con[g].flag /\ c[g].kind = s.con[g].kind
                      /\ c[g].queued = queues(g)
    OBVIOUS
  <2>1. s.con[g] \in Connection
    BY <1>1 DEF Matched
  <2>2. queues(g) \in BOOLEAN
    OBVIOUS
  <2> QED BY <2>1, <2>2 DEF Connection
<1>4. \A k \in 1 .. Len(s.pfds) : /\ p[k] \in Entry /\ p[k].fd = s.pfds[k].fd
                                  /\ p[k].in = s.pfds[k].in /\ p[k].out = asks(k)
  <2> SUFFICES ASSUME NEW k \in 1 .. Len(s.pfds)
               PROVE  /\ p[k] \in Entry /\ p[k].fd = s.pfds[k].fd
                      /\ p[k].in = s.pfds[k].in /\ p[k].out = asks(k)
    OBVIOUS
  <2>1. s.pfds[k] \in Entry /\ k \in DOMAIN s.pfds
    BY <1>1 DEF Matched
  <2>2. asks(k) \in BOOLEAN
    OBVIOUS
  <2> QED BY <2>1, <2>2 DEF Entry
<1>5. DOMAIN s.pfds = 1 .. Len(s.pfds) /\ Len(s.pfds) \in Nat
  BY <1>1 DEF Matched
<1>6. p \in Seq(Entry) /\ Len(p) = Len(s.pfds)
  <2>1. DOMAIN p = 1 .. Len(s.pfds) /\ p = [k \in 1 .. Len(s.pfds) |-> p[k]]
    BY <1>5
  <2>2. \A k \in 1 .. Len(s.pfds) : p[k] \in Entry
    BY <1>4
  <2> HIDE DEF p
  <2> QED BY <2>1, <2>2, <1>5
<1>7. c \in [DOMAIN s.con -> Connection] /\ DOMAIN c = DOMAIN s.con
  BY <1>3
<1> HIDE DEF c, p, t
<1>8. Shape(t) /\ t.con = c /\ t.pfds = p /\ t.outgoing = s.outgoing
  BY <1>1, <1>2 DEF Shape
<1>9. ASSUME NEW g \in DOMAIN s.con
      PROVE  Asks(t.pfds[s.con[g].pos], t.con[g])
  <2>1. /\ s.con[g].pos \in 1 .. Len(s.pfds) /\ Asks(s.pfds[s.con[g].pos], s.con[g])
        /\ s.pfds[s.con[g].pos].fd = g
    BY <1>1 DEF Sound, PolledIn, Matched
  <2>2. s.pfds[s.con[g].pos].out = s.con[g].queued /\ s.con[g].queued \in BOOLEAN
    <3>1. s.con[g] \in Connection
      BY <1>1 DEF Matched
    <3> QED BY <2>1, <3>1 DEF Asks, Connection
  <2>3. (\E fd \in Q : s.con[fd].pos = s.con[g].pos) <=> g \in Q
    <3>1. \A fd \in Q : s.con[fd].pos = s.con[g].pos => fd = g
      BY <1>1 DEF Matched
    <3> QED BY <3>1
  <2>4. asks(s.con[g].pos) = queues(g)
    BY <2>2, <2>3, Zenon
  <2>5. t.pfds[s.con[g].pos].out = t.con[g].queued
    BY <2>1, <2>4, <1>3, <1>4, <1>8
  <2>6. t.pfds[s.con[g].pos].in = (t.con[g].flag # "connecting")
    BY <2>1, <1>3, <1>4, <1>8 DEF Asks
  <2>7. t.con[g].flag = "connecting" => t.con[g].queued
    BY <2>1, <1>3, <1>8 DEF Asks
  <2> QED BY <2>5, <2>6, <2>7 DEF Asks
<1>10. Sound(t) /\ ListenersIn(t) = ListenersIn(s)
  BY <1>1, <1>3, <1>4, <1>6, <1>7, <1>8, <1>9, SameIsSound
<1> QED BY <1>3, <1>6, <1>7, <1>8, <1>10 DEF t

NewKind(s, fd, k) == [s EXCEPT !.con[fd].kind = k]

(* The kind of a connection that is no listener changes to no listener.    *)
LEMMA RegisteredIsSound ==
  ASSUME NEW s, Sound(s), NEW fd \in DOMAIN s.con, s.con[fd].kind # "listener",
         NEW k \in {"unknown", "server"}, NEW t, t = NewKind(s, fd, k)
  PROVE  /\ Sound(t) /\ ListenersIn(t) = ListenersIn(s) /\ Len(t.pfds) = Len(s.pfds)
         /\ DOMAIN t.con = DOMAIN s.con
         /\ \A g \in DOMAIN s.con : t.con[g].pos = s.con[g].pos
<1> DEFINE r == [s.con[fd] EXCEPT !.kind = k]
<1>1. Shape(s) /\ Matched(s) /\ s.con[fd] \in Connection
  BY DEF Sound, Matched
<1>2. /\ r \in Connection /\ r.pos = s.con[fd].pos /\ r.flag = s.con[fd].flag
      /\ r.kind = k /\ r.queued = s.con[fd].queued
  BY <1>1 DEF Connection
<1>3. /\ Shape(t) /\ t.pfds = s.pfds /\ t.outgoing = s.outgoing
      /\ t.con = [s.con EXCEPT ![fd] = r]
  BY <1>1 DEF Shape, NewKind
<1> HIDE DEF r
<1>5. /\ t.con \in [DOMAIN s.con -> Connection] /\ t.con[fd] = r
      /\ \A g \in DOMAIN s.con \ {fd} : t.con[g] = s.con[g]
  <2>1. s.con \in [DOMAIN s.con -> Connection]
    BY <1>1 DEF Matched
  <2> QED BY <2>1, <1>2, <1>3
<1>6. \A g \in DOMAIN s.con :
        /\ t.con[g].pos = s.con[g].pos /\ t.con[g].flag = s.con[g].flag
        /\ (t.con[g].kind = "listener") = (s.con[g].kind = "listener")
        /\ t.con[g].queued = s.con[g].queued
  BY <1>2, <1>5
<1>7. Sound(t) /\ ListenersIn(t) = ListenersIn(s)
  <2>1. /\ DOMAIN t.con = DOMAIN s.con /\ t.con \in [DOMAIN t.con -> Connection]
        /\ t.pfds \in Seq(Entry)
    BY <1>1, <1>3, <1>5 DEF Matched
  <2>2. \A g \in DOMAIN s.con :
          /\ t.con[g].pos = s.con[g].pos
          /\ (t.con[g].flag = "none") = (s.con[g].flag = "none")
          /\ (t.con[g].kind = "listener") = (s.con[g].kind = "listener")
    BY <1>6
  <2>3. \A g \in DOMAIN s.con : Asks(t.pfds[s.con[g].pos], t.con[g])
    BY <1>3, <1>6, AsksTheSame
  <2> QED BY <2>1, <2>2, <2>3, <1>3, SameIsSound, SMTT(40)
<1> QED BY <1>3, <1>5, <1>6, <1>7

(* What poll found may change.                                             *)
LEMMA EntryIsSound ==
  ASSUME NEW s, Sound(s), NEW k \in 1 .. Len(s.pfds), NEW e \in Entry,
         e.fd = s.pfds[k].fd, e.in = s.pfds[k].in, e.out = s.pfds[k].out
  PROVE  LET t == [s EXCEPT !.pfds[k] = e]
         IN  /\ Sound(t) /\ ListenersIn(t) = ListenersIn(s) /\ Len(t.pfds) = Len(s.pfds)
             /\ t.con = s.con
<1> DEFINE t == [s EXCEPT !.pfds[k] = e]
<1>1. Shape(s) /\ Matched(s)
  BY DEF Sound
<1>2. Shape(t) /\ t.con = s.con /\ t.outgoing = s.outgoing /\ t.pfds = [s.pfds EXCEPT ![k] = e]
  BY <1>1 DEF Shape
<1> HIDE DEF t
<1>3. /\ t.pfds \in Seq(Entry) /\ Len(t.pfds) = Len(s.pfds)
      /\ \A j \in 1 .. Len(s.pfds) :
            /\ t.pfds[j].fd = s.pfds[j].fd
            /\ t.pfds[j].in = s.pfds[j].in /\ t.pfds[j].out = s.pfds[j].out
  BY <1>1, <1>2 DEF Matched
<1>4. ASSUME NEW g \in DOMAIN s.con
      PROVE  Asks(t.pfds[s.con[g].pos], t.con[g])
  <2>1. s.con[g].pos \in 1 .. Len(s.pfds)
    BY <1>1 DEF Matched
  <2> QED BY <2>1, <1>2, <1>3, AsksTheSame
<1>5. Sound(t) /\ ListenersIn(t) = ListenersIn(s)
  BY <1>1, <1>2, <1>3, <1>4, SameIsSound DEF Matched
<1> QED BY <1>2, <1>3, <1>5 DEF t

(* So may what an entry has left of it.                                    *)
LEMMA StaleIsSound ==
  ASSUME NEW s, Sound(s), NEW k \in 1 .. Len(s.pfds), NEW r \in {"none", "used", "due"}
  PROVE  LET t == [s EXCEPT !.pfds[k].stale = r]
         IN  /\ Sound(t) /\ ListenersIn(t) = ListenersIn(s) /\ Len(t.pfds) = Len(s.pfds)
             /\ t.con = s.con
<1> DEFINE e == [s.pfds[k] EXCEPT !.stale = r]
           u == [s EXCEPT !.pfds[k] = e]
<1>1. s.pfds[k] \in Entry /\ Shape(s) /\ s.pfds \in Seq(Entry)
  BY DEF Sound, Matched
<1>2. e \in Entry /\ e.fd = s.pfds[k].fd /\ e.in = s.pfds[k].in /\ e.out = s.pfds[k].out
  BY <1>1 DEF Entry
<1>3. [s EXCEPT !.pfds[k].stale = r] = u
  BY <1>1
<1> HIDE DEF e
<1>4. /\ Sound(u) /\ ListenersIn(u) = ListenersIn(s) /\ Len(u.pfds) = Len(s.pfds)
      /\ u.con = s.con
  BY <1>2, EntryIsSound
<1> QED BY <1>3, <1>4

(* The entry that moved to a passed place takes its revents along.         *)
LEMMA PassedOverIsSound ==
  ASSUME NEW s, Sound(s), NEW p, NEW t \in PassedOver(s, p)
  PROVE  Sound(t) /\ ListenersIn(t) = ListenersIn(s) /\ Len(t.pfds) = Len(s.pfds)
<1>1. CASE t = s
  BY <1>1
<1>2. ASSUME p \in DOMAIN s.pfds, NEW r \in {"none", "due"}, t = [s EXCEPT !.pfds[p].stale = r]
      PROVE  Sound(t) /\ ListenersIn(t) = ListenersIn(s) /\ Len(t.pfds) = Len(s.pfds)
  <2>1. p \in 1 .. Len(s.pfds)
    BY <1>2 DEF Sound, Matched
  <2>2. r \in {"none", "used", "due"}
    OBVIOUS
  <2> DEFINE u == [s EXCEPT !.pfds[p].stale = r]
  <2>3. Sound(u) /\ ListenersIn(u) = ListenersIn(s) /\ Len(u.pfds) = Len(s.pfds)
    BY <2>1, <2>2, StaleIsSound
  <2> HIDE DEF u
  <2> QED BY <1>2, <2>3 DEF u
<1> QED BY <1>1, <1>2 DEF PassedOver

(* siconn_flush, and what the first POLLOUT means for an attempt.          *)
LEMMA WrittenIsSound ==
  ASSUME NEW s, Sound(s), Fd \in DOMAIN s.con, s.con[Fd].kind # "listener",
         slot \in 1 .. Len(s.pfds), s.con[Fd].pos = slot, NEW w \in Flushed(Connected(s))
  PROVE  Sound(w) /\ ListenersIn(w) = ListenersIn(s) /\ Len(w.pfds) = Len(s.pfds)
<1> DEFINE c == Connected(s)
<1>1. /\ Sound(c) /\ ListenersIn(c) = ListenersIn(s) /\ Len(c.pfds) = Len(s.pfds)
      /\ Fd \in DOMAIN c.con /\ c.con[Fd].flag # "connecting"
  <2>1. CASE s.con[Fd].flag # "connecting"
    BY <2>1 DEF Connected
  <2>2. CASE s.con[Fd].flag = "connecting"
    <3> DEFINE r == [s.con[Fd] EXCEPT !.flag = "connected"]
               e == [s.pfds[slot] EXCEPT !.in = TRUE]
    <3>1. Shape(s) /\ Matched(s) /\ s.con[Fd] \in Connection /\ s.pfds[slot] \in Entry
      BY DEF Sound, Matched
    <3>2. /\ r \in Connection /\ r.pos = s.con[Fd].pos /\ r.flag = "connected"
          /\ r.kind = s.con[Fd].kind /\ r.queued = s.con[Fd].queued
      BY <3>1 DEF Connection
    <3>3. e \in Entry /\ e.fd = s.pfds[slot].fd /\ e.in = TRUE /\ e.out = s.pfds[slot].out
      BY <3>1 DEF Entry
    <3>4. c = [s EXCEPT !.con[Fd].flag = "connected", !.pfds[slot].in = TRUE]
      BY <2>2 DEF Connected
    <3>5. /\ Shape(c) /\ c.con = [s.con EXCEPT ![Fd] = r] /\ c.outgoing = s.outgoing
          /\ c.pfds = [s.pfds EXCEPT ![slot] = e]
      BY <3>1, <3>4 DEF Shape
    <3> HIDE DEF c, r, e
    <3>6. s.con \in [DOMAIN s.con -> Connection] /\ s.pfds \in Seq(Entry)
      BY <3>1 DEF Matched
    <3>7. /\ c.con \in [DOMAIN s.con -> Connection] /\ c.con[Fd] = r
          /\ \A g \in DOMAIN s.con \ {Fd} : c.con[g] = s.con[g]
      BY <3>2, <3>5, <3>6
    <3>8. /\ c.pfds \in Seq(Entry) /\ Len(c.pfds) = Len(s.pfds)
          /\ c.pfds[slot] = e /\ \A k \in 1 .. Len(s.pfds) \ {slot} : c.pfds[k] = s.pfds[k]
      BY <3>3, <3>5, <3>6
    <3>9. \A g \in DOMAIN s.con :
            /\ c.con[g].pos = s.con[g].pos
            /\ (c.con[g].flag = "none") = (s.con[g].flag = "none")
            /\ c.con[g].kind = s.con[g].kind
      BY <2>2, <3>2, <3>7
    <3>10. ASSUME NEW g \in DOMAIN s.con
           PROVE  Asks(c.pfds[s.con[g].pos], c.con[g])
      <4>1. /\ s.con[g].pos \in 1 .. Len(s.pfds) /\ Asks(s.pfds[s.con[g].pos], s.con[g])
            /\ s.pfds[s.con[g].pos].fd = g
        BY <3>1 DEF Sound, PolledIn, Matched
      <4>2. CASE g = Fd
        BY <4>1, <4>2, <3>2, <3>3, <3>7, <3>8 DEF Asks
      <4>3. CASE g # Fd
        <5>1. s.con[g].pos # slot
          BY <4>1, <4>3, <3>1 DEF Matched
        <5> QED BY <4>1, <4>3, <5>1, <3>7, <3>8
      <4> QED BY <4>2, <4>3
    <3>11. \A k \in 1 .. Len(s.pfds) : c.pfds[k].fd = s.pfds[k].fd
      BY <3>3, <3>8
    <3>12. Sound(c) /\ ListenersIn(c) = ListenersIn(s)
      BY <3>5, <3>7, <3>8, <3>9, <3>10, <3>11, SameIsSound
    <3> QED BY <3>2, <3>7, <3>8, <3>12
  <2> QED BY <2>1, <2>2
<1> HIDE DEF c
<1>2. CASE w = c
  BY <1>1, <1>2
<1>3. CASE w = [c EXCEPT !.con[Fd].queued = FALSE, !.pfds[c.con[Fd].pos].out = FALSE]
  <2> DEFINE p == c.con[Fd].pos
             r == [c.con[Fd] EXCEPT !.queued = FALSE]
             e == [c.pfds[p] EXCEPT !.out = FALSE]
  <2>1. /\ Shape(c) /\ Matched(c) /\ c.con[Fd] \in Connection
        /\ p \in 1 .. Len(c.pfds) /\ c.pfds[p] \in Entry
    BY <1>1 DEF Sound, Matched
  <2>2. /\ r \in Connection /\ r.pos = c.con[Fd].pos /\ r.flag = c.con[Fd].flag
        /\ r.kind = c.con[Fd].kind /\ r.queued = FALSE
    BY <2>1 DEF Connection
  <2>3. e \in Entry /\ e.fd = c.pfds[p].fd /\ e.in = c.pfds[p].in /\ e.out = FALSE
    BY <2>1 DEF Entry
  <2>4. /\ Shape(w) /\ w.con = [c.con EXCEPT ![Fd] = r] /\ w.outgoing = c.outgoing
        /\ w.pfds = [c.pfds EXCEPT ![p] = e]
    BY <1>3, <2>1 DEF Shape
  <2> HIDE DEF r, e, p
  <2>5. c.con \in [DOMAIN c.con -> Connection] /\ c.pfds \in Seq(Entry)
    BY <2>1 DEF Matched
  <2>6. /\ w.con \in [DOMAIN c.con -> Connection] /\ w.con[Fd] = r
        /\ \A g \in DOMAIN c.con \ {Fd} : w.con[g] = c.con[g]
    BY <1>1, <2>2, <2>4, <2>5
  <2>7. /\ w.pfds \in Seq(Entry) /\ Len(w.pfds) = Len(c.pfds)
        /\ w.pfds[p] = e /\ \A k \in 1 .. Len(c.pfds) \ {p} : w.pfds[k] = c.pfds[k]
    BY <2>1, <2>3, <2>4, <2>5
  <2>8. \A g \in DOMAIN c.con :
          /\ w.con[g].pos = c.con[g].pos /\ w.con[g].flag = c.con[g].flag
          /\ w.con[g].kind = c.con[g].kind
    BY <2>2, <2>6
  <2>9. ASSUME NEW g \in DOMAIN c.con
        PROVE  Asks(w.pfds[c.con[g].pos], w.con[g])
    <3>1. /\ c.con[g].pos \in 1 .. Len(c.pfds) /\ Asks(c.pfds[c.con[g].pos], c.con[g])
          /\ c.pfds[c.con[g].pos].fd = g
      BY <1>1, <2>1 DEF Sound, PolledIn, Matched
    <3>2. CASE g = Fd
      BY <3>1, <3>2, <1>1, <2>2, <2>3, <2>6, <2>7 DEF Asks, p
    <3>3. CASE g # Fd
      <4>1. c.con[g].pos # p
        BY <3>1, <3>3, <1>1, <2>1 DEF Matched, p
      <4> QED BY <3>1, <3>3, <4>1, <2>6, <2>7
    <3> QED BY <3>2, <3>3
  <2>10. \A k \in 1 .. Len(c.pfds) : w.pfds[k].fd = c.pfds[k].fd
    BY <2>3, <2>7
  <2>11. Sound(w) /\ ListenersIn(w) = ListenersIn(c)
    BY <1>1, <2>4, <2>6, <2>7, <2>8, <2>9, <2>10, SameIsSound
  <2> QED BY <1>1, <2>7, <2>11
<1> QED BY <1>2, <1>3 DEF Flushed, c

-----------------------------------------------------------------------------
Walking == {"scan", "rescan", "last", "blocked"}

(* The walk is at an entry while it lasts.                                 *)
IInv ==
  /\ Sound(Conns)
  /\ ListenersIn(Conns) = (IF listener \in {NULL, Freed} THEN {} ELSE {listener})
  /\ phase \in Walking => slot \in 1 .. Len(pfds)

Times == waiting \in BOOLEAN /\ tried \in [Servers -> {"no", "yes", "never"}]

(* What holds of a record holds of the connections that become that record.*)
LEMMA BecomesSound ==
  ASSUME NEW s, Sound(s), con' = s.con, pfds' = s.pfds, outgoing' = s.outgoing,
         Times'
  PROVE  Sound(Conns)' /\ ListenersIn(Conns)' = ListenersIn(s)
<1>1. /\ Conns'.con = s.con /\ Conns'.pfds = s.pfds /\ Conns'.outgoing = s.outgoing
      /\ Shape(Conns')
  BY DEF Conns, Shape, Times
<1> QED BY <1>1 DEF Sound, Matched, CountedIn, StartedIn, ListenersIn, PolledIn

(* Nothing is open, and nothing counted.                                   *)
LEMMA EmptyIsSound ==
  ASSUME NEW s, Shape(s), s.con = <<>>, s.pfds = <<>>, s.outgoing = 0
  PROVE  Sound(s) /\ ListenersIn(s) = {}
<1>1. DOMAIN <<>> = {} /\ <<>> \in [{} -> Connection] /\ <<>> \in Seq(Entry) /\ Len(<<>>) = 0
  OBVIOUS
<1>2. StartedIn(s) = {} /\ ListenersIn(s) = {}
  BY <1>1 DEF StartedIn, ListenersIn
<1> QED BY <1>1, <1>2 DEF Sound, Matched, CountedIn, PolledIn

(* So it is before main.                                                   *)
LEMMA InitIsSound == Init => IInv
<1> SUFFICES ASSUME Init PROVE IInv
  OBVIOUS
<1>1. Shape(Conns) /\ Conns.con = <<>> /\ Conns.pfds = <<>> /\ Conns.outgoing = 0
  BY DEF Conns, Shape, Init
<1> QED BY <1>1, EmptyIsSound DEF IInv, Init, Walking

(* The lowest socket is one that is not open.                              *)
LEMMA LowestIsNew ==
  ASSUME NEW fd \in Lowest
  PROVE  fd \in Fds /\ fd \notin DOMAIN con
BY DEF Lowest, Open

(* _listener_add and _listener_del, in main and at SIGHUP.                 *)
LEMMA ListenerIsSound ==
  ASSUME IInv, NEW l \in BOOLEAN, NowListens(l), outgoing' = outgoing,
         phase' \in {"first", "attempt"}, Times'
  PROVE  IInv'
<1>0. /\ Sound(Conns) /\ Conns.con = con /\ Conns.pfds = pfds /\ Conns.outgoing = outgoing
      /\ ListenersIn(Conns) = (IF listener \in {NULL, Freed} THEN {} ELSE {listener})
  BY DEF IInv, Conns
<1>1. CASE UNCHANGED <<con, pfds, listener>>
  BY <1>0, <1>1, BecomesSound DEF IInv, Walking
<1>2. ASSUME listener = NULL, NEW fd \in Lowest,
             con' = Added(Conns, fd, "listener", "none").con,
             pfds' = Added(Conns, fd, "listener", "none").pfds, listener' = fd
      PROVE  IInv'
  <2> DEFINE a == Added(Conns, fd, "listener", "none")
             t == [a EXCEPT !.outgoing = outgoing]
  <2>1. fd \in Fds /\ fd \notin DOMAIN Conns.con
    BY <1>0, LowestIsNew
  <2>2. Sound(t) /\ ListenersIn(t) = {fd}
    BY <1>0, <1>2, <2>1, AddedIsSound
  <2>3. Shape(a)
    BY <1>0 DEF Added, Shape, Sound
  <2> HIDE DEF a
  <2>4. t.con = a.con /\ t.pfds = a.pfds /\ t.outgoing = outgoing
    BY <2>3 DEF Shape
  <2>5. con' = t.con /\ pfds' = t.pfds /\ outgoing' = t.outgoing
    BY <1>2, <2>4 DEF a
  <2> HIDE DEF t
  <2>6. Sound(Conns)' /\ ListenersIn(Conns)' = {fd}
    BY <2>2, <2>5, BecomesSound
  <2>7. fd \notin {NULL, Freed}
    BY <2>1, ConnectionsAssumption
  <2> QED BY <2>6, <2>7, <1>2 DEF IInv, Walking
<1>3. ASSUME listener \in Open, listener' = NULL,
             con' = Deleted(Conns, listener, FALSE).con,
             pfds' = Deleted(Conns, listener, FALSE).pfds
      PROVE  IInv'
  <2> DEFINE t == Deleted(Conns, listener, FALSE)
  <2>0. listener \notin {NULL, Freed}
    <3>1. Open \subseteq Fds
      <4>1. \A k \in 1 .. Len(pfds) : pfds[k] \in Entry
        BY <1>0 DEF Sound, Matched
      <4> QED BY <4>1, <1>0 DEF Sound, Matched, Open, Entry
    <3> QED BY <3>1, <1>3, ConnectionsAssumption
  <2>1. listener \in ListenersIn(Conns)
    BY <1>0, <2>0
  <2>2. listener \in DOMAIN Conns.con /\ Conns.con[listener].flag = "none"
    BY <2>1, <1>0 DEF ListenersIn, Sound, CountedIn, StartedIn
  <2>3. Sound(t) /\ ListenersIn(t) = {} /\ t.outgoing = outgoing
    <3>1. /\ Sound(t) /\ ListenersIn(t) = ListenersIn(Conns) \ {listener}
          /\ t.outgoing = Conns.outgoing
      BY <1>0, <2>2, DeletedIsSound
    <3> QED BY <3>1, <1>0, <1>3
  <2>4. con' = t.con /\ pfds' = t.pfds /\ outgoing' = t.outgoing
    BY <1>3, <2>3
  <2> HIDE DEF t
  <2>5. Sound(Conns)' /\ ListenersIn(Conns)' = {}
    BY <2>3, <2>4, BecomesSound
  <2> QED BY <2>5, <1>3 DEF IInv, Walking
<1> QED BY <1>1, <1>2, <1>3 DEF NowListens

(* A step of the loop that leaves the listener alone and makes Conns s.    *)
LEMMA LoopStepIsSound ==
  ASSUME IInv, NEW s, Sound(s), ListenersIn(s) = ListenersIn(Conns), NowConns(s),
         UNCHANGED listener,
         (phase \in Walking => slot \in 1 .. Len(pfds))'
  PROVE  IInv'
<1>1. con' = s.con /\ pfds' = s.pfds /\ outgoing' = s.outgoing /\ Times'
  BY DEF NowConns, Times, Sound, Shape
<1>2. Sound(Conns)' /\ ListenersIn(Conns)' = ListenersIn(s)
  BY <1>1, BecomesSound
<1> QED BY <1>2 DEF IInv

(* So does a step of the walk, which goes on within the array as it is then.*)
LEMMA WalkStepIsSound ==
  ASSUME IInv, NEW s, Sound(s), ListenersIn(s) = ListenersIn(Conns), NowConns(s),
         UNCHANGED listener, NEW k \in Nat \ {0}, GoesOn(k)
  PROVE  IInv'
<1>1. Len(s.pfds) \in Nat /\ pfds' = s.pfds
  BY DEF Sound, Matched, NowConns
<1>2. (phase \in Walking => slot \in 1 .. Len(pfds))'
  BY <1>1 DEF GoesOn, Walking
<1> QED BY <1>2, LoopStepIsSound

(* What an entry of the walk is about.                                     *)
LEMMA EntryOfWalk ==
  ASSUME IInv, phase \in Walking
  PROVE  /\ Sound(Conns) /\ Conns.con = con /\ Conns.pfds = pfds
         /\ Conns.outgoing = outgoing /\ Shape(Conns)
         /\ slot \in 1 .. Len(pfds) /\ Len(pfds) \in Nat /\ pfds \in Seq(Entry)
         /\ Fd \in DOMAIN con /\ con[Fd] \in Connection /\ con[Fd].pos = slot
BY DEF IInv, Sound, Matched, Conns, Fd

(* No step of the loop, of a signal or of a rehash breaks the invariant.   *)
THEOREM StepIsSound == IInv /\ [Next]_vars => IInv'
<1> SUFFICES ASSUME IInv, [Next]_vars PROVE IInv'
  OBVIOUS
<1> DEFINE Inside == phase \in Walking => slot \in 1 .. Len(pfds)
<1>0. /\ Sound(Conns) /\ Conns.con = con /\ Conns.pfds = pfds /\ Conns.outgoing = outgoing
      /\ Shape(Conns) /\ Inside /\ Times
  BY DEF IInv, Conns, Shape, Sound, Times
<1>1. ASSUME NEW f \in Files, Start(f) \/ Hup(f)
      PROVE  IInv'
  <2>1. Times'
    <3>1. CASE Start(f)
      BY <3>1, <1>0 DEF Start, Times
    <3>2. CASE Hup(f)
      <4> DEFINE new == Range(Keep(f.servers, Servers \ Range(servers)))
      <4>1. PICK t \in [new -> {"no", "never"}] :
              tried' = [v \in Servers |-> IF v \in new THEN t[v]
                                         ELSE IF v \in Range(f.servers) THEN tried[v] ELSE "no"]
        BY <3>2 DEF Hup
      <4> HIDE DEF new
      <4>2. \A v \in new : t[v] \in {"no", "yes", "never"}
        OBVIOUS
      <4>3. \A v \in Servers : tried[v] \in {"no", "yes", "never"}
        BY <1>0 DEF Times
      <4>4. tried' \in [Servers -> {"no", "yes", "never"}]
        BY <4>1, <4>2, <4>3
      <4> QED BY <4>4, <1>0, <3>2 DEF Hup, Times
    <3> QED BY <1>1, <3>1, <3>2
  <2> QED BY <1>1, <2>1, ListenerIsSound, ConnectionsAssumption DEF Start, Hup
<1>2. CASE Attempt
  <2>1. Inside'
    BY <1>2 DEF Attempt, Walking
  <2>6. Times'
    <3>1. [tried EXCEPT ![Untried[1]] = "yes"] \in [Servers -> {"no", "yes", "never"}]
      BY <1>0 DEF Times
    <3>2. Renewed(tried) \in [Servers -> {"no", "yes", "never"}]
      BY <1>0, RenewedIsSame DEF Times
    <3>3. CASE waiting' = TRUE /\ tried' = Renewed(tried)
      BY <3>2, <3>3 DEF Times
    <3>4. CASE waiting' = waiting /\ tried' = [tried EXCEPT ![Untried[1]] = "yes"]
      BY <3>1, <3>4, <1>0 DEF Times
    <3> DEFINE s == [Conns EXCEPT !.tried[Untried[1]] = "yes"]
    <3>5. s.waiting = waiting /\ s.tried = [tried EXCEPT ![Untried[1]] = "yes"] /\ s.con = con
      BY DEF Conns
    <3>6. CASE NowConns(s)
      BY <3>4, <3>5, <3>6 DEF NowConns
    <3> HIDE DEF s
    <3>7. ASSUME NEW fd, NowConns([Added(s, fd, "unknown", "connecting") EXCEPT !.outgoing = 1])
          PROVE  Times'
      <4>1. DOMAIN s = {"con", "pfds", "outgoing", "waiting", "tried"}
        BY DEF s, Conns
      <4>2. waiting' = s.waiting /\ tried' = s.tried
        BY <4>1, <3>7 DEF Added, NowConns
      <4> QED BY <4>2, <3>4, <3>5
    <3> QED BY <3>3, <3>6, <3>7, <1>2 DEF Attempt, s
  <2>2. CASE UNCHANGED <<con, pfds, outgoing>>
    BY <2>1, <2>2, <2>6, <1>0, <1>2, BecomesSound DEF IInv, Attempt
  <2>3. CASE NowConns([Conns EXCEPT !.tried[Untried[1]] = "yes"])
    BY <2>1, <2>3, <2>6, <1>0, <1>2, BecomesSound DEF IInv, Attempt, NowConns, Shape
  <2>4. ASSUME NEW fd \in Lowest, NEW t \in [Servers -> {"no", "yes", "never"}],
               Conns.outgoing = 0,
               NowConns([Added([Conns EXCEPT !.tried = t], fd, "unknown", "connecting")
                           EXCEPT !.outgoing = 1])
        PROVE  IInv'
    <3> DEFINE s == [Conns EXCEPT !.tried = t]
    <3>1. Shape(s) /\ s.con = con /\ s.pfds = pfds /\ s.outgoing = 0
      BY <1>0, <2>4 DEF Shape
    <3> HIDE DEF s
    <3>2. Sound(s) /\ ListenersIn(s) = ListenersIn(Conns)
      BY <1>0, <2>4, <3>1, SameFieldsAreSound
    <3>3. fd \in Fds /\ fd \notin DOMAIN s.con
      BY <3>1, LowestIsNew
    <3> DEFINE u == [Added(s, fd, "unknown", "connecting") EXCEPT !.outgoing = 1]
    <3>4. Sound(u) /\ ListenersIn(u) = ListenersIn(s)
      BY <3>1, <3>2, <3>3, AddedIsSound
    <3>5. NowConns(u)
      BY <2>4 DEF s
    <3> HIDE DEF u
    <3> QED BY <2>1, <3>2, <3>4, <3>5, <1>2, LoopStepIsSound DEF Attempt
  <2>5. [Conns EXCEPT !.tried[Untried[1]] = "yes"]
          = [Conns EXCEPT !.tried = [tried EXCEPT ![Untried[1]] = "yes"]]
    BY DEF Conns
  <2>7. [tried EXCEPT ![Untried[1]] = "yes"] \in [Servers -> {"no", "yes", "never"}]
    BY <1>0 DEF Times
  <2> QED BY <2>2, <2>3, <2>4, <2>5, <2>7, <1>0, <1>2 DEF Attempt, Due
<1>3. ASSUME NEW passed \in BOOLEAN, NEW interrupted \in BOOLEAN, Poll(passed, interrupted)
      PROVE  IInv'
  <2> DEFINE s == [Conns EXCEPT !.con = con', !.pfds = pfds']
  <2>1. Shape(s) /\ s.con = con' /\ s.pfds = pfds' /\ s.outgoing = outgoing
    BY <1>0 DEF Shape
  <2>10. Times'
    BY <1>0, <1>3 DEF Poll, Times
  <2> HIDE DEF s
  <2>2. Matched(Conns) /\ con \in [Open -> Connection] /\ pfds \in Seq(Entry)
    BY <1>0 DEF Sound, Matched, Open
  <2>3. ASSUME NEW fd \in Open
        PROVE  /\ con'[fd] \in Connection /\ con'[fd].pos = con[fd].pos
               /\ con'[fd].flag = con[fd].flag /\ con'[fd].kind = con[fd].kind
               /\ con'[fd].queued = con[fd].queued
    <3>1. con[fd] \in Connection
      BY <2>2
    <3>2. PICK i \in 0 .. 2 : con'[fd] = [con[fd] EXCEPT !.idle = i]
      <4>1. con[fd].idle \in 0 .. 2 /\ (con[fd].idle < 2 => con[fd].idle + 1 \in 0 .. 2)
        BY <3>1 DEF Connection
      <4> QED BY <4>1, <1>3 DEF Poll
    <3> QED BY <3>1, <3>2 DEF Connection
  <2>4. DOMAIN con' = Open /\ con' \in [Open -> Connection]
    <3>1. con' = [fd \in Open |-> con'[fd]]
      BY <1>3 DEF Poll
    <3> QED BY <3>1, <2>3
  <2>5. ASSUME NEW k \in 1 .. Len(pfds)
        PROVE  /\ pfds'[k] \in Entry /\ pfds'[k].fd = pfds[k].fd
               /\ pfds'[k].in = pfds[k].in /\ pfds'[k].out = pfds[k].out
    <3>1. pfds[k] \in Entry /\ k \in DOMAIN pfds
      BY <2>2
    <3>2. PICK b \in {"none", "used", "due"} : pfds'[k] = [pfds[k] EXCEPT !.stale = b]
      BY <3>1, <1>3 DEF Poll, Entry
    <3> QED BY <3>1, <3>2 DEF Entry
  <2>6. pfds' \in Seq(Entry) /\ Len(pfds') = Len(pfds)
    <3>1. pfds' = [k \in 1 .. Len(pfds) |-> pfds'[k]] /\ Len(pfds) \in Nat
      BY <1>3, <2>2 DEF Poll
    <3>2. \A k \in 1 .. Len(pfds) : pfds'[k] \in Entry
      BY <2>5
    <3>3. PICK q, n : q = pfds' /\ n = Len(pfds)
      OBVIOUS
    <3>4. n \in Nat /\ q = [k \in 1 .. n |-> q[k]] /\ \A k \in 1 .. n : q[k] \in Entry
      BY <3>1, <3>2, <3>3
    <3>5. q \in Seq(Entry) /\ Len(q) = n
      BY <3>4, EntriesList
    <3> QED BY <3>3, <3>5
  <2>11. ASSUME NEW g \in Open PROVE Asks(s.pfds[con[g].pos], s.con[g])
    <3> DEFINE p == con[g].pos
    <3>1. Conns.con = con /\ Conns.pfds = pfds
      BY DEF Conns
    <3>2. p \in 1 .. Len(pfds)
      BY <2>2, <3>1 DEF Matched, Open
    <3>3. /\ s.con[g].flag = con[g].flag /\ s.con[g].queued = con[g].queued
          /\ s.pfds[p].in = pfds[p].in /\ s.pfds[p].out = pfds[p].out
      BY <2>1, <2>3, <2>5, <3>2
    <3> QED BY <1>0, <3>1, <3>3, AsksTheSame DEF Open
  <2>7. Sound(s) /\ ListenersIn(s) = ListenersIn(Conns)
    BY <1>0, <2>1, <2>3, <2>4, <2>5, <2>6, <2>11, SameIsSound DEF Open
  <2>8. Sound(Conns)' /\ ListenersIn(Conns)' = ListenersIn(s)
    BY <2>1, <2>7, <2>10, <1>3, BecomesSound DEF Poll
  <2>9. Inside'
    BY <2>2, <2>6, <1>3 DEF Poll, Walking
  <2> QED BY <2>7, <2>8, <2>9, <1>3 DEF IInv, Poll
<1>4. ASSUME NEW fd \in DOMAIN con, NEW young
      PROVE  LET t == Deleted(Conns, fd, young)
             IN  /\ Sound(t) /\ ListenersIn(t) = ListenersIn(Conns) \ {fd}
                 /\ con[fd].kind # "listener" => ListenersIn(t) = ListenersIn(Conns)
  <2> DEFINE t == Deleted(Conns, fd, young)
  <2>1. Sound(t) /\ ListenersIn(t) = ListenersIn(Conns) \ {fd}
    BY <1>0, <1>4, DeletedIsSound
  <2>2. con[fd].kind # "listener" => fd \notin ListenersIn(Conns)
    BY <1>0, <1>4 DEF ListenersIn
  <2> HIDE DEF t
  <2> QED BY <2>1, <2>2 DEF t
<1>6. CASE Quiet
  <2>0. /\ phase \in Walking /\ UNCHANGED listener /\ GoesOn(slot + 1)
        /\ slot + 1 \in Nat \ {0} /\ Fd \in DOMAIN con /\ con[Fd] \in Connection
    BY <1>6, EntryOfWalk DEF Quiet, Walking
  <2>1. ASSUME NEW young \in BOOLEAN, NEW s \in PassedOver(Deleted(Conns, Fd, young), slot),
               NowConns(s), Silent(Fd)
        PROVE  IInv'
    <3>1. con[Fd].kind # "listener"
      BY <2>1 DEF Silent
    <3>2. Sound(s) /\ ListenersIn(s) = ListenersIn(Conns)
      BY <2>0, <2>1, <3>1, <1>4, PassedOverIsSound
    <3> QED BY <2>0, <2>1, <3>2, WalkStepIsSound
  <2>2. ASSUME NEW Q \in SUBSET {Fd}, NowConns(LeftOver([Conns EXCEPT !.con[Fd].pinged = TRUE], Q))
        PROVE  IInv'
    <3> DEFINE s == [Conns EXCEPT !.con[Fd].pinged = TRUE]
               r == [con[Fd] EXCEPT !.pinged = TRUE]
    <3>1. /\ Shape(s) /\ s.con = [con EXCEPT ![Fd] = r] /\ s.pfds = pfds
          /\ s.outgoing = outgoing
      BY <1>0 DEF Shape
    <3>2. /\ r \in Connection /\ r.pos = con[Fd].pos /\ r.flag = con[Fd].flag
          /\ r.kind = con[Fd].kind /\ r.queued = con[Fd].queued
      BY <2>0 DEF Connection
    <3> HIDE DEF s, r
    <3>3. con \in [DOMAIN con -> Connection] /\ pfds \in Seq(Entry)
      BY <1>0 DEF Sound, Matched
    <3>4. /\ s.con \in [DOMAIN con -> Connection] /\ s.con[Fd] = r
          /\ \A g \in DOMAIN con \ {Fd} : s.con[g] = con[g]
      BY <2>0, <3>1, <3>2, <3>3
    <3>5. \A g \in DOMAIN con :
            /\ s.con[g].pos = con[g].pos /\ s.con[g].flag = con[g].flag
            /\ s.con[g].kind = con[g].kind /\ s.con[g].queued = con[g].queued
      BY <3>2, <3>4
    <3>9. \A g \in DOMAIN con : Asks(s.pfds[con[g].pos], s.con[g])
      BY <1>0, <3>1, <3>5, AsksTheSame
    <3>6. Sound(s) /\ ListenersIn(s) = ListenersIn(Conns)
      BY <1>0, <3>1, <3>3, <3>4, <3>5, <3>9, SameIsSound
    <3>7. Sound(LeftOver(s, Q)) /\ ListenersIn(LeftOver(s, Q)) = ListenersIn(s)
      BY <2>0, <3>4, <3>6, LeftOverIsSound
    <3>8. NowConns(LeftOver(s, Q))
      BY <2>2 DEF s
    <3> QED BY <2>0, <3>6, <3>7, <3>8, WalkStepIsSound
  <2>3. CASE UNCHANGED <<con, pfds, outgoing, waiting, tried>>
    <3>1. NowConns(Conns)
      BY <2>3 DEF NowConns, Conns
    <3> QED BY <1>0, <2>0, <3>1, WalkStepIsSound
  <2> QED BY <2>1, <2>2, <2>3, <1>6 DEF Quiet
<1>7. CASE Accept
  <2>0. /\ phase \in Walking /\ UNCHANGED listener /\ GoesOn(slot + 1)
        /\ slot + 1 \in Nat \ {0} /\ slot \in 1 .. Len(pfds) /\ pfds \in Seq(Entry)
    BY <1>7, EntryOfWalk DEF Accept, Answered, Walking
  <2> DEFINE s == [Conns EXCEPT !.pfds[slot].stale = "used"]
  <2>3. Sound(s) /\ ListenersIn(s) = ListenersIn(Conns) /\ s.con = con
    BY <1>0, <2>0, StaleIsSound
  <2> HIDE DEF s
  <2>4. CASE NowConns(s)
    BY <2>0, <2>3, <2>4, WalkStepIsSound
  <2>5. ASSUME NEW fd \in Lowest, NowConns(Added(s, fd, "unknown", "none"))
        PROVE  IInv'
    <3>1. /\ Sound(Added(s, fd, "unknown", "none"))
          /\ ListenersIn(Added(s, fd, "unknown", "none")) = ListenersIn(s)
      BY <2>3, LowestIsNew, AcceptedIsSound
    <3> QED BY <2>0, <2>3, <2>5, <3>1, WalkStepIsSound
  <2> QED BY <2>4, <2>5, <1>7 DEF Accept, s
<1>8. CASE Drop
  <2>0. /\ phase \in Walking /\ GoesOn(slot) /\ slot \in Nat \ {0} /\ Fd \in DOMAIN con
    BY <1>8, EntryOfWalk DEF Drop, Answered, Walking
  <2>1. PICK young \in BOOLEAN : NowConns(Deleted(Conns, Fd, young))
    BY <1>8 DEF Drop
  <2> DEFINE t == Deleted(Conns, Fd, young)
  <2>2. /\ Sound(t) /\ ListenersIn(t) = ListenersIn(Conns) \ {Fd}
        /\ con[Fd].kind # "listener" => ListenersIn(t) = ListenersIn(Conns)
    BY <2>0, <1>4
  <2>3. NowConns(t)
    BY <2>1
  <2> HIDE DEF t
  <2>4. CASE con[Fd].kind # "listener"
    <3>1. UNCHANGED listener
      BY <1>8, <2>4 DEF Drop
    <3> QED BY <2>0, <2>2, <2>3, <2>4, <3>1, WalkStepIsSound
  <2>5. CASE con[Fd].kind = "listener"
    <3>1. Fd \in ListenersIn(Conns) /\ listener' = Freed
      BY <1>0, <1>8, <2>0, <2>5 DEF Drop, ListenersIn
    <3>2. ListenersIn(t) = {}
      BY <2>2, <3>1 DEF IInv
    <3>3. con' = t.con /\ pfds' = t.pfds /\ outgoing' = t.outgoing /\ Times'
      BY <2>2, <2>3 DEF NowConns, Times, Sound, Shape
    <3>4. Sound(Conns)' /\ ListenersIn(Conns)' = {}
      BY <2>2, <3>2, <3>3, BecomesSound
    <3>5. Len(t.pfds) \in Nat
      BY <2>2 DEF Sound, Matched
    <3>6. Inside'
      BY <2>0, <3>3, <3>5 DEF GoesOn, Walking
    <3> QED BY <3>1, <3>4, <3>6 DEF IInv
  <2> QED BY <2>4, <2>5
<1>9. CASE WrongPassword
  <2>0. /\ phase \in Walking /\ Fd \in DOMAIN con /\ con[Fd].kind # "listener"
        /\ UNCHANGED listener /\ GoesOn(slot) /\ slot \in Nat \ {0}
    BY <1>9, EntryOfWalk DEF WrongPassword, Answered, Walking
  <2>1. PICK v \in Range(servers), young \in BOOLEAN :
          NowConns([Deleted(Conns, Fd, young) EXCEPT !.tried[v] = "no"])
    BY <1>9 DEF WrongPassword
  <2> DEFINE t == Deleted(Conns, Fd, young)
             s == [t EXCEPT !.tried[v] = "no"]
  <2>2. Sound(t) /\ ListenersIn(t) = ListenersIn(Conns)
    BY <2>0, <1>4
  <2>3. NowConns(s)
    BY <2>1
  <2> HIDE DEF t
  <2>4. Shape(s) /\ s.con = t.con /\ s.pfds = t.pfds /\ s.outgoing = t.outgoing
    <3> s.tried = [t.tried EXCEPT ![v] = "no"] /\ s.waiting = t.waiting
      BY <2>2 DEF Shape, Sound
    <3> QED BY <2>2 DEF Shape, Sound
  <2> HIDE DEF s
  <2>5. Sound(s) /\ ListenersIn(s) = ListenersIn(Conns)
    BY <2>2, <2>4, SameFieldsAreSound
  <2> QED BY <2>0, <2>3, <2>5, WalkStepIsSound
<1>10. CASE Serve
  <2>0. /\ phase \in Walking /\ UNCHANGED listener /\ GoesOn(slot + 1)
        /\ slot + 1 \in Nat \ {0} /\ slot \in 1 .. Len(pfds) /\ Fd \in DOMAIN con
        /\ con[Fd].kind # "listener" /\ con[Fd] \in Connection /\ con[Fd].pos = slot
    BY <1>10, EntryOfWalk DEF Serve, Answered, Walking
  <2> DEFINE h == Heard(Conns, Fd)
  <2>1. /\ Sound(h) /\ ListenersIn(h) = ListenersIn(Conns) /\ Len(h.pfds) = Len(pfds)
        /\ DOMAIN h.con = DOMAIN con /\ h.con[Fd].kind = con[Fd].kind
        /\ h.con[Fd].pos = slot
    BY <1>0, <2>0, HeardIsSound
  <2> HIDE DEF h
  <2>2. ASSUME NEW r \in Read(h) \cup {h}
        PROVE  /\ Sound(r) /\ ListenersIn(r) = ListenersIn(Conns) /\ Len(r.pfds) = Len(pfds)
               /\ DOMAIN r.con = DOMAIN con /\ r.con[Fd].kind # "listener"
               /\ r.con[Fd].pos = slot
    <3>1. CASE r = h
      BY <2>0, <2>1, <3>1
    <3>2. CASE r \in Read(h)
      <4>0. PICK k \in Kinds, Q \in SUBSET ({Fd} \cup Links) :
              r = LeftOver(Registered(h, k), Q)
        BY <3>2 DEF Read
      <4>1. k \in {"unknown", "server"}
        BY <2>0, <4>0 DEF Kinds, Connection
      <4> DEFINE g == Registered(h, k)
      <4>2. /\ Sound(g) /\ ListenersIn(g) = ListenersIn(h) /\ Len(g.pfds) = Len(h.pfds)
            /\ DOMAIN g.con = DOMAIN h.con /\ g.con[Fd].pos = slot
        <5>1. g = NewKind(h, Fd, k)
          BY DEF Registered, NewKind
        <5>2. Sound(h) /\ Fd \in DOMAIN h.con /\ h.con[Fd].kind # "listener"
          BY <2>0, <2>1
        <5> HIDE DEF g
        <5>3. /\ Sound(g) /\ ListenersIn(g) = ListenersIn(h) /\ Len(g.pfds) = Len(h.pfds)
              /\ DOMAIN g.con = DOMAIN h.con /\ g.con[Fd].pos = h.con[Fd].pos
          BY <5>1, <5>2, <4>1, RegisteredIsSound
        <5> QED BY <5>3, <2>1
      <4>3. r = LeftOver(g, Q)
        BY <4>0
      <4> HIDE DEF g
      <4>4. /\ Sound(r) /\ ListenersIn(r) = ListenersIn(g) /\ Len(r.pfds) = Len(g.pfds)
            /\ DOMAIN r.con = DOMAIN g.con /\ r.con[Fd].pos = slot
        <5>1. Q \in SUBSET DOMAIN g.con /\ Fd \in DOMAIN g.con
          BY <2>0, <2>1, <4>0, <4>2 DEF Links, Open
        <5> QED BY <5>1, <4>2, <4>3, LeftOverIsSound
      <4>5. Fd \notin ListenersIn(Conns) /\ Fd \in DOMAIN r.con
        BY <1>0, <2>0, <2>1, <4>2, <4>4 DEF ListenersIn
      <4>6. r.con[Fd].kind # "listener"
        BY <2>1, <4>2, <4>4, <4>5 DEF ListenersIn
      <4> QED BY <2>1, <4>2, <4>4, <4>6
    <3> QED BY <3>1, <3>2
  <2>3. PICK r \in Read(h) \cup {h} :
          \E w \in Flushed(Connected(r)) \cup {r} : \E b \in {w.pfds[slot].stale, "none"} :
            NowConns([w EXCEPT !.pfds[slot].stale = b])
    BY <1>10 DEF Serve, h
  <2>4. PICK w \in Flushed(Connected(r)) \cup {r} : \E b \in {w.pfds[slot].stale, "none"} :
          NowConns([w EXCEPT !.pfds[slot].stale = b])
    BY <2>3
  <2>5. PICK b \in {w.pfds[slot].stale, "none"} : NowConns([w EXCEPT !.pfds[slot].stale = b])
    BY <2>4
  <2>6. Sound(w) /\ ListenersIn(w) = ListenersIn(Conns) /\ Len(w.pfds) = Len(pfds)
    BY <2>0, <2>2, <2>4, WrittenIsSound
  <2>7. b \in {"none", "used", "due"} /\ slot \in 1 .. Len(w.pfds)
    <3>1. slot \in 1 .. Len(w.pfds) /\ w.pfds \in Seq(Entry)
      BY <2>0, <2>6 DEF Sound, Matched
    <3>2. w.pfds[slot] \in Entry
      BY <3>1
    <3> QED BY <2>5, <3>1, <3>2 DEF Entry
  <2> DEFINE u == [w EXCEPT !.pfds[slot].stale = b]
  <2>8. Sound(u) /\ ListenersIn(u) = ListenersIn(Conns)
    BY <2>6, <2>7, StaleIsSound
  <2>9. NowConns(u)
    BY <2>5
  <2> HIDE DEF u
  <2> QED BY <2>0, <2>8, <2>9, WalkStepIsSound
<1>11. CASE Waits
  BY <1>0, <1>11, BecomesSound DEF Waits, IInv, Times, Walking
<1>12. CASE AcceptReturns
  <2>0. UNCHANGED listener /\ slot \in Nat
    BY <1>12, EntryOfWalk DEF AcceptReturns, Walking
  <2>1. ASSUME NEW s, Sound(s), ListenersIn(s) = ListenersIn(Conns), NowConns(s)
        PROVE  IInv'
    <3>1. Len(s.pfds) \in Nat /\ pfds' = s.pfds
      BY <2>1 DEF Sound, Matched, NowConns
    <3>2. Inside'
      BY <1>12, <2>0, <3>1 DEF AcceptReturns, Walking
    <3> QED BY <2>0, <2>1, <3>2, LoopStepIsSound
  <2>2. ASSUME NEW fd \in Lowest, NowConns(Added(Conns, fd, "unknown", "none"))
        PROVE  IInv'
    BY <1>0, <2>1, <2>2, LowestIsNew, AcceptedIsSound
  <2> QED BY <1>0, <2>1, <2>2, <1>12 DEF AcceptReturns
<1>14. CASE ReadReturns
  <2>0. slot \in 1 .. Len(pfds) /\ UNCHANGED listener /\ UNCHANGED slot
    BY <1>14, EntryOfWalk DEF ReadReturns, Walking
  <2> DEFINE s == [Conns EXCEPT !.pfds[slot].stale = "due"]
  <2>1. Sound(s) /\ ListenersIn(s) = ListenersIn(Conns) /\ Len(s.pfds) = Len(pfds)
    BY <1>0, <2>0, StaleIsSound
  <2>2. NowConns(s)
    BY <1>14 DEF ReadReturns
  <2> HIDE DEF s
  <2>3. Inside'
    BY <2>0, <2>1, <2>2 DEF NowConns
  <2> QED BY <2>0, <2>1, <2>2, <2>3, LoopStepIsSound
<1>15. CASE SquitOther
  <2>0. /\ phase \in Walking /\ slot \in 1 .. Len(pfds) /\ Len(pfds) \in Nat
        /\ Fd \in DOMAIN con /\ con[Fd].pos = slot /\ UNCHANGED listener
    BY <1>15, EntryOfWalk DEF SquitOther, Answered, Walking
  <2> DEFINE h == Heard(Conns, Fd)
  <2>1. /\ Sound(h) /\ ListenersIn(h) = ListenersIn(Conns) /\ Len(h.pfds) = Len(pfds)
        /\ DOMAIN h.con = DOMAIN con
    BY <1>0, <2>0, HeardIsSound
  <2> HIDE DEF h
  <2>2. ASSUME NEW v \in Links \ {Fd}, NEW young \in BOOLEAN,
               LET p == con[v].pos
                   s == Deleted(h, v, young)
               IN  IF slot = Len(pfds)
                   THEN /\ NowConns([s EXCEPT !.pfds[p].stale = "used"])
                        /\ slot' = p /\ phase' = "last"
                   ELSE /\ \E r \in IF p < slot THEN PassedOver(s, p) ELSE {s} : NowConns(r)
                        /\ UNCHANGED <<slot, phase>>
        PROVE  IInv'
    <3> DEFINE p == con[v].pos
               s == Deleted(h, v, young)
    <3>1. v \in DOMAIN con /\ con[v].kind = "server" /\ v # Fd
      BY DEF Links, Open
    <3>2. p \in 1 .. Len(pfds) /\ p # slot
      BY <1>0, <2>0, <3>1 DEF Sound, Matched
    <3>3. v \notin ListenersIn(h)
      BY <1>0, <2>1, <3>1 DEF ListenersIn
    <3>4. Sound(s) /\ ListenersIn(s) = ListenersIn(Conns) /\ Len(s.pfds) = Len(pfds) - 1
      <4>1. v \in DOMAIN h.con
        BY <2>1, <3>1
      <4>2. Sound(s) /\ Len(s.pfds) = Len(h.pfds) - 1 /\ ListenersIn(s) = ListenersIn(h) \ {v}
        BY <2>1, <4>1, DeletedIsSound
      <4> HIDE DEF s
      <4> QED BY <2>1, <3>3, <4>2
    <3> HIDE DEF s, p
    <3>5. ASSUME NEW r, Sound(r), ListenersIn(r) = ListenersIn(s), Len(r.pfds) = Len(s.pfds),
                 NowConns(r), slot' \in 1 .. Len(pfds) - 1
          PROVE  IInv'
      <4>1. Inside'
        BY <2>0, <3>4, <3>5 DEF NowConns
      <4> QED BY <2>0, <3>4, <3>5, <4>1, LoopStepIsSound
    <3>6. CASE slot = Len(pfds)
      <4> DEFINE r == [s EXCEPT !.pfds[p].stale = "used"]
      <4>1. p \in 1 .. Len(pfds) - 1
        BY <2>0, <3>2, <3>6
      <4>2. Sound(r) /\ ListenersIn(r) = ListenersIn(s) /\ Len(r.pfds) = Len(s.pfds)
        BY <3>4, <4>1, StaleIsSound
      <4>3. NowConns(r) /\ slot' = p
        BY <2>2, <3>6 DEF s, p
      <4> HIDE DEF r
      <4> QED BY <3>5, <4>1, <4>2, <4>3
    <3>7. CASE slot # Len(pfds)
      <4>1. PICK r \in PassedOver(s, p) \cup {s} : NowConns(r)
        BY <2>2, <3>7 DEF s, p
      <4>2. Sound(r) /\ ListenersIn(r) = ListenersIn(s) /\ Len(r.pfds) = Len(s.pfds)
        BY <3>4, <4>1, PassedOverIsSound
      <4>3. slot' \in 1 .. Len(pfds) - 1
        BY <2>0, <2>2, <3>7
      <4> QED BY <3>5, <4>1, <4>2, <4>3
    <3> QED BY <3>6, <3>7
  <2> QED BY <1>15, <2>2 DEF SquitOther, h
<1>16. ASSUME NEW f \in Files, HupOfFreed(f)
       PROVE  IInv'
  BY <1>0, <1>16, BecomesSound DEF HupOfFreed, IInv, Times, Walking
<1>17. CASE Restart
  <2> DEFINE s == [con |-> <<>>, pfds |-> <<>>, outgoing |-> 0, waiting |-> FALSE,
                   tried |-> [v \in Servers |-> "no"]]
  <2>1. Shape(s) /\ s.con = <<>> /\ s.pfds = <<>> /\ s.outgoing = 0
    BY DEF Shape
  <2>2. Sound(s) /\ ListenersIn(s) = {}
    BY <2>1, EmptyIsSound
  <2>3. Times'
    BY <1>17 DEF Restart, Times
  <2>4. Sound(Conns)' /\ ListenersIn(Conns)' = {}
    BY <1>17, <2>1, <2>2, <2>3, BecomesSound DEF Restart
  <2> QED BY <1>17, <2>4 DEF Restart, IInv, Walking
<1>13. CASE UNCHANGED vars
  BY <1>0, <1>13, BecomesSound DEF IInv, vars, Times
<1> QED
  BY <1>1, <1>2, <1>3, <1>6, <1>7, <1>8, <1>9, <1>10, <1>11, <1>12, <1>13, <1>14, <1>15,
     <1>16, <1>17
  DEF Next, Loop, Signals

-----------------------------------------------------------------------------
(* As many entries as connections: the places are a bijection.             *)
LEMMA AsManyEntries ==
  ASSUME NEW s, Matched(s)
  PROVE  Len(s.pfds) = Cardinality(DOMAIN s.con)
<1> DEFINE f == [k \in 1 .. Len(s.pfds) |-> s.pfds[k].fd]
<1>1. /\ Len(s.pfds) \in Nat
      /\ \A k \in 1 .. Len(s.pfds) : f[k] \in DOMAIN s.con /\ s.con[f[k]].pos = k
      /\ \A fd \in DOMAIN s.con : s.con[fd].pos \in 1 .. Len(s.pfds) /\ f[s.con[fd].pos] = fd
  BY DEF Matched
<1>2. f \in [1 .. Len(s.pfds) -> DOMAIN s.con]
  BY <1>1
<1> HIDE DEF f
<1>3. f \in Bijection(1 .. Len(s.pfds), DOMAIN s.con)
  BY <1>1, <1>2 DEF Bijection, Injection, Surjection, IsInjective
<1>4. ExistsBijection(1 .. Len(s.pfds), DOMAIN s.con)
  BY <1>3 DEF ExistsBijection
<1> QED BY <1>1, <1>4, FS_CountingElements

(* Connections and the poll array, the listener and the count of attempts  *)
(* agree (siconn_add, siconn_del, siconn_poll), for any number of sockets, *)
(* any servers and any configurations.                                     *)
THEOREM ConnectionsAreSound == Spec => []ConnectionsSound
<1>1. IInv => ConnectionsSound
  <2> SUFFICES ASSUME IInv PROVE ConnectionsSound
    OBVIOUS
  <2>0. /\ Conns.con = con /\ Conns.pfds = pfds /\ Conns.outgoing = outgoing
        /\ Matched(Conns) /\ CountedIn(Conns)
    BY DEF IInv, Conns, Sound
  <2>1. EachHasItsSlot
    BY <2>0, AsManyEntries DEF EachHasItsSlot, Matched, Open
  <2>2. ListenerIsOpen
    BY <2>0 DEF IInv, ListenerIsOpen, ListenersIn, Open
  <2>3. OneAttemptAtATime
    <3>1. Started = StartedIn(Conns)
      BY <2>0 DEF Started, StartedIn, Open
    <3>2. CASE Started = {}
      BY <3>1, <3>2, <2>0, FS_EmptySet DEF OneAttemptAtATime, CountedIn
    <3>3. CASE Started # {}
      <4>1. PICK fd : fd \in Started
        BY <3>3
      <4>2. Started = {fd}
        BY <4>1, <3>1, <2>0 DEF CountedIn
      <4> QED BY <3>1, <3>3, <4>2, <2>0, FS_Singleton DEF OneAttemptAtATime, CountedIn
    <3> QED BY <3>2, <3>3
  <2> QED BY <2>1, <2>2, <2>3 DEF ConnectionsSound
<1> QED BY <1>1, InitIsSound, StepIsSound, PTL DEF Spec

-----------------------------------------------------------------------------
(* What is left of the types: the walk is over whenever poll is not asked. *)
Typed ==
  /\ servers \in Seq(Servers) /\ timeout \in {0, 1}
  /\ phase \in {"off", "first", "top", "attempt", "poll", "scan", "rescan", "last",
               "blocked", "wild"}
  /\ phase \notin Walking => slot = 0

(* The servers that stay and those that come in are servers.               *)
LEMMA StepIsTyped == IInv /\ Typed /\ [Next]_vars => Typed'
<1> SUFFICES ASSUME IInv, Typed, [Next]_vars PROVE Typed'
  OBVIOUS
<1>1. ASSUME NEW f \in Files, Start(f)
      PROVE  Typed'
  BY <1>1, ConnectionsAssumption DEF Start, Typed, Walking
<1>2. ASSUME NEW f \in Files, Hup(f)
      PROVE  Typed'
  <2> DEFINE new == Keep(f.servers, Servers \ Range(servers))
  <2>1. new \in Seq(Servers) /\ Keep(servers, Range(f.servers)) \in Seq(Servers)
    BY KeepKeeps, ConnectionsAssumption DEF Typed
  <2>2. servers' = Reverse(new) \o Keep(servers, Range(f.servers))
    BY <1>2 DEF Hup
  <2> HIDE DEF new
  <2>3. Reverse(new) \in Seq(Servers)
    BY <2>1 DEF Reverse
  <2>4. servers' \in Seq(Servers)
    BY <2>1, <2>2, <2>3
  <2> QED BY <2>4, <1>2, ConnectionsAssumption DEF Hup, Typed, Walking
<1>3. CASE Attempt
  BY <1>3 DEF Attempt, Typed, Walking
<1>4. ASSUME NEW passed \in BOOLEAN, NEW interrupted \in BOOLEAN, Poll(passed, interrupted)
      PROVE  Typed'
  BY <1>4 DEF Poll, Typed, Walking
<1>5. CASE Quiet \/ Accept \/ Drop \/ WrongPassword \/ Serve
  <2>1. phase \in {"scan", "rescan", "last"} /\ UNCHANGED <<servers, timeout>>
    BY <1>5 DEF Quiet, Accept, Drop, WrongPassword, Serve, Answered
  <2>2. \E k \in {slot, slot + 1} : GoesOn(k)
    BY <1>5 DEF Quiet, Accept, Drop, WrongPassword, Serve
  <2> QED BY <2>1, <2>2 DEF GoesOn, Typed, Walking
<1>6. CASE Waits \/ AcceptReturns \/ ReadReturns
  BY <1>6 DEF Waits, AcceptReturns, ReadReturns, Typed, Walking
<1>8. CASE SquitOther
  BY <1>8 DEF SquitOther, Answered, Typed, Walking
<1>9. CASE (\E f \in Files : HupOfFreed(f)) \/ Restart
  <2>1. <<>> \in Seq(Servers)
    OBVIOUS
  <2> QED BY <1>9, <2>1 DEF HupOfFreed, Restart, Typed, Walking
<1>7. CASE UNCHANGED vars
  BY <1>7 DEF vars, Typed, Walking
<1> QED BY <1>1, <1>2, <1>3, <1>4, <1>5, <1>6, <1>7, <1>8, <1>9 DEF Next, Loop, Signals

(* poll() is asked for what each connection needs (siconn_printfv,         *)
(* siconn_flush, siconn_poll), whatever is queued, flushed, accepted and   *)
(* closed, also while entries move, for any sockets and configurations.    *)
THEOREM PollsAreSound == Spec => []PollSound
<1>1. IInv /\ Typed => PollSound
  <2> SUFFICES ASSUME IInv, Typed PROVE PollSound
    OBVIOUS
  <2>0. /\ Conns.con = con /\ Conns.pfds = pfds /\ Conns.outgoing = outgoing
        /\ Conns.waiting = waiting /\ Conns.tried = tried
        /\ Shape(Conns) /\ Matched(Conns) /\ CountedIn(Conns) /\ PolledIn(Conns)
    BY DEF IInv, Conns, Sound
  <2>1. Len(pfds) = Cardinality(Open)
    BY <2>0, AsManyEntries DEF Open
  <2>2. /\ pfds \in Seq(Entry) /\ Len(pfds) \in Nat
        /\ \A fd \in Open : /\ con[fd] \in Connection /\ con[fd].pos \in 1 .. Len(pfds)
                             /\ pfds[con[fd].pos].fd = fd
        /\ \A k \in 1 .. Len(pfds) : pfds[k].fd \in Open /\ con[pfds[k].fd].pos = k
    BY <2>0 DEF Matched, Open
  <2>3. Open \subseteq Fds
    <3>1. \A k \in 1 .. Len(pfds) : pfds[k] \in Entry
      BY <2>2
    <3> QED BY <2>2, <3>1 DEF Entry
  <2>4. Cardinality(Open) <= Cardinality(Fds) /\ Cardinality(Fds) \in Nat
    BY <2>3, ConnectionsAssumption, FS_Subset, FS_CardinalityType
  <2> DEFINE Now == [kind : {"listener", "unknown", "server"},
                     flag : {"none", "connecting", "connected"}, pos : 1 .. Cardinality(Fds),
                     idle : 0 .. 2, pinged : BOOLEAN, queued : BOOLEAN]
  <2>5. con \in [Open -> Now]
    <3>1. con = [fd \in Open |-> con[fd]]
      BY <2>0 DEF Matched, Open
    <3>2. ASSUME NEW fd \in Open
          PROVE  con[fd] \in Now
      <4>1. con[fd] \in Connection /\ con[fd].pos \in 1 .. Cardinality(Fds)
        BY <2>1, <2>2, <2>4
      <4> QED BY <4>1 DEF Connection
    <3> HIDE DEF Now
    <3> QED BY <3>1, <3>2
  <2>6. outgoing \in {0, 1} /\ waiting \in BOOLEAN /\ tried \in [Servers -> {"no", "yes", "never"}]
    BY <2>0 DEF CountedIn, Shape
  <2>7. listener \in Fds \cup {NULL, Freed}
    BY <2>0, <2>3 DEF IInv, ListenersIn, Open
  <2>8. slot \in 0 .. Len(pfds)
    BY <2>2 DEF IInv, Typed
  <2>9. TypeOK
    BY <2>2, <2>3, <2>5, <2>6, <2>7, <2>8 DEF TypeOK, Typed, Entry
  <2>10. PolledForWhatItNeeds
    <3> SUFFICES ASSUME NEW k \in DOMAIN pfds
                 PROVE  Asks(pfds[k], con[pfds[k].fd])
      BY DEF PolledForWhatItNeeds, Asks
    <3>1. k \in 1 .. Len(pfds)
      BY <2>2
    <3>2. pfds[k].fd \in Open /\ con[pfds[k].fd].pos = k
      BY <3>1, <2>2
    <3> QED BY <3>2, <2>0 DEF PolledIn, Open
  <2> QED BY <2>9, <2>10 DEF PollSound
<1>2. Init => Typed
  BY DEF Init, Typed, Walking
<1> QED BY <1>1, <1>2, InitIsSound, StepIsSound, StepIsTyped, PTL DEF Spec

-----------------------------------------------------------------------------
(* A function with the equation of FlattenSeq.                             *)
Flattens(m, q, f) ==
  f = [i \in 1 .. m |-> IF i = 1 THEN q[i] ELSE f[i - 1] \o q[i]]

(* There is one, for every sequence of sequences.                          *)
LEMMA FlattenExists ==
  ASSUME NEW S, NEW q \in Seq(S)
  PROVE  \E f : Flattens(Len(q), q, f)
<1> DEFINE n == Len(q)
           A == {m \in Nat : m <= n => \E f : Flattens(m, q, f)}
<1>0. n \in Nat
  BY LenProperties
<1>1. 0 \in A
  <2>1. Flattens(0, q, [i \in 1 .. 0 |-> 0])
    BY DEF Flattens
  <2> QED BY <2>1
<1>2. ASSUME NEW m \in Nat, m \in A PROVE m + 1 \in A
  <2> SUFFICES ASSUME m + 1 <= n
               PROVE  \E f : Flattens(m + 1, q, f)
    OBVIOUS
  <2>1. PICK f : Flattens(m, q, f)
    BY <1>0, <1>2
  <2> DEFINE g == [i \in 1 .. m + 1 |-> IF i = m + 1 THEN IF m = 0 THEN q[i] ELSE f[m] \o q[i] ELSE f[i]]
  <2>2. ASSUME NEW i \in 1 .. m + 1 PROVE g[i] = IF i = 1 THEN q[i] ELSE g[i - 1] \o q[i]
    <3>1. CASE i = m + 1
      <4>1. CASE m = 0
        BY <3>1, <4>1
      <4>2. CASE m # 0
        <5>1. i # 1 /\ i - 1 = m /\ m \in 1 .. m + 1 /\ m # m + 1
          BY <3>1, <4>2
        <5> QED BY <3>1, <4>2, <5>1
      <4> QED BY <4>1, <4>2
    <3>2. CASE i # m + 1
      <4>1. i \in 1 .. m /\ g[i] = f[i]
        BY <3>2
      <4>2. f[i] = IF i = 1 THEN q[i] ELSE f[i - 1] \o q[i]
        BY <2>1, <4>1 DEF Flattens
      <4>3. i # 1 => i - 1 \in 1 .. m + 1 /\ i - 1 # m + 1
        BY <4>1
      <4>4. i # 1 => g[i - 1] = f[i - 1]
        BY <4>3
      <4> QED BY <4>1, <4>2, <4>4
    <3> QED BY <3>1, <3>2
  <2>3. g = [i \in 1 .. m + 1 |-> g[i]]
    OBVIOUS
  <2> HIDE DEF g
  <2>4. Flattens(m + 1, q, g)
    BY <2>2, <2>3 DEF Flattens
  <2> QED BY <2>4
<1> HIDE DEF A
<1>3. Nat \subseteq A
  BY <1>1, <1>2, Induction
<1>4. n \in A
  BY <1>0, <1>3
<1> QED BY <1>0, <1>4 DEF A

(* All functions with that equation have the same values, also those for   *)
(* a longer sequence.                                                      *)
LEMMA FlattenSame ==
  ASSUME NEW q, NEW f, Flattens(Len(q), q, f), NEW p, NEW g, Flattens(Len(p), p, g),
         Len(q) \in Nat, Len(p) \in Nat, Len(q) <= Len(p),
         \A i \in 1 .. Len(q) : p[i] = q[i]
  PROVE  \A i \in 1 .. Len(q) : f[i] = g[i]
<1> DEFINE n == Len(q)
           A == {m \in Nat : m \in 1 .. n => f[m] = g[m]}
<1>0. /\ \A i \in 1 .. n : f[i] = IF i = 1 THEN q[i] ELSE f[i - 1] \o q[i]
      /\ \A i \in 1 .. Len(p) : g[i] = IF i = 1 THEN p[i] ELSE g[i - 1] \o p[i]
  BY DEF Flattens
<1>1. 0 \in A
  OBVIOUS
<1>2. ASSUME NEW m \in Nat, m \in A PROVE m + 1 \in A
  <2> SUFFICES ASSUME m + 1 \in 1 .. n PROVE f[m + 1] = g[m + 1]
    OBVIOUS
  <2>1. m + 1 \in 1 .. Len(p) /\ (m + 1) - 1 = m /\ p[m + 1] = q[m + 1]
    OBVIOUS
  <2>2. CASE m = 0
    BY <1>0, <2>1, <2>2
  <2>3. CASE m # 0
    <3>1. m \in 1 .. n /\ m + 1 # 1
      BY <2>3
    <3>2. f[m] = g[m]
      BY <1>2, <3>1
    <3> QED BY <1>0, <2>1, <3>1, <3>2
  <2> QED BY <2>2, <2>3
<1> HIDE DEF A
<1>3. Nat \subseteq A
  BY <1>1, <1>2, Induction
<1>4. \A m \in Nat : m \in A
  BY <1>3
<1> QED BY <1>4 DEF A

(* What FlattenSeq makes of a sequence that grows at its end.              *)
LEMMA FlattenGrows ==
  ASSUME NEW S, NEW q \in Seq(Seq(S)), NEW s \in Seq(S)
  PROVE  FlattenSeq(Append(q, s)) = IF q = <<>> THEN s ELSE FlattenSeq(q) \o s
<1> DEFINE n == Len(q)
           p == Append(q, s)
           f == CHOOSE h : Flattens(n, q, h)
           g == CHOOSE h : Flattens(Len(p), p, h)
<1>0. n \in Nat /\ p \in Seq(Seq(S)) /\ Len(p) = n + 1 /\ p[n + 1] = s /\ \A i \in 1 .. n : p[i] = q[i]
  BY LenProperties, AppendProperties
<1>1. Flattens(n, q, f) /\ Flattens(Len(p), p, g)
  <2> HIDE DEF p
  <2> QED BY <1>0, FlattenExists
<1>2. FlattenSeq(p) = g[n + 1]
  <2>1. FlattenSeq(p) = g[Len(p)]
    <3> HIDE DEF p
    <3>1. Len(p) # 0
      BY <1>0
    <3> QED BY <3>1 DEF FlattenSeq, Flattens
  <2> QED BY <1>0, <2>1
<1>3. n # 0 => FlattenSeq(q) = f[n]
  BY DEF FlattenSeq, Flattens
<1> HIDE DEF f, g, p
<1>4. \A i \in 1 .. Len(p) : g[i] = IF i = 1 THEN p[i] ELSE g[i - 1] \o p[i]
  BY <1>1 DEF Flattens
<1>5. g[n + 1] = IF n = 0 THEN s ELSE g[n] \o s
  <2>1. n + 1 \in 1 .. Len(p) /\ (n + 1) - 1 = n /\ (n + 1 = 1 <=> n = 0)
    BY <1>0
  <2> QED BY <1>0, <1>4, <2>1
<1>6. q = <<>> <=> n = 0
  BY EmptySeq
<1>7. n # 0 => f[n] = g[n]
  <2>1. Len(q) <= Len(p) /\ Len(p) \in Nat /\ Len(q) \in Nat
    BY <1>0
  <2>3. Flattens(Len(q), q, f) /\ Flattens(Len(p), p, g)
    BY <1>1
  <2>4. \A i \in 1 .. Len(q) : p[i] = q[i]
    BY <1>0
  <2>2. \A i \in 1 .. Len(q) : f[i] = g[i]
    BY <2>1, <2>3, <2>4, FlattenSame
  <2> QED BY <1>0, <2>2
<1> QED BY <1>2, <1>3, <1>5, <1>6, <1>7 DEF p

(* FlattenSeq, by what it does with one sequence more.                     *)
LEMMA FlattenSeqs ==
  ASSUME NEW S
  PROVE  /\ FlattenSeq(<<>>) = <<>>
         /\ \A q \in Seq(Seq(S)) : FlattenSeq(q) \in Seq(S)
         /\ \A q \in Seq(Seq(S)), s \in Seq(S) : FlattenSeq(Append(q, s)) = FlattenSeq(q) \o s
<1> DEFINE A == {n \in Nat : \A q \in Seq(Seq(S)) : Len(q) = n => FlattenSeq(q) \in Seq(S)}
<1>1. FlattenSeq(<<>>) = <<>>
  BY DEF FlattenSeq
<1>2. ASSUME NEW q \in Seq(Seq(S)), NEW s \in Seq(S)
      PROVE  FlattenSeq(Append(q, s)) = FlattenSeq(q) \o s
  <2>1. CASE q = <<>>
    <3>1. FlattenSeq(Append(q, s)) = s /\ FlattenSeq(q) = <<>>
      BY <1>1, <2>1, FlattenGrows
    <3>2. <<>> \o s = s
      BY ConcatEmptySeq
    <3> QED BY <3>1, <3>2
  <2>2. CASE q # <<>>
    BY <2>2, FlattenGrows
  <2> QED BY <2>1, <2>2
<1>3. 0 \in A
  <2>1. \A q \in Seq(Seq(S)) : Len(q) = 0 => q = <<>>
    BY EmptySeq
  <2> QED BY <1>1, <2>1
<1>4. ASSUME NEW n \in Nat, n \in A PROVE n + 1 \in A
  <2> SUFFICES ASSUME NEW q \in Seq(Seq(S)), Len(q) = n + 1 PROVE FlattenSeq(q) \in Seq(S)
    OBVIOUS
  <2>1. q # <<>>
    BY EmptySeq
  <2>2. PICK p \in Seq(Seq(S)), s \in Seq(S) : q = Append(p, s)
    BY <2>1, SequenceEmptyOrAppend
  <2>3. Len(p) \in Nat /\ Len(q) = Len(p) + 1
    BY <2>2, AppendProperties, LenProperties
  <2>4. FlattenSeq(p) \in Seq(S)
    BY <1>4, <2>3
  <2> QED BY <1>2, <2>2, <2>4, ConcatProperties
<1> HIDE DEF A
<1>5. Nat \subseteq A
  BY <1>3, <1>4, Induction
<1>6. \A q \in Seq(Seq(S)) : FlattenSeq(q) \in Seq(S)
  <2> SUFFICES ASSUME NEW q \in Seq(Seq(S)) PROVE FlattenSeq(q) \in Seq(S)
    OBVIOUS
  <2>1. Len(q) \in Nat /\ Len(q) \in A
    BY <1>5, LenProperties
  <2> QED BY <2>1 DEF A
<1> QED BY <1>1, <1>2, <1>6

BlockRecs == [buf : Seq(Bytes), gone : 0 .. BlockSize]

(* What waits in a block, and how it grows.                                *)
LEMMA WaitingIs ==
  ASSUME NEW b \in BlockRecs
  PROVE  /\ Waiting(b) \in Seq(Bytes)
         /\ b.gone <= Len(b.buf) => Len(Waiting(b)) = Len(b.buf) - b.gone
         /\ \A i \in 1 .. Len(b.buf) - b.gone : Waiting(b)[i] = b.buf[b.gone + i]
<1> DEFINE n == Len(b.buf)
           g == b.gone
<1>0. b.buf \in Seq(Bytes) /\ n \in Nat /\ g \in Nat /\ \A i \in 1 .. n : b.buf[i] \in Bytes
  <2>1. b.buf \in Seq(Bytes) /\ g \in 0 .. BlockSize
    BY DEF BlockRecs
  <2>2. g \in Nat
    BY <2>1, OutQueueAssumption
  <2> QED BY <2>1, <2>2, LenProperties, ElementOfSeq
<1> HIDE DEF n, g
<1>1. \A i \in g + 1 .. n : b.buf[i] \in Bytes
  BY <1>0
<1>2. /\ SubSeq(b.buf, g + 1, n) \in Seq(Bytes)
      /\ Len(SubSeq(b.buf, g + 1, n)) = IF g + 1 <= n THEN n - (g + 1) + 1 ELSE 0
      /\ \A i \in 1 .. n - (g + 1) + 1 : SubSeq(b.buf, g + 1, n)[i] = b.buf[(g + 1) + i - 1]
  <2>1. g + 1 \in Int /\ n \in Int
    BY <1>0
  <2> QED BY <1>1, <2>1, SubSeqProperties
<1>3. Waiting(b) = SubSeq(b.buf, g + 1, n)
  BY DEF Waiting, g, n
<1>4. g <= n => Len(Waiting(b)) = n - g
  BY <1>0, <1>2, <1>3
<1>5. \A i \in 1 .. n - g : i \in 1 .. n - (g + 1) + 1 /\ (g + 1) + i - 1 = g + i
  BY <1>0
<1> QED BY <1>2, <1>3, <1>4, <1>5 DEF n, g

(* Bytes put at the end of a block wait behind those that wait in it.      *)
LEMMA WaitingGrows ==
  ASSUME NEW b \in BlockRecs, b.gone <= Len(b.buf), NEW s \in Seq(Bytes), NEW c \in BlockRecs,
         c.buf = b.buf \o s, c.gone = b.gone
  PROVE  Waiting(c) = Waiting(b) \o s
<1> DEFINE n == Len(b.buf)
           g == b.gone
           m == Len(s)
           v == Waiting(b) \o s
           w == Waiting(c)
<1>0. b.buf \in Seq(Bytes) /\ n \in Nat /\ g \in Nat /\ m \in Nat /\ g <= n
  <2>1. b.buf \in Seq(Bytes) /\ g \in 0 .. BlockSize
    BY DEF BlockRecs
  <2>2. g \in Nat
    BY <2>1, OutQueueAssumption
  <2> QED BY <2>1, <2>2, LenProperties
<1>1. /\ Len(c.buf) = n + m
      /\ \A i \in 1 .. n + m : c.buf[i] = IF i <= n THEN b.buf[i] ELSE s[i - n]
  BY <1>0, ConcatProperties
<1>2. /\ Waiting(b) \in Seq(Bytes) /\ Len(Waiting(b)) = n - g
      /\ \A i \in 1 .. n - g : Waiting(b)[i] = b.buf[g + i]
  BY <1>0, WaitingIs
<1>3. /\ w \in Seq(Bytes) /\ (g <= n + m => Len(w) = n + m - g)
      /\ \A i \in 1 .. n + m - g : w[i] = c.buf[g + i]
  <2> HIDE DEF n, m, g
  <2>1. c.gone = g /\ Len(c.buf) = n + m
    BY <1>1 DEF g
  <2>2. /\ w \in Seq(Bytes) /\ (c.gone <= Len(c.buf) => Len(w) = Len(c.buf) - c.gone)
        /\ \A i \in 1 .. Len(c.buf) - c.gone : w[i] = c.buf[c.gone + i]
    BY WaitingIs
  <2> HIDE DEF w
  <2> DEFINE B == c.buf
             G == c.gone
  <2>3. /\ w \in Seq(Bytes) /\ (G <= Len(B) => Len(w) = Len(B) - G)
        /\ \A i \in 1 .. Len(B) - G : w[i] = B[G + i]
    BY <2>2
  <2>4. G = g /\ Len(B) = n + m
    BY <2>1
  <2> HIDE DEF B, G
  <2>5. /\ w \in Seq(Bytes) /\ (g <= n + m => Len(w) = n + m - g)
        /\ \A i \in 1 .. n + m - g : w[i] = B[g + i]
    BY <1>0, <2>3, <2>4
  <2> QED BY <2>5 DEF B
<1>4. /\ v \in Seq(Bytes) /\ Len(v) = (n - g) + m
      /\ \A i \in 1 .. (n - g) + m : v[i] = IF i <= n - g THEN Waiting(b)[i] ELSE s[i - (n - g)]
  <2> DEFINE x == Waiting(b)
  <2>1. x \in Seq(Bytes) /\ Len(x) = n - g
    BY <1>2
  <2> HIDE DEF x
  <2>2. /\ x \o s \in Seq(Bytes) /\ Len(x \o s) = Len(x) + Len(s)
        /\ \A i \in 1 .. Len(x) + Len(s) : (x \o s)[i] = IF i <= Len(x) THEN x[i] ELSE s[i - Len(x)]
    BY <2>1, ConcatProperties
  <2>3. v = x \o s
    BY DEF x
  <2> HIDE DEF v, n, g
  <2>4. /\ v \in Seq(Bytes) /\ Len(v) = (n - g) + m
        /\ \A i \in 1 .. (n - g) + m : v[i] = IF i <= n - g THEN x[i] ELSE s[i - (n - g)]
    BY <2>1, <2>2, <2>3
  <2> QED BY <2>4 DEF x
<1> HIDE DEF n, g, m, v, w
<1>5. Len(w) = Len(v) /\ Len(v) = n + m - g
  BY <1>0, <1>3, <1>4
<1>6. ASSUME NEW i \in 1 .. Len(w) PROVE w[i] = v[i]
  <2>1. i \in 1 .. n + m - g /\ i \in 1 .. (n - g) + m /\ g + i \in 1 .. n + m
    BY <1>0, <1>5
  <2>2. w[i] = IF g + i <= n THEN b.buf[g + i] ELSE s[(g + i) - n]
    BY <1>1, <1>3, <2>1
  <2>3. CASE i <= n - g
    <3>1. g + i <= n /\ i \in 1 .. n - g
      BY <1>0, <2>1, <2>3
    <3> QED BY <1>2, <1>4, <2>1, <2>2, <2>3, <3>1
  <2>4. CASE ~ (i <= n - g)
    <3>1. ~ (g + i <= n) /\ (g + i) - n = i - (n - g)
      BY <1>0, <2>1, <2>4
    <3> QED BY <1>4, <2>1, <2>2, <2>4, <3>1
  <2> QED BY <2>3, <2>4
<1>7. w = v
  BY <1>3, <1>4, <1>5, <1>6, SeqEqual
<1> QED BY <1>7 DEF v, w

(* What waits in a queue of blocks.                                        *)
LEMMA HeldGrows ==
  ASSUME NEW q \in Seq(BlockRecs)
  PROVE  /\ HeldIn(q) \in Seq(Bytes) /\ HeldIn(<<>>) = <<>>
         /\ \A b \in BlockRecs : HeldIn(Append(q, b)) = HeldIn(q) \o Waiting(b)
<1> DEFINE W(p) == [k \in DOMAIN p |-> Waiting(p[k])]
<1>1. ASSUME NEW p \in Seq(BlockRecs)
      PROVE  W(p) \in Seq(Seq(Bytes)) /\ Len(W(p)) = Len(p)
  <2>1. Len(p) \in Nat /\ DOMAIN p = 1 .. Len(p) /\ \A k \in 1 .. Len(p) : p[k] \in BlockRecs
    BY LenProperties, ElementOfSeq
  <2>2. \A k \in 1 .. Len(p) : Waiting(p[k]) \in Seq(Bytes)
    BY <2>1, WaitingIs
  <2>3. W(p) \in [1 .. Len(p) -> Seq(Bytes)]
    BY <2>1, <2>2
  <2> HIDE DEF W
  <2> QED BY <2>1, <2>3, SeqDef, LenProperties
<1>2. HeldIn(q) \in Seq(Bytes)
  <2>1. HeldIn(q) = FlattenSeq(W(q))
    BY DEF HeldIn
  <2> HIDE DEF W
  <2> QED BY <1>1, <2>1, FlattenSeqs
<1>3. HeldIn(<<>>) = <<>>
  <2>1. W(<<>>) = <<>>
    OBVIOUS
  <2>2. HeldIn(<<>>) = FlattenSeq(W(<<>>))
    BY DEF HeldIn
  <2> HIDE DEF W
  <2> QED BY <2>1, <2>2, FlattenSeqs
<1>4. ASSUME NEW b \in BlockRecs PROVE HeldIn(Append(q, b)) = HeldIn(q) \o Waiting(b)
  <2> DEFINE p == Append(q, b)
             n == Len(q)
             v == W(p)
             w == Append(W(q), Waiting(b))
  <2>1. n \in Nat /\ p \in Seq(BlockRecs) /\ Len(p) = n + 1 /\ p[n + 1] = b /\ \A k \in 1 .. n : p[k] = q[k]
    BY LenProperties, AppendProperties
  <2>2. W(q) \in Seq(Seq(Bytes)) /\ Len(W(q)) = n /\ v \in Seq(Seq(Bytes)) /\ Len(v) = n + 1
    <3> HIDE DEF W, p
    <3> QED BY <1>1, <2>1
  <2>3. Waiting(b) \in Seq(Bytes)
    BY WaitingIs
  <2>4. w \in Seq(Seq(Bytes)) /\ Len(w) = n + 1 /\ w[n + 1] = Waiting(b) /\ \A k \in 1 .. n : w[k] = W(q)[k]
    <3> HIDE DEF W
    <3> QED BY <2>2, <2>3, AppendProperties
  <2>5. DOMAIN q = 1 .. n /\ DOMAIN p = 1 .. n + 1
    <3> HIDE DEF p
    <3> QED BY <2>1, LenProperties
  <2>6. \A k \in 1 .. n : W(q)[k] = Waiting(q[k])
    BY <2>5
  <2>7. \A k \in 1 .. n + 1 : v[k] = Waiting(p[k])
    <3> HIDE DEF p
    <3> QED BY <2>5
  <2> HIDE DEF v, w, W, p
  <2>8. \A k \in 1 .. n + 1 : v[k] = w[k]
    <3> SUFFICES ASSUME NEW k \in 1 .. n + 1 PROVE v[k] = w[k]
      OBVIOUS
    <3>1. CASE k = n + 1
      BY <2>1, <2>4, <2>7, <3>1
    <3>2. CASE k # n + 1
      <4>1. k \in 1 .. n
        BY <2>1, <3>2
      <4> QED BY <2>1, <2>4, <2>6, <2>7, <4>1
    <3> QED BY <3>1, <3>2
  <2>9. v = w
    BY <2>2, <2>4, <2>8, SeqEqual
  <2>10. HeldIn(p) = FlattenSeq(v) /\ HeldIn(q) = FlattenSeq(W(q))
    BY DEF HeldIn, v, W
  <2>11. FlattenSeq(w) = FlattenSeq(W(q)) \o Waiting(b)
    BY <2>2, <2>3, FlattenSeqs DEF w
  <2> QED BY <2>9, <2>10, <2>11 DEF p
<1> QED BY <1>2, <1>3, <1>4

(* What waits in two queues, one behind the other.                         *)
LEMMA HeldConcat ==
  ASSUME NEW p \in Seq(BlockRecs), NEW q \in Seq(BlockRecs)
  PROVE  HeldIn(p \o q) = HeldIn(p) \o HeldIn(q)
<1> DEFINE A == {n \in Nat : \A r \in Seq(BlockRecs) :
                    Len(r) = n => HeldIn(p \o r) = HeldIn(p) \o HeldIn(r)}
<1>1. 0 \in A
  <2> SUFFICES ASSUME NEW r \in Seq(BlockRecs), Len(r) = 0
               PROVE  HeldIn(p \o r) = HeldIn(p) \o HeldIn(r)
    OBVIOUS
  <2>1. r = <<>>
    BY EmptySeq
  <2>2. p \o <<>> = p
    BY ConcatEmptySeq
  <2>3. HeldIn(<<>>) = <<>> /\ HeldIn(p) \in Seq(Bytes)
    BY HeldGrows
  <2>4. HeldIn(p) \o <<>> = HeldIn(p)
    BY <2>3, ConcatEmptySeq
  <2> QED BY <2>1, <2>2, <2>3, <2>4
<1>2. ASSUME NEW n \in Nat, n \in A PROVE n + 1 \in A
  <2> SUFFICES ASSUME NEW r \in Seq(BlockRecs), Len(r) = n + 1
               PROVE  HeldIn(p \o r) = HeldIn(p) \o HeldIn(r)
    OBVIOUS
  <2>1. r # <<>>
    BY EmptySeq
  <2>2. PICK t \in Seq(BlockRecs), b \in BlockRecs : r = Append(t, b)
    BY <2>1, SequenceEmptyOrAppend
  <2>3. Len(t) = n
    <3>1. Len(t) \in Nat /\ Len(r) = Len(t) + 1
      BY <2>2, AppendProperties, LenProperties
    <3> QED BY <3>1
  <2>4. HeldIn(p \o t) = HeldIn(p) \o HeldIn(t)
    BY <1>2, <2>3
  <2>5. p \o r = Append(p \o t, b) /\ p \o t \in Seq(BlockRecs)
    <3>1. Append(t, b) = t \o <<b>> /\ <<b>> \in Seq(BlockRecs)
      BY AppendIsConcat
    <3>2. p \o t \in Seq(BlockRecs)
      BY ConcatProperties
    <3>3. Append(p \o t, b) = (p \o t) \o <<b>>
      BY <3>2, AppendIsConcat
    <3>4. (p \o t) \o <<b>> = p \o (t \o <<b>>)
      BY <3>1, ConcatAssociative
    <3> QED BY <2>2, <3>1, <3>2, <3>3, <3>4
  <2>6. HeldIn(p \o r) = HeldIn(p \o t) \o Waiting(b)
    BY <2>5, HeldGrows
  <2>7. HeldIn(r) = HeldIn(t) \o Waiting(b)
    BY <2>2, HeldGrows
  <2>8. (HeldIn(p) \o HeldIn(t)) \o Waiting(b) = HeldIn(p) \o (HeldIn(t) \o Waiting(b))
    <3>1. HeldIn(p) \in Seq(Bytes)
      BY HeldGrows
    <3>2. HeldIn(t) \in Seq(Bytes)
      BY HeldGrows
    <3>3. Waiting(b) \in Seq(Bytes)
      BY WaitingIs
    <3> DEFINE x == HeldIn(p)
               y == HeldIn(t)
               z == Waiting(b)
    <3>4. x \in Seq(Bytes) /\ y \in Seq(Bytes) /\ z \in Seq(Bytes)
      BY <3>1, <3>2, <3>3
    <3> HIDE DEF x, y, z
    <3>5. (x \o y) \o z = x \o (y \o z)
      BY <3>4, ConcatAssociative
    <3> QED BY <3>5 DEF x, y, z
  <2> QED BY <2>4, <2>6, <2>7, <2>8
<1> HIDE DEF A
<1>3. Nat \subseteq A
  BY <1>1, <1>2, Induction
<1>4. Len(q) \in A
  BY <1>3, LenProperties
<1> QED BY <1>4 DEF A

(* A queue and what waits in it, before, in and after the block at k.      *)
LEMMA HeldSplit ==
  ASSUME NEW q \in Seq(BlockRecs), NEW k \in 1 .. Len(q)
  PROVE  LET p == SubSeq(q, 1, k - 1)
             r == SubSeq(q, k + 1, Len(q))
         IN  /\ p \in Seq(BlockRecs) /\ r \in Seq(BlockRecs) /\ <<q[k]>> \in Seq(BlockRecs)
             /\ q = p \o (<<q[k]>> \o r)
             /\ SubSeq(q, 1, k) = p \o <<q[k]>>
             /\ HeldIn(<<q[k]>>) = Waiting(q[k])
             /\ HeldIn(q) = HeldIn(p) \o (Waiting(q[k]) \o HeldIn(r))
             /\ HeldIn(SubSeq(q, 1, k)) = HeldIn(p) \o Waiting(q[k])
<1> DEFINE n == Len(q)
           p == SubSeq(q, 1, k - 1)
           r == SubSeq(q, k + 1, n)
           o == <<q[k]>>
<1>0. n \in Nat /\ \A i \in 1 .. n : q[i] \in BlockRecs
  BY LenProperties, ElementOfSeq
<1>1. p \in Seq(BlockRecs) /\ r \in Seq(BlockRecs) /\ o \in Seq(BlockRecs)
  <2>1. \A i \in 1 .. k - 1 : q[i] \in BlockRecs
    BY <1>0
  <2>2. \A i \in k + 1 .. n : q[i] \in BlockRecs
    BY <1>0
  <2>3. k - 1 \in Int /\ k + 1 \in Int /\ n \in Int /\ 1 \in Int
    BY <1>0
  <2>4. q[k] \in BlockRecs
    BY <1>0
  <2> HIDE DEF n
  <2>5. p \in Seq(BlockRecs)
    BY <2>1, <2>3, SubSeqProperties
  <2>6. r \in Seq(BlockRecs)
    BY <2>2, <2>3, SubSeqProperties
  <2> QED BY <2>4, <2>5, <2>6
<1>2. q = p \o SubSeq(q, k, n)
  <2>1. 1 \in 1 .. Len(q) + 1 /\ k - 1 \in 1 - 1 .. Len(q) /\ Len(q) \in k - 1 .. Len(q) /\ (k - 1) + 1 = k
    BY <1>0
  <2>2. SubSeq(q, 1, k - 1) \o SubSeq(q, (k - 1) + 1, Len(q)) = SubSeq(q, 1, Len(q))
    BY <2>1, ConcatAdjacentSubSeq
  <2>3. SubSeq(q, 1, Len(q)) = q
    BY SubSeqFull
  <2> QED BY <2>1, <2>2, <2>3
<1>3. SubSeq(q, k, n) = o \o r
  <2>1. Len(q) \in k .. Len(q)
    BY <1>0
  <2> QED BY <2>1, SubSeqRecursiveFirst
<1>4. SubSeq(q, 1, k) = p \o o
  <2>1. 1 \in 1 .. Len(q) /\ k \in 1 .. Len(q)
    BY <1>0
  <2> QED BY <2>1, SubSeqRecursiveSecond
<1> HIDE DEF p, r, o
<1>5. HeldIn(o) = Waiting(q[k])
  <2>1. o = Append(<<>>, q[k]) /\ <<>> \in Seq(BlockRecs) /\ q[k] \in BlockRecs
    BY <1>0 DEF o
  <2>2. HeldIn(o) = HeldIn(<<>>) \o Waiting(q[k])
    BY <2>1, HeldGrows
  <2>3. HeldIn(<<>>) = <<>>
    BY <2>1, HeldGrows
  <2>4. Waiting(q[k]) \in Seq(Bytes)
    BY <2>1, WaitingIs
  <2> QED BY <2>2, <2>3, <2>4, ConcatEmptySeq
<1>6. HeldIn(q) = HeldIn(p) \o (Waiting(q[k]) \o HeldIn(r))
  <2>1. o \o r \in Seq(BlockRecs)
    BY <1>1, ConcatProperties
  <2>2. HeldIn(p \o (o \o r)) = HeldIn(p) \o HeldIn(o \o r)
    BY <1>1, <2>1, HeldConcat
  <2>3. HeldIn(o \o r) = HeldIn(o) \o HeldIn(r)
    BY <1>1, HeldConcat
  <2> QED BY <1>2, <1>3, <1>5, <2>2, <2>3
<1>7. HeldIn(SubSeq(q, 1, k)) = HeldIn(p) \o Waiting(q[k])
  BY <1>1, <1>4, <1>5, HeldConcat
<1> QED BY <1>1, <1>2, <1>3, <1>4, <1>5, <1>6, <1>7 DEF p, r, o

(* A block that holds something, and one that siqueue_add may fill.        *)
HoldsSome(b) == Len(b.buf) <= BlockSize /\ b.gone < Len(b.buf)

SoundBlock(b) == HoldsSome(b) \/ (b.buf = <<>> /\ b.gone = 0)

(* Only the last block may be empty, and then it is to be filled anew.     *)
SoundBlocks(q) ==
  /\ q \in Seq(BlockRecs)
  /\ \A k \in 1 .. Len(q) : SoundBlock(q[k]) /\ (k < Len(q) => HoldsSome(q[k]))

(* Such a queue is one of blocks that all hold something, and a last one.  *)
LEMMA LastBlock ==
  /\ \A q : SoundBlocks(q) /\ q # <<>> =>
       \E p \in Seq(BlockRecs), b \in BlockRecs :
         q = Append(p, b) /\ SoundBlock(b) /\ \A k \in 1 .. Len(p) : HoldsSome(p[k])
  /\ \A p \in Seq(BlockRecs), b \in BlockRecs :
       SoundBlock(b) /\ (\A k \in 1 .. Len(p) : HoldsSome(p[k])) => SoundBlocks(Append(p, b))
<1>1. ASSUME NEW q, SoundBlocks(q), q # <<>>
      PROVE  \E p \in Seq(BlockRecs), b \in BlockRecs :
               q = Append(p, b) /\ SoundBlock(b) /\ \A k \in 1 .. Len(p) : HoldsSome(p[k])
  <2>1. q \in Seq(BlockRecs)
    BY <1>1 DEF SoundBlocks
  <2>2. PICK p \in Seq(BlockRecs), b \in BlockRecs : q = Append(p, b)
    BY <1>1, <2>1, SequenceEmptyOrAppend
  <2>3. /\ Len(p) \in Nat /\ Len(q) = Len(p) + 1 /\ q[Len(p) + 1] = b
        /\ \A k \in 1 .. Len(p) : q[k] = p[k]
    BY <2>2, AppendProperties, LenProperties
  <2>4. \A k \in 1 .. Len(q) : SoundBlock(q[k]) /\ (k < Len(q) => HoldsSome(q[k]))
    BY <1>1 DEF SoundBlocks
  <2>5. SoundBlock(b)
    BY <2>3, <2>4
  <2>6. \A k \in 1 .. Len(p) : HoldsSome(p[k])
    BY <2>3, <2>4
  <2> QED BY <2>2, <2>5, <2>6
<1>2. ASSUME NEW p \in Seq(BlockRecs), NEW b \in BlockRecs, SoundBlock(b),
             \A k \in 1 .. Len(p) : HoldsSome(p[k])
      PROVE  SoundBlocks(Append(p, b))
  <2> DEFINE q == Append(p, b)
  <2>1. /\ q \in Seq(BlockRecs) /\ Len(p) \in Nat /\ Len(q) = Len(p) + 1
        /\ q[Len(p) + 1] = b /\ \A k \in 1 .. Len(p) : q[k] = p[k]
    BY AppendProperties, LenProperties
  <2> HIDE DEF q
  <2>2. ASSUME NEW k \in 1 .. Len(q)
        PROVE  SoundBlock(q[k]) /\ (k < Len(q) => HoldsSome(q[k]))
    <3>1. CASE k = Len(p) + 1
      BY <1>2, <2>1, <3>1
    <3>2. CASE k # Len(p) + 1
      <4>1. k \in 1 .. Len(p)
        BY <2>1, <3>2
      <4>2. HoldsSome(q[k])
        BY <1>2, <2>1, <4>1
      <4> QED BY <4>2 DEF SoundBlock
    <3> QED BY <3>1, <3>2
  <2> QED BY <2>1, <2>2 DEF SoundBlocks, q
<1> QED BY <1>1, <1>2

(* siqueue_add puts bytes at the end of the last block.                    *)
LEMMA PutIs ==
  ASSUME NEW p \in Seq(BlockRecs), NEW b \in BlockRecs, SoundBlock(b),
         \A k \in 1 .. Len(p) : HoldsSome(p[k]),
         NEW s \in Seq(Bytes), Len(b.buf) + Len(s) <= BlockSize, s # <<>> \/ HoldsSome(b)
  PROVE  \E c \in BlockRecs : /\ Put(Append(p, b), s) = Append(p, c) /\ HoldsSome(c)
                              /\ SoundBlocks(Append(p, c))
                              /\ HeldIn(Append(p, c)) = HeldIn(Append(p, b)) \o s
<1> DEFINE q == Append(p, b)
           c == [buf |-> b.buf \o s, gone |-> b.gone]
<1>1. b.buf \in Seq(Bytes) /\ b.gone \in 0 .. BlockSize /\ Len(s) \in Nat /\ Len(b.buf) \in Nat
  <2>1. b.buf \in Seq(Bytes) /\ b.gone \in 0 .. BlockSize
    BY DEF BlockRecs
  <2> QED BY <2>1, LenProperties
<1>2. c \in BlockRecs /\ c.buf = b.buf \o s /\ c.gone = b.gone /\ Len(c.buf) = Len(b.buf) + Len(s)
  <2>1. b.buf \o s \in Seq(Bytes) /\ Len(b.buf \o s) = Len(b.buf) + Len(s)
    BY <1>1, ConcatProperties
  <2> QED BY <1>1, <2>1 DEF BlockRecs
<1>3. [b EXCEPT !.buf = @ \o s] = c
  <2>1. b = [buf |-> b.buf, gone |-> b.gone]
    BY DEF BlockRecs
  <2> DEFINE x == b.buf
             y == b.gone
             z == b.buf \o s
  <2>2. [b EXCEPT !.buf = @ \o s] = [b EXCEPT !.buf = z]
    OBVIOUS
  <2>3. b = [buf |-> x, gone |-> y] /\ c = [buf |-> z, gone |-> y]
    BY <2>1
  <2> HIDE DEF x, y, z, c
  <2>4. [[buf |-> x, gone |-> y] EXCEPT !.buf = z] = [buf |-> z, gone |-> y]
    OBVIOUS
  <2> QED BY <2>2, <2>3, <2>4
<1>4. /\ q \in Seq(BlockRecs) /\ Len(p) \in Nat /\ Len(q) = Len(p) + 1
      /\ q[Len(p) + 1] = b /\ \A k \in 1 .. Len(p) : q[k] = p[k]
  BY AppendProperties, LenProperties
<1>5. HoldsSome(c)
  <2>1. s # <<>> => Len(s) >= 1
    BY <1>1, EmptySeq
  <2>2. b.gone <= Len(b.buf)
    <3>1. CASE HoldsSome(b)
      BY <1>1, <3>1 DEF HoldsSome
    <3>2. CASE b.buf = <<>> /\ b.gone = 0
      BY <1>1, <3>2
    <3> QED BY <3>1, <3>2 DEF SoundBlock
  <2>3. HoldsSome(b) => b.gone < Len(b.buf)
    BY DEF HoldsSome
  <2>4. b.gone < Len(b.buf) + Len(s)
    <3> HIDE DEF c
    <3> QED BY <1>1, <2>1, <2>2, <2>3
  <2> HIDE DEF c
  <2> QED BY <1>1, <1>2, <2>4 DEF HoldsSome
<1>6. b.gone <= Len(b.buf)
  <2>1. CASE HoldsSome(b)
    BY <1>1, <2>1 DEF HoldsSome
  <2>2. CASE b.buf = <<>> /\ b.gone = 0
    BY <1>1, <2>2
  <2> QED BY <2>1, <2>2 DEF SoundBlock
<1>7. Put(q, s) = [q EXCEPT ![Len(p) + 1] = c]
  <2> HIDE DEF q, c
  <2> QED BY <1>3, <1>4 DEF Put
<1> HIDE DEF c
<1>8. Put(q, s) = Append(p, c)
  <2> DEFINE v == [q EXCEPT ![Len(p) + 1] = c]
             w == Append(p, c)
  <2>1. /\ w \in Seq(BlockRecs) /\ Len(w) = Len(p) + 1 /\ w[Len(p) + 1] = c
        /\ \A k \in 1 .. Len(p) : w[k] = p[k]
    BY <1>2, AppendProperties
  <2>2. v \in Seq(BlockRecs) /\ Len(v) = Len(p) + 1
    <3> HIDE DEF q
    <3>1. Len(p) + 1 \in 1 .. Len(q)
      BY <1>4
    <3> QED BY <1>2, <1>4, <3>1, ExceptSeq
  <2>3. \A k \in 1 .. Len(p) + 1 : v[k] = IF k = Len(p) + 1 THEN c ELSE q[k]
    <3> HIDE DEF q
    <3>1. DOMAIN q = 1 .. Len(p) + 1
      BY <1>4, LenProperties
    <3> QED BY <3>1
  <2> HIDE DEF v, w, q
  <2>4. \A k \in 1 .. Len(p) + 1 : v[k] = w[k]
    <3> SUFFICES ASSUME NEW k \in 1 .. Len(p) + 1 PROVE v[k] = w[k]
      OBVIOUS
    <3>1. k # Len(p) + 1 => k \in 1 .. Len(p)
      BY <1>4
    <3> QED BY <1>4, <2>1, <2>3, <3>1
  <2>5. v = w
    BY <2>1, <2>2, <2>4, SeqEqual
  <2> QED BY <1>7, <2>5 DEF v, w
<1>9. HeldIn(Append(p, c)) = HeldIn(q) \o s
  <2>1. Waiting(c) = Waiting(b) \o s
    BY <1>2, <1>6, WaitingGrows
  <2>2. HeldIn(Append(p, c)) = HeldIn(p) \o Waiting(c) /\ HeldIn(q) = HeldIn(p) \o Waiting(b)
    BY <1>2, HeldGrows
  <2> DEFINE x == HeldIn(p)
             y == Waiting(b)
  <2>3. x \in Seq(Bytes) /\ y \in Seq(Bytes)
    <3>1. x \in Seq(Bytes)
      BY HeldGrows
    <3>2. y \in Seq(Bytes)
      BY WaitingIs
    <3> QED BY <3>1, <3>2
  <2> HIDE DEF x, y
  <2>4. (x \o y) \o s = x \o (y \o s)
    BY <2>3, ConcatAssociative
  <2> QED BY <2>1, <2>2, <2>4 DEF x, y
<1>10. SoundBlocks(Append(p, c))
  BY <1>2, <1>5, LastBlock DEF SoundBlock
<1> QED BY <1>2, <1>5, <1>8, <1>9, <1>10

(* A fresh block, and a queue of no blocks, hold nothing.                  *)
LEMMA FreshHolds ==
  /\ Fresh \in BlockRecs /\ SoundBlock(Fresh)
  /\ SoundBlocks(<<Fresh>>) /\ HeldIn(<<Fresh>>) = <<>>
  /\ SoundBlocks(<<>>) /\ HeldIn(<<>>) = <<>>
<1>1. Fresh \in BlockRecs /\ SoundBlock(Fresh)
  <2>1. <<>> \in Seq(Bytes)
    OBVIOUS
  <2> QED BY <2>1, OutQueueAssumption DEF Fresh, BlockRecs, SoundBlock
<1>2. <<>> \in Seq(BlockRecs) /\ HeldIn(<<>>) = <<>> /\ Len(<<>>) = 0
  BY HeldGrows, EmptySeq
<1>3. <<Fresh>> = Append(<<>>, Fresh)
  OBVIOUS
<1>4. SoundBlocks(<<Fresh>>)
  <2>1. \A k \in 1 .. Len(<<>>) : HoldsSome(<<>>[k])
    BY <1>2
  <2>2. SoundBlocks(Append(<<>>, Fresh))
    BY <1>1, <1>2, <2>1, LastBlock
  <2> QED BY <1>3, <2>2
<1>5. HeldIn(<<Fresh>>) = <<>>
  <2>1. HeldIn(Append(<<>>, Fresh)) = HeldIn(<<>>) \o Waiting(Fresh)
    BY <1>1, <1>2, HeldGrows
  <2>2. Waiting(Fresh) = <<>>
    <3>1. Waiting(Fresh) = SubSeq(<<>>, 1, 0)
      BY DEF Waiting, Fresh
    <3> QED BY <3>1, SubSeqEmpty
  <2>3. <<>> \o <<>> = <<>>
    OBVIOUS
  <2> QED BY <1>2, <1>3, <2>1, <2>2, <2>3
<1>6. SoundBlocks(<<>>)
  BY <1>2 DEF SoundBlocks
<1> QED BY <1>1, <1>2, <1>4, <1>5, <1>6

(* The beginning of a line, as much as fits the last block.                *)
LEMMA FirstBytes ==
  ASSUME NEW s \in Seq(Bytes), NEW n \in 0 .. Len(s)
  PROVE  SubSeq(s, 1, n) \in Seq(Bytes) /\ Len(SubSeq(s, 1, n)) = n
<1>1. n \in Int /\ Len(s) \in Nat /\ \A i \in 1 .. n : s[i] \in Bytes
  <2>1. Len(s) \in Nat /\ \A i \in 1 .. Len(s) : s[i] \in Bytes
    BY LenProperties, ElementOfSeq
  <2> QED BY <2>1
<1>2. /\ SubSeq(s, 1, n) \in Seq(Bytes)
      /\ Len(SubSeq(s, 1, n)) = IF 1 <= n THEN n - 1 + 1 ELSE 0
  BY <1>1, SubSeqProperties
<1> QED BY <1>1, <1>2

(* What siqueue_add queues is behind what waits already.                   *)
LEMMA QueuedIs ==
  ASSUME NEW q0, SoundBlocks(q0), NEW s \in Seq(Bytes), s # <<>>, Len(s) <= BlockSize,
         NEW news \in 0 .. 2
  PROVE  LET r == Queued(q0, s, news)
         IN  /\ SoundBlocks(r.q)
             /\ \E t \in Seq(Bytes) : /\ HeldIn(r.q) = HeldIn(q0) \o t
                                      /\ r.n = Len(t) /\ (r.whole => t = s)
<1> DEFINE need == IF q0 = <<>> THEN 1 ELSE 0
           q == IF q0 = <<>> THEN <<Fresh>> ELSE q0
           room == BlockSize - Len(q[Len(q)].buf)
           over == IF Len(s) > room THEN Len(s) - room ELSE 0
           r == Queued(q0, s, news)
           first == SubSeq(s, 1, room)
           rest == SubSeq(s, 1, over)
           Good(u) == /\ SoundBlocks(u.q)
                      /\ \E t \in Seq(Bytes) : /\ HeldIn(u.q) = HeldIn(q0) \o t
                                               /\ u.n = Len(t) /\ (u.whole => t = s)
           r1 == [q |-> q0, n |-> 0, ok |-> FALSE, whole |-> FALSE]
           r2 == [q |-> Put(q, s), n |-> Len(s), ok |-> TRUE, whole |-> TRUE]
           r3 == [q |-> Put(q, first), n |-> room, ok |-> FALSE, whole |-> FALSE]
           r4 == [q |-> Put(Append(Put(q, first), Fresh), rest),
                  n |-> Len(s), ok |-> TRUE, whole |-> FALSE]
<1>1. r = IF news < need THEN r1 ELSE IF over = 0 THEN r2 ELSE IF news = need THEN r3 ELSE r4
  BY DEF Queued
<1>2. SoundBlocks(q) /\ q # <<>> /\ HeldIn(q) = HeldIn(q0)
  BY FreshHolds
<1>3. HeldIn(q0) \in Seq(Bytes) /\ Len(s) \in Nat /\ Len(s) >= 1
  <2>1. q0 \in Seq(BlockRecs)
    BY DEF SoundBlocks
  <2>2. HeldIn(q0) \in Seq(Bytes)
    BY <2>1, HeldGrows
  <2> QED BY <2>2, LenProperties, EmptySeq
<1> HIDE DEF q
<1>4. PICK p \in Seq(BlockRecs), b \in BlockRecs :
        q = Append(p, b) /\ SoundBlock(b) /\ \A k \in 1 .. Len(p) : HoldsSome(p[k])
  BY <1>2, LastBlock
<1>5. /\ room = BlockSize - Len(b.buf) /\ Len(b.buf) \in Nat /\ BlockSize \in Nat
      /\ room \in 0 .. BlockSize
  <2>1. Len(q) = Len(p) + 1 /\ q[Len(p) + 1] = b
    BY <1>4, AppendProperties
  <2>2. room = BlockSize - Len(b.buf)
    BY <2>1
  <2>3. Len(b.buf) \in Nat /\ BlockSize \in Nat
    <3>1. b.buf \in Seq(Bytes)
      BY DEF BlockRecs
    <3> QED BY <3>1, LenProperties, OutQueueAssumption
  <2>4. Len(b.buf) <= BlockSize
    <3>1. Len(<<>>) = 0
      BY EmptySeq
    <3> QED BY <1>4, <2>3, <3>1 DEF SoundBlock, HoldsSome
  <2> HIDE DEF room
  <2> QED BY <2>2, <2>3, <2>4
<1> HIDE DEF room, need
<1>6. Good(r1)
  <2>1. HeldIn(q0) = HeldIn(q0) \o <<>> /\ <<>> \in Seq(Bytes) /\ Len(<<>>) = 0
    BY <1>3, ConcatEmptySeq, EmptySeq
  <2>2. r1.q = q0 /\ r1.n = 0 /\ r1.whole = FALSE
    OBVIOUS
  <2> QED BY <2>1, <2>2
<1>7. ASSUME over = 0 PROVE Good(r2)
  <2>1. Len(b.buf) + Len(s) <= BlockSize
    BY <1>3, <1>5, <1>7
  <2>2. PICK c \in BlockRecs : /\ Put(q, s) = Append(p, c) /\ SoundBlocks(Append(p, c))
                               /\ HeldIn(Append(p, c)) = HeldIn(q) \o s
    BY <1>4, <2>1, PutIs
  <2>3. r2.q = Put(q, s) /\ r2.n = Len(s) /\ r2.whole = TRUE
    OBVIOUS
  <2> HIDE DEF r2
  <2> QED BY <1>2, <2>2, <2>3
<1>8. ASSUME over # 0
      PROVE  \E c \in BlockRecs :
               /\ first \in Seq(Bytes) /\ Len(first) = room
               /\ rest \in Seq(Bytes) /\ Len(rest) = over /\ rest # <<>>
               /\ room + over = Len(s) /\ over <= BlockSize
               /\ Put(q, first) = Append(p, c) /\ HoldsSome(c) /\ SoundBlocks(Append(p, c))
               /\ HeldIn(Append(p, c)) = HeldIn(q) \o first
  <2>1. over = Len(s) - room /\ Len(s) > room /\ over \in 1 .. Len(s) /\ room \in 0 .. Len(s)
    BY <1>3, <1>5, <1>8
  <2> HIDE DEF over
  <2>2. first \in Seq(Bytes) /\ Len(first) = room
    BY <2>1, FirstBytes
  <2>3. rest \in Seq(Bytes) /\ Len(rest) = over
    <3>1. over \in 0 .. Len(s)
      BY <1>3, <2>1
    <3> QED BY <3>1, FirstBytes
  <2>4. HoldsSome(b)
    <3>1. b.buf # <<>>
      <4>1. Len(<<>>) = 0
        BY EmptySeq
      <4> QED BY <1>3, <1>5, <2>1, <4>1
    <3> QED BY <1>4, <3>1 DEF SoundBlock
  <2>5. Len(b.buf) + Len(first) <= BlockSize
    <3> DEFINE B == Len(b.buf)
               F == Len(first)
    <3>1. room = BlockSize - B /\ B \in Nat /\ BlockSize \in Nat /\ F = room
      BY <1>5, <2>2
    <3> HIDE DEF B, F
    <3>2. B + F <= BlockSize
      BY <3>1
    <3> QED BY <3>2 DEF B, F
  <2> HIDE DEF first, rest
  <2>6. PICK c \in BlockRecs : /\ Put(q, first) = Append(p, c) /\ HoldsSome(c)
                               /\ SoundBlocks(Append(p, c))
                               /\ HeldIn(Append(p, c)) = HeldIn(q) \o first
    BY <1>4, <2>2, <2>4, <2>5, PutIs
  <2>7. rest # <<>>
    <3>1. Len(<<>>) = 0 /\ over # 0
      BY <2>1, EmptySeq
    <3> QED BY <2>3, <3>1
  <2>8. room + over = Len(s) /\ over <= BlockSize
    <3> DEFINE L == Len(s)
    <3>1. L \in Nat /\ over = L - room /\ room \in 0 .. L /\ L <= BlockSize /\ BlockSize \in Nat
      BY <1>3, <1>5, <2>1
    <3> HIDE DEF L
    <3>2. room + over = L /\ over <= BlockSize
      BY <3>1
    <3> QED BY <3>2 DEF L
  <2> QED BY <2>2, <2>3, <2>6, <2>7, <2>8
<1> HIDE DEF first, rest, over
<1>9. ASSUME over # 0 PROVE Good(r3)
  <2>1. PICK c \in BlockRecs :
          /\ first \in Seq(Bytes) /\ Len(first) = room
          /\ Put(q, first) = Append(p, c) /\ SoundBlocks(Append(p, c))
          /\ HeldIn(Append(p, c)) = HeldIn(q) \o first
    BY <1>8, <1>9
  <2>2. r3.q = Put(q, first) /\ r3.n = room /\ r3.whole = FALSE
    OBVIOUS
  <2> HIDE DEF r3
  <2> QED BY <1>2, <2>1, <2>2
<1>10. ASSUME over # 0 PROVE Good(r4)
  <2>1. PICK c \in BlockRecs :
          /\ first \in Seq(Bytes) /\ Len(first) = room
          /\ rest \in Seq(Bytes) /\ Len(rest) = over /\ rest # <<>>
          /\ room + over = Len(s) /\ over <= BlockSize
          /\ Put(q, first) = Append(p, c) /\ HoldsSome(c) /\ SoundBlocks(Append(p, c))
          /\ HeldIn(Append(p, c)) = HeldIn(q) \o first
    BY <1>8, <1>10
  <2> DEFINE x == Append(p, c)
  <2>2. /\ x \in Seq(BlockRecs) /\ \A k \in 1 .. Len(x) : HoldsSome(x[k])
    <3>1. /\ x \in Seq(BlockRecs) /\ Len(p) \in Nat /\ Len(x) = Len(p) + 1
          /\ x[Len(p) + 1] = c /\ \A k \in 1 .. Len(p) : x[k] = p[k]
      BY AppendProperties, LenProperties
    <3> HIDE DEF x
    <3> SUFFICES ASSUME NEW k \in 1 .. Len(x) PROVE HoldsSome(x[k])
      BY <3>1
    <3>2. CASE k = Len(p) + 1
      BY <2>1, <3>1, <3>2
    <3>3. CASE k # Len(p) + 1
      <4>1. k \in 1 .. Len(p)
        BY <3>1, <3>3
      <4> QED BY <1>4, <3>1, <4>1
    <3> QED BY <3>2, <3>3
  <2> HIDE DEF x
  <2>3. Fresh \in BlockRecs /\ SoundBlock(Fresh) /\ Len(Fresh.buf) = 0
    BY FreshHolds, EmptySeq DEF Fresh
  <2>4. Len(Fresh.buf) + Len(rest) <= BlockSize
    <3>1. Len(rest) \in Nat
      BY <2>1, LenProperties
    <3> QED BY <1>5, <2>1, <2>3, <3>1
  <2>5. PICK d \in BlockRecs : /\ Put(Append(x, Fresh), rest) = Append(x, d)
                               /\ SoundBlocks(Append(x, d))
                               /\ HeldIn(Append(x, d)) = HeldIn(Append(x, Fresh)) \o rest
    BY <2>1, <2>2, <2>3, <2>4, PutIs
  <2>6. HeldIn(Append(x, Fresh)) = HeldIn(x)
    <3>1. HeldIn(Append(x, Fresh)) = HeldIn(x) \o Waiting(Fresh) /\ HeldIn(x) \in Seq(Bytes)
      BY <2>2, <2>3, HeldGrows
    <3>2. Waiting(Fresh) = <<>>
      <4>1. Waiting(Fresh) = SubSeq(<<>>, 1, 0)
        BY DEF Waiting, Fresh
      <4> QED BY <4>1, SubSeqEmpty
    <3> QED BY <3>1, <3>2, ConcatEmptySeq
  <2> DEFINE t == first \o rest
             h == HeldIn(q0)
  <2>7. t \in Seq(Bytes) /\ Len(t) = Len(s)
    <3>1. t \in Seq(Bytes) /\ Len(t) = Len(first) + Len(rest)
      BY <2>1, ConcatProperties
    <3> QED BY <2>1, <3>1
  <2>8. HeldIn(Append(x, d)) = h \o t
    <3>1. HeldIn(x) = h \o first
      BY <1>2, <2>1 DEF x
    <3>2. h \in Seq(Bytes)
      BY <1>3
    <3> HIDE DEF h
    <3>4. first \in Seq(Bytes) /\ rest \in Seq(Bytes)
      BY <2>1
    <3>3. (h \o first) \o rest = h \o (first \o rest)
      BY <3>2, <3>4, ConcatAssociative
    <3> QED BY <2>5, <2>6, <3>1, <3>3
  <2>9. r4.q = Append(x, d) /\ r4.n = Len(s) /\ r4.whole = FALSE
    BY <2>1, <2>5 DEF x
  <2> HIDE DEF r4, t
  <2> QED BY <2>5, <2>7, <2>8, <2>9
<1> HIDE DEF Good, r, r1, r2, r3, r4
<1>11. Good(r)
  BY <1>1, <1>6, <1>7, <1>9, <1>10
<1> QED BY <1>11 DEF Good, r

(* siqueue_get offers the beginning of what waits.                         *)
LEMMA OfferedIs ==
  ASSUME NEW q, SoundBlocks(q)
  PROVE  \E z \in Seq(Bytes) : Offered(q) \in Seq(Bytes) /\ HeldIn(q) = Offered(q) \o z
<1> DEFINE full(k) == Cardinality({j \in 1 .. k : Waiting(q[j]) # <<>>})
           K == {k \in 0 .. Len(q) : full(k) <= IovNum}
           L(k) == full(k) <= IovNum /\ (k = Len(q) \/ full(k + 1) > IovNum)
           m == CHOOSE k \in 0 .. Len(q) : L(k)
<1>1. q \in Seq(BlockRecs) /\ Len(q) \in Nat
  BY LenProperties DEF SoundBlocks
<1>2. m \in 0 .. Len(q)
  <2>1. 0 \in K
    <3>1. {j \in 1 .. 0 : Waiting(q[j]) # <<>>} = {}
      OBVIOUS
    <3>2. full(0) = 0
      BY <3>1, FS_EmptySet
    <3>3. 0 \in 0 .. Len(q) /\ 0 <= IovNum
      BY <1>1, OutQueueAssumption
    <3> HIDE DEF full
    <3> QED BY <3>2, <3>3
  <2>2. \A k \in 0 .. Len(q) : full(k) \in Nat
    <3> SUFFICES ASSUME NEW k \in 0 .. Len(q) PROVE full(k) \in Nat
      OBVIOUS
    <3>1. IsFiniteSet(1 .. k)
      <4>1. 1 \in Int /\ k \in Int
        OBVIOUS
      <4> QED BY <4>1, FS_Interval
    <3>2. IsFiniteSet({j \in 1 .. k : Waiting(q[j]) # <<>>})
      BY <3>1, FS_Subset
    <3> QED BY <3>2, FS_CardinalityType
  <2> HIDE DEF full
  <2>3. K \subseteq 0 .. Len(q) /\ K # {}
    BY <2>1
  <2>4. Max(K) \in K /\ \A k \in K : Max(K) >= k
    <3> HIDE DEF K
    <3> QED BY <1>1, <2>3, MaxIsOne
  <2> DEFINE x == Max(K)
  <2>5. x \in 0 .. Len(q) /\ full(x) <= IovNum
    BY <2>4
  <2>6. x # Len(q) => x + 1 \in 0 .. Len(q) /\ x + 1 \notin K
    <3> HIDE DEF x
    <3>1. \A k \in K : x >= k
      BY <2>4 DEF x
    <3> QED BY <1>1, <2>5, <3>1
  <2>7. x # Len(q) => full(x + 1) > IovNum
    <3> HIDE DEF x
    <3> QED BY <2>2, <2>6, OutQueueAssumption
  <2>8. L(x)
    <3> HIDE DEF x
    <3> QED BY <2>5, <2>7
  <2> HIDE DEF L, x
  <2> QED BY <2>5, <2>8
<1>3. Offered(q) = HeldIn(SubSeq(q, 1, m))
  BY DEF Offered
<1> HIDE DEF m
<1> DEFINE x == SubSeq(q, 1, m)
           y == SubSeq(q, m + 1, Len(q))
<1>4. x \in Seq(BlockRecs) /\ y \in Seq(BlockRecs) /\ q = x \o y
  BY <1>1, <1>2, CutAt
<1> HIDE DEF x, y
<1>5. HeldIn(q) = HeldIn(x) \o HeldIn(y)
  BY <1>4, HeldConcat
<1>6. HeldIn(x) \in Seq(Bytes)
  BY <1>4, HeldGrows
<1>7. HeldIn(y) \in Seq(Bytes)
  BY <1>4, HeldGrows
<1> QED BY <1>3, <1>5, <1>6, <1>7 DEF x

(* A block of which siqueue_del takes n bytes more.                        *)
LEMMA WaitingShrinks ==
  ASSUME NEW b \in BlockRecs, Len(b.buf) <= BlockSize, b.gone <= Len(b.buf),
         NEW m \in 0 .. Len(Waiting(b)), NEW c, c = [b EXCEPT !.gone = b.gone + m]
  PROVE  /\ c \in BlockRecs /\ c.buf = b.buf /\ c.gone = b.gone + m
         /\ Waiting(c) = SubSeq(Waiting(b), m + 1, Len(Waiting(b)))
<1> DEFINE n == Len(b.buf)
           g == b.gone
           v == Waiting(b)
           w == Waiting(c)
           u == SubSeq(v, m + 1, Len(v))
<1>0. b.buf \in Seq(Bytes) /\ n \in Nat /\ g \in Nat /\ g <= n /\ n <= BlockSize /\ BlockSize \in Nat
  <2>1. b.buf \in Seq(Bytes) /\ g \in 0 .. BlockSize
    BY DEF BlockRecs
  <2>2. g \in Nat
    BY <2>1, OutQueueAssumption
  <2> QED BY <2>1, <2>2, LenProperties, OutQueueAssumption
<1>1. v \in Seq(Bytes) /\ Len(v) = n - g /\ \A i \in 1 .. n - g : v[i] = b.buf[g + i]
  BY <1>0, WaitingIs
<1>m. m \in 0 .. n - g
  BY <1>1
<1>2. c.buf = b.buf /\ c.gone = g + m /\ c \in BlockRecs
  <2>1. b = [buf |-> b.buf, gone |-> b.gone]
    BY DEF BlockRecs
  <2>2. c.buf = b.buf /\ c.gone = g + m /\ c = [buf |-> b.buf, gone |-> g + m]
    BY <2>1
  <2> HIDE DEF n, g, v
  <2>3. g + m \in 0 .. BlockSize
    BY <1>0, <1>m
  <2> QED BY <1>0, <2>2, <2>3 DEF BlockRecs
<1> DEFINE B == c.buf
           G == c.gone
<1>3. w \in Seq(Bytes) /\ (G <= Len(B) => Len(w) = Len(B) - G)
      /\ \A i \in 1 .. Len(B) - G : w[i] = B[G + i]
  BY <1>2, WaitingIs
<1>4. B = b.buf /\ Len(B) = n /\ G = g + m /\ m \in 0 .. n - g
  BY <1>1, <1>2
<1>5. /\ u \in Seq(Bytes) /\ Len(u) = IF m + 1 <= Len(v) THEN Len(v) - (m + 1) + 1 ELSE 0
      /\ \A i \in 1 .. Len(v) - (m + 1) + 1 : u[i] = v[(m + 1) + i - 1]
  <2> HIDE DEF v
  <2>1. m + 1 \in Int /\ Len(v) \in Int
    BY <1>1, LenProperties
  <2>2. \A i \in m + 1 .. Len(v) : v[i] \in Bytes
    <3>1. \A i \in 1 .. Len(v) : v[i] \in Bytes
      BY <1>1, ElementOfSeq
    <3> QED BY <2>1, <3>1
  <2> DEFINE a == m + 1
             L == Len(v)
  <2>3. a \in Int /\ L \in Int /\ \A i \in a .. L : v[i] \in Bytes
    BY <2>1, <2>2
  <2> HIDE DEF a, L
  <2>4. SubSeq(v, a, L) \in Seq(Bytes) /\ Len(SubSeq(v, a, L)) = (IF a <= L THEN L - a + 1 ELSE 0)
        /\ \A i \in 1 .. L - a + 1 : SubSeq(v, a, L)[i] = v[a + i - 1]
    BY <2>3, SubSeqProperties
  <2> QED BY <2>4 DEF a, L
<1> HIDE DEF n, g, v, w, u, B, G
<1>6. Len(w) = n - (g + m) /\ Len(u) = n - (g + m)
  <2>1. Len(w) = n - (g + m)
    <3>1. (G <= Len(B) => Len(w) = Len(B) - G) /\ Len(B) = n /\ G = g + m
      BY <1>3, <1>4
    <3> QED BY <1>0, <1>m, <3>1
  <2>2. Len(u) = n - (g + m)
    <3>1. Len(v) = n - g /\ Len(u) = IF m + 1 <= Len(v) THEN Len(v) - (m + 1) + 1 ELSE 0
      BY <1>1, <1>5
    <3> QED BY <1>0, <1>m, <3>1
  <2> QED BY <2>1, <2>2
<1>7. ASSUME NEW i \in 1 .. n - (g + m) PROVE w[i] = u[i]
  <2>1. /\ i \in 1 .. Len(v) - (m + 1) + 1 /\ (m + 1) + i - 1 = m + i
        /\ m + i \in 1 .. n - g /\ g + (m + i) = (g + m) + i
    BY <1>0, <1>1, <1>4
  <2>2. w[i] = B[(g + m) + i]
    BY <1>3, <1>4
  <2>3. u[i] = v[m + i]
    <3>1. u[i] = v[(m + 1) + i - 1]
      BY <1>5, <2>1
    <3>2. (m + 1) + i - 1 = m + i
      BY <2>1
    <3> QED BY <3>1, <3>2
  <2>4. v[m + i] = b.buf[g + (m + i)]
    BY <1>1, <2>1
  <2> QED BY <1>4, <2>1, <2>2, <2>3, <2>4
<1>8. w = u
  BY <1>3, <1>5, <1>6, <1>7, SeqEqual
<1> QED BY <1>2, <1>8 DEF g, u, v, w

(* siqueue_del takes the first n bytes of what waits, and no others.       *)
LEMMA TakenIs ==
  ASSUME NEW q, SoundBlocks(q), NEW n \in 1 .. Len(HeldIn(q))
  PROVE  /\ SoundBlocks(Taken(q, n))
         /\ \E x \in Seq(Bytes), y \in Seq(Bytes) :
              HeldIn(q) = x \o y /\ Len(x) = n /\ HeldIn(Taken(q, n)) = y
<1> DEFINE before == [j \in 0 .. Len(q) |-> Len(HeldIn(SubSeq(q, 1, j)))]
           J == {j \in DOMAIN q : n <= before[j]}
           k == Min(J)
           b == q[k]
           c == [q[k] EXCEPT !.gone = @ + n - before[k - 1]]
           r == SubSeq(q, k + 1, Len(q))
           p == SubSeq(q, 1, k - 1)
           T == IF c.gone < Len(c.buf) THEN <<c>> \o r
                ELSE IF r = <<>> THEN <<Fresh>> ELSE r
<1>1. Taken(q, n) = T
  BY DEF Taken
<1>2. q \in Seq(BlockRecs) /\ Len(q) \in Nat /\ DOMAIN q = 1 .. Len(q)
  BY LenProperties DEF SoundBlocks
<1>3. HeldIn(q) \in Seq(Bytes) /\ Len(HeldIn(q)) \in Nat /\ n \in Nat
  <2>1. HeldIn(q) \in Seq(Bytes)
    BY <1>2, HeldGrows
  <2> QED BY <2>1, LenProperties
<1>4. before[0] = 0 /\ before[Len(q)] = Len(HeldIn(q))
  <2>1. SubSeq(q, 1, 0) = <<>>
    BY SubSeqEmpty
  <2>2. SubSeq(q, 1, Len(q)) = q
    BY <1>2, SubSeqFull
  <2>3. HeldIn(<<>>) = <<>> /\ Len(<<>>) = 0
    BY HeldGrows, EmptySeq, <1>2
  <2>4. 0 \in 0 .. Len(q) /\ Len(q) \in 0 .. Len(q)
    BY <1>2
  <2> QED BY <2>1, <2>2, <2>3, <2>4
<1>5. Len(q) # 0
  <2>1. Len(q) = 0 => before[0] = Len(HeldIn(q))
    BY <1>4
  <2> HIDE DEF before
  <2> QED BY <1>3, <1>4, <2>1
<1>6. k \in 1 .. Len(q) /\ n <= before[k] /\ \A j \in 1 .. k - 1 : ~ (n <= before[j])
  <2> HIDE DEF before
  <2>1. Len(q) \in J
    BY <1>2, <1>3, <1>4, <1>5
  <2>2. J \subseteq Nat /\ J # {}
    BY <1>2, <2>1
  <2>3. k \in J /\ \A j \in J : k <= j
    <3> HIDE DEF J
    <3> QED BY <2>2, MinIsLeast
  <2>4. k \in 1 .. Len(q) /\ n <= before[k]
    BY <1>2, <2>3
  <2> HIDE DEF k
  <2>5. ASSUME NEW j \in 1 .. k - 1 PROVE ~ (n <= before[j])
    <3>1. j \in DOMAIN q /\ ~ (k <= j)
      BY <1>2, <2>4
    <3> QED BY <2>3, <3>1
  <2> QED BY <2>4, <2>5 DEF k
<1> HIDE DEF k
<1> DEFINE P == HeldIn(p)
           V == Waiting(b)
           R == HeldIn(r)
           m == n - Len(P)
<1>7. /\ p \in Seq(BlockRecs) /\ r \in Seq(BlockRecs) /\ b \in BlockRecs
      /\ HeldIn(q) = P \o (V \o R) /\ HeldIn(SubSeq(q, 1, k)) = P \o V
  <2>1. b \in BlockRecs
    BY <1>2, <1>6, ElementOfSeq
  <2> QED BY <1>2, <1>6, <2>1, HeldSplit
<1>8. SoundBlock(b) /\ (k < Len(q) => HoldsSome(b))
  BY <1>6 DEF SoundBlocks
<1>9. P \in Seq(Bytes) /\ V \in Seq(Bytes) /\ R \in Seq(Bytes)
  <2>1. P \in Seq(Bytes)
    BY <1>7, HeldGrows
  <2>2. V \in Seq(Bytes)
    BY <1>7, WaitingIs
  <2>3. R \in Seq(Bytes)
    BY <1>7, HeldGrows
  <2> QED BY <2>1, <2>2, <2>3
<1>10. before[k - 1] = Len(P) /\ before[k] = Len(P \o V)
  <2>1. k - 1 \in 0 .. Len(q) /\ k \in 0 .. Len(q)
    BY <1>2, <1>6
  <2> QED BY <1>7, <2>1
<1>11. Len(P) < n
  <2>1. CASE k = 1
    <3>1. k - 1 = 0
      BY <2>1
    <3> HIDE DEF before, P
    <3> QED BY <1>4, <1>10, <3>1
  <2>2. CASE k # 1
    <3>1. k - 1 \in 1 .. k - 1
      BY <1>6, <2>2
    <3> HIDE DEF before, P
    <3>2. ~ (n <= Len(P))
      BY <1>6, <1>10, <3>1
    <3> QED BY <1>3, <1>9, <3>2, LenProperties
  <2> QED BY <2>1, <2>2
<1>12. m \in 1 .. Len(V)
  <2> HIDE DEF before, P, V
  <2>1. Len(P \o V) = Len(P) + Len(V) /\ Len(P) \in Nat /\ Len(V) \in Nat
    BY <1>9, ConcatProperties, LenProperties
  <2> QED BY <1>3, <1>6, <1>10, <1>11, <2>1
<1>13. c = [b EXCEPT !.gone = b.gone + m]
  <2>1. b.gone \in Nat /\ Len(P) \in Nat
    <3>1. b.gone \in 0 .. BlockSize
      BY <1>7 DEF BlockRecs
    <3>2. b.gone \in Nat
      BY <3>1, OutQueueAssumption
    <3> HIDE DEF P
    <3> QED BY <1>9, <3>2, LenProperties
  <2>2. b.gone + n - before[k - 1] = b.gone + m
    <3> HIDE DEF before, P, b
    <3> QED BY <1>3, <1>10, <2>1
  <2> HIDE DEF before, P
  <2> QED BY <2>2
<1>14. Len(b.buf) <= BlockSize /\ b.gone <= Len(b.buf) /\ b.gone \in Nat /\ Len(b.buf) \in Nat
       /\ Len(V) = Len(b.buf) - b.gone
  <2>1. b.buf \in Seq(Bytes) /\ b.gone \in 0 .. BlockSize
    BY <1>7 DEF BlockRecs
  <2>2. b.gone \in Nat /\ Len(b.buf) \in Nat /\ BlockSize \in Nat /\ Len(<<>>) = 0
    BY <2>1, OutQueueAssumption, LenProperties, EmptySeq
  <2> HIDE DEF b
  <2>3. Len(b.buf) <= BlockSize /\ b.gone <= Len(b.buf)
    <3>1. CASE HoldsSome(b)
      BY <2>2, <3>1 DEF HoldsSome
    <3>2. CASE b.buf = <<>> /\ b.gone = 0
      BY <2>2, <3>2
    <3> QED BY <1>8, <3>1, <3>2 DEF SoundBlock
  <2>4. Len(V) = Len(b.buf) - b.gone
    BY <1>7, <2>3, WaitingIs
  <2> QED BY <2>2, <2>3, <2>4
<1> HIDE DEF before, b
<1>15. /\ c \in BlockRecs /\ c.buf = b.buf /\ c.gone = b.gone + m
       /\ Waiting(c) = SubSeq(V, m + 1, Len(V))
  <2>1. m \in 0 .. Len(Waiting(b))
    BY <1>12
  <2> HIDE DEF m, c
  <2> QED BY <1>7, <1>13, <1>14, <2>1, WaitingShrinks
<1> DEFINE V1 == SubSeq(V, 1, m)
           V2 == SubSeq(V, m + 1, Len(V))
           x == P \o V1
           y == V2 \o R
<1>16. /\ V1 \in Seq(Bytes) /\ V2 \in Seq(Bytes) /\ Len(V1) = m /\ Len(V2) = Len(V) - m
       /\ V = V1 \o V2
  <2>1. m \in 0 .. Len(V)
    BY <1>12
  <2> HIDE DEF m, V
  <2> QED BY <1>9, <2>1, CutAt
<1> HIDE DEF V1, V2, P, V, R, c, r, p
<1>17. x \in Seq(Bytes) /\ y \in Seq(Bytes) /\ HeldIn(q) = x \o y /\ Len(x) = n
  <2>1. x \in Seq(Bytes) /\ Len(x) = Len(P) + Len(V1)
    BY <1>9, <1>16, ConcatProperties
  <2>2. y \in Seq(Bytes)
    BY <1>9, <1>16, ConcatProperties
  <2>a. V1 \in Seq(Bytes) /\ V2 \in Seq(Bytes) /\ R \in Seq(Bytes) /\ P \in Seq(Bytes)
    BY <1>9, <1>16
  <2>3. (V1 \o V2) \o R = V1 \o (V2 \o R)
    BY <2>a, ConcatAssociative
  <2>4. P \o (V1 \o y) = (P \o V1) \o y
    <3>1. P \in Seq(Bytes) /\ V1 \in Seq(Bytes) /\ y \in Seq(Bytes)
      BY <2>a, <2>2
    <3> HIDE DEF x, y, m
    <3>2. (P \o V1) \o y = P \o (V1 \o y)
      BY <3>1, ConcatAssociative
    <3> QED BY <3>2
  <2>5. Len(P) \in Nat
    BY <1>9, LenProperties
  <2>6. Len(x) = n
    BY <1>3, <1>16, <2>1, <2>5
  <2> QED BY <1>7, <1>16, <2>1, <2>2, <2>3, <2>4, <2>6
<1>18. /\ Len(r) = Len(q) - k
       /\ \A i \in 1 .. Len(q) - k : /\ r[i] = q[k + i] /\ SoundBlock(r[i])
                                     /\ i < Len(q) - k => HoldsSome(r[i])
  <2>1. \A i \in 1 .. Len(q) : q[i] \in BlockRecs
    BY <1>2, ElementOfSeq
  <2>2. k + 1 \in Int /\ Len(q) \in Int /\ \A i \in k + 1 .. Len(q) : q[i] \in BlockRecs
    BY <1>2, <1>6, <2>1
  <2>3. /\ Len(r) = IF k + 1 <= Len(q) THEN Len(q) - (k + 1) + 1 ELSE 0
        /\ \A i \in 1 .. Len(q) - (k + 1) + 1 : r[i] = q[(k + 1) + i - 1]
    BY <2>2, SubSeqProperties DEF r
  <2>4. Len(r) = Len(q) - k
    <3> DEFINE L == Len(q)
    <3>1. k \in 1 .. L /\ L \in Nat /\ Len(r) = IF k + 1 <= L THEN L - (k + 1) + 1 ELSE 0
      BY <1>2, <1>6, <2>3
    <3> HIDE DEF L
    <3>2. Len(r) = L - k
      BY <3>1
    <3> QED BY <3>2 DEF L
  <2>5. ASSUME NEW i \in 1 .. Len(q) - k
        PROVE  r[i] = q[k + i] /\ SoundBlock(r[i]) /\ (i < Len(q) - k => HoldsSome(r[i]))
    <3>1. /\ i \in 1 .. Len(q) - (k + 1) + 1 /\ (k + 1) + i - 1 = k + i /\ k + i \in 1 .. Len(q)
          /\ (i < Len(q) - k => k + i < Len(q))
      BY <1>2, <1>6
    <3>2. r[i] = q[k + i]
      BY <2>3, <3>1
    <3>3. SoundBlock(q[k + i]) /\ (k + i < Len(q) => HoldsSome(q[k + i]))
      BY <3>1 DEF SoundBlocks
    <3> QED BY <3>1, <3>2, <3>3
  <2> QED BY <2>4, <2>5
<1>19. CASE c.gone < Len(c.buf)
  <2> DEFINE t == <<c>> \o r
  <2>1. T = t
    BY <1>19
  <2>2. <<c>> \in Seq(BlockRecs) /\ Len(<<c>>) = 1 /\ <<c>>[1] = c
    BY <1>15
  <2>3. /\ t \in Seq(BlockRecs) /\ Len(t) = Len(<<c>>) + Len(r)
        /\ \A i \in 1 .. Len(<<c>>) + Len(r) : t[i] = IF i <= Len(<<c>>) THEN <<c>>[i] ELSE r[i - Len(<<c>>)]
    BY <1>7, <2>2, ConcatProperties
  <2>4. HoldsSome(c)
    <3>1. Len(c.buf) <= BlockSize
      BY <1>14, <1>15
    <3> QED BY <1>19, <3>1 DEF HoldsSome
  <2>5. HeldIn(t) = y
    <3>1. HeldIn(t) = HeldIn(<<c>>) \o HeldIn(r)
      BY <1>7, <2>2, HeldConcat
    <3>2. HeldIn(<<c>>) = HeldIn(<<>>) \o Waiting(c) /\ HeldIn(<<>>) = <<>>
      <4>1. <<>> \in Seq(BlockRecs) /\ Append(<<>>, c) = <<c>>
        OBVIOUS
      <4> QED BY <1>15, <4>1, HeldGrows
    <3>3. <<>> \o V2 = V2
      BY <1>16, ConcatEmptySeq
    <3> QED BY <1>15, <3>1, <3>2, <3>3 DEF V2, R
  <2>6. SoundBlocks(t)
    <3> HIDE DEF t
    <3>1. Len(t) = Len(q) - k + 1 /\ t[1] = c /\ \A i \in 2 .. Len(q) - k + 1 : t[i] = r[i - 1]
      <4>1. Len(t) = Len(q) - k + 1
        BY <1>2, <1>6, <1>18, <2>2, <2>3
      <4>2. t[1] = c
        BY <1>2, <1>6, <1>18, <2>2, <2>3
      <4>3. ASSUME NEW i \in 2 .. Len(q) - k + 1 PROVE t[i] = r[i - 1]
        <5>1. i \in 1 .. Len(<<c>>) + Len(r) /\ ~ (i <= Len(<<c>>)) /\ i - Len(<<c>>) = i - 1
          BY <1>2, <1>6, <1>18, <2>2
        <5> QED BY <2>3, <5>1
      <4> QED BY <4>1, <4>2, <4>3
    <3>2. ASSUME NEW i \in 1 .. Len(t)
          PROVE  SoundBlock(t[i]) /\ (i < Len(t) => HoldsSome(t[i]))
      <4>1. CASE i = 1
        BY <2>4, <3>1, <4>1 DEF SoundBlock
      <4>2. CASE i # 1
        <5>1. /\ i \in 2 .. Len(q) - k + 1 /\ i - 1 \in 1 .. Len(q) - k
              /\ (i < Len(t) => i - 1 < Len(q) - k)
          BY <1>2, <1>6, <3>1, <4>2
        <5> QED BY <1>18, <3>1, <5>1
      <4> QED BY <4>1, <4>2
    <3> QED BY <2>3, <3>2 DEF SoundBlocks
  <2> HIDE DEF T, x, y, t
  <2> QED BY <1>1, <1>17, <2>1, <2>5, <2>6
<1>20. CASE ~ (c.gone < Len(c.buf))
  <2>1. m = Len(V)
    <3> DEFINE BL == Len(b.buf)
               BG == b.gone
               VL == Len(V)
    <3>1. ~ (BG + m < BL) /\ BG \in Nat /\ BL \in Nat /\ VL = BL - BG /\ m \in 1 .. VL
      BY <1>12, <1>14, <1>15, <1>20
    <3> HIDE DEF BL, BG, VL, m
    <3>2. m = VL
      BY <3>1
    <3> QED BY <3>2 DEF VL
  <2>2. y = R
    <3>1. Len(V2) = 0
      <4> HIDE DEF m
      <4>1. Len(V) \in Nat
        BY <1>9, LenProperties
      <4> QED BY <1>16, <2>1, <4>1
    <3>2. V2 = <<>>
      BY <1>16, <3>1, EmptySeq
    <3> QED BY <1>9, <3>2, ConcatEmptySeq
  <2>3. SoundBlocks(r)
    BY <1>7, <1>18 DEF SoundBlocks
  <2>4. SoundBlocks(T) /\ HeldIn(T) = R
    <3>1. CASE r = <<>>
      <4>1. T = <<Fresh>>
        BY <1>20, <3>1
      <4> HIDE DEF T
      <4> QED BY <3>1, <4>1, FreshHolds DEF R
    <3>2. CASE r # <<>>
      <4>1. T = r
        BY <1>20, <3>2
      <4> HIDE DEF T
      <4> QED BY <2>3, <4>1 DEF R
    <3> QED BY <3>1, <3>2
  <2> HIDE DEF T, x, y
  <2> QED BY <1>1, <1>17, <2>2, <2>4
<1> QED BY <1>19, <1>20

(* A line is bytes, as many as it is long.                                 *)
LEMMA LineIs ==
  ASSUME NEW k \in 1 .. MaxLines, NEW n \in 1 .. BlockSize
  PROVE  Line(k, n) \in Seq(Bytes) /\ Len(Line(k, n)) = n
<1>1. n \in Nat /\ \A j \in 1 .. n : j \in 1 .. BlockSize
  BY OutQueueAssumption
<1>2. \A j \in 1 .. n : <<k, j>> \in Bytes
  BY <1>1 DEF Bytes
<1>3. Line(k, n) \in [1 .. n -> Bytes]
  BY <1>2 DEF Line
<1> QED BY <1>1, <1>3, SeqDef, LenProperties

(* The bytes of the lines, one line more.                                  *)
LEMMA PrintedGrows ==
  ASSUME NEW ls \in Seq(1 .. BlockSize), Len(ls) <= MaxLines
  PROVE  /\ Printed(ls) \in Seq(Bytes) /\ Printed(<<>>) = <<>>
         /\ \A n \in 1 .. BlockSize : Len(ls) < MaxLines =>
              Printed(Append(ls, n)) = Printed(ls) \o Line(Len(ls) + 1, n)
<1> DEFINE L(p) == [k \in DOMAIN p |-> Line(k, p[k])]
<1>1. ASSUME NEW p \in Seq(1 .. BlockSize), Len(p) <= MaxLines
      PROVE  L(p) \in Seq(Seq(Bytes)) /\ Len(L(p)) = Len(p)
  <2>1. /\ Len(p) \in Nat /\ DOMAIN p = 1 .. Len(p)
        /\ \A k \in 1 .. Len(p) : p[k] \in 1 .. BlockSize /\ k \in 1 .. MaxLines
    <3>1. Len(p) \in Nat /\ DOMAIN p = 1 .. Len(p) /\ \A k \in 1 .. Len(p) : p[k] \in 1 .. BlockSize
      BY LenProperties, ElementOfSeq
    <3> QED BY <1>1, <3>1, OutQueueAssumption
  <2>2. \A k \in 1 .. Len(p) : Line(k, p[k]) \in Seq(Bytes)
    BY <2>1, LineIs
  <2>3. L(p) \in [1 .. Len(p) -> Seq(Bytes)]
    BY <2>1, <2>2
  <2> HIDE DEF L
  <2> QED BY <2>1, <2>3, SeqDef, LenProperties
<1>2. Printed(ls) \in Seq(Bytes)
  <2>1. Printed(ls) = FlattenSeq(L(ls))
    BY DEF Printed
  <2> HIDE DEF L
  <2> QED BY <1>1, <2>1, FlattenSeqs
<1>3. Printed(<<>>) = <<>>
  <2>1. L(<<>>) = <<>>
    OBVIOUS
  <2>2. Printed(<<>>) = FlattenSeq(L(<<>>))
    BY DEF Printed
  <2> HIDE DEF L
  <2> QED BY <2>1, <2>2, FlattenSeqs
<1>4. ASSUME NEW n \in 1 .. BlockSize, Len(ls) < MaxLines
      PROVE  Printed(Append(ls, n)) = Printed(ls) \o Line(Len(ls) + 1, n)
  <2> DEFINE p == Append(ls, n)
             m == Len(ls)
             v == L(p)
             u == L(ls)
             l == Line(m + 1, n)
             w == Append(u, l)
  <2>1. /\ m \in Nat /\ p \in Seq(1 .. BlockSize) /\ Len(p) = m + 1 /\ p[m + 1] = n
        /\ \A k \in 1 .. m : p[k] = ls[k]
    BY LenProperties, AppendProperties
  <2>2. u \in Seq(Seq(Bytes)) /\ Len(u) = m /\ v \in Seq(Seq(Bytes)) /\ Len(v) = m + 1
    <3> HIDE DEF L, p
    <3>1. Len(p) <= MaxLines
      BY <1>4, <2>1, OutQueueAssumption
    <3> QED BY <1>1, <2>1, <3>1
  <2>3. l \in Seq(Bytes)
    <3>1. m + 1 \in 1 .. MaxLines
      BY <1>4, <2>1, OutQueueAssumption
    <3> QED BY <3>1, LineIs
  <2>4. w \in Seq(Seq(Bytes)) /\ Len(w) = m + 1 /\ w[m + 1] = l /\ \A k \in 1 .. m : w[k] = u[k]
    <3> HIDE DEF u, l
    <3> QED BY <2>2, <2>3, AppendProperties
  <2>5. DOMAIN ls = 1 .. m /\ DOMAIN p = 1 .. m + 1
    <3> HIDE DEF p
    <3> QED BY <2>1, LenProperties
  <2>6. \A k \in 1 .. m : u[k] = Line(k, ls[k])
    BY <2>5
  <2>7. \A k \in 1 .. m + 1 : v[k] = Line(k, p[k])
    <3> HIDE DEF p
    <3> QED BY <2>5
  <2> HIDE DEF v, w, u, L, p
  <2>8. \A k \in 1 .. m + 1 : v[k] = w[k]
    <3> SUFFICES ASSUME NEW k \in 1 .. m + 1 PROVE v[k] = w[k]
      OBVIOUS
    <3>1. CASE k = m + 1
      BY <2>1, <2>4, <2>7, <3>1
    <3>2. CASE k # m + 1
      <4>1. k \in 1 .. m
        BY <2>1, <3>2
      <4> QED BY <2>1, <2>4, <2>6, <2>7, <4>1
    <3> QED BY <3>1, <3>2
  <2>9. v = w
    BY <2>2, <2>4, <2>8, SeqEqual
  <2>10. Printed(p) = FlattenSeq(v) /\ Printed(ls) = FlattenSeq(u)
    BY DEF Printed, v, u, L
  <2> HIDE DEF l
  <2>11. FlattenSeq(w) = FlattenSeq(u) \o l
    BY <2>2, <2>3, FlattenSeqs DEF w
  <2> QED BY <2>9, <2>10, <2>11 DEF p, l
<1> QED BY <1>2, <1>3, <1>4

(* QueueSound as every step keeps it: the last block may be empty only     *)
(* when it is to be filled from its beginning.                             *)
QueueInv ==
  /\ state \in {"connecting", "up", "gone"} /\ pollout \in BOOLEAN
  /\ SoundBlocks(blocks) /\ size = Len(Stream)
  /\ sent \in Seq(Bytes) /\ lines \in Seq(1 .. BlockSize) /\ Len(lines) <= MaxLines
  /\ marred \subseteq 1 .. MaxLines /\ LinesInOrder

(* What waits is a sequence of bytes.                                      *)
LEMMA StreamIs == SoundBlocks(blocks) => Stream \in Seq(Bytes) /\ Len(Stream) \in Nat
<1> SUFFICES ASSUME SoundBlocks(blocks) PROVE Stream \in Seq(Bytes) /\ Len(Stream) \in Nat
  OBVIOUS
<1>1. Stream \in Seq(Bytes)
  BY HeldGrows DEF SoundBlocks, Stream
<1> QED BY <1>1, LenProperties

(* The invariant says what QueueSound says.                                *)
LEMMA InvMeans == QueueInv => QueueSound
<1> SUFFICES ASSUME QueueInv PROVE QueueSound
  OBVIOUS
<1>1. /\ blocks \in Seq(BlockRecs) /\ Len(blocks) \in Nat /\ DOMAIN blocks = 1 .. Len(blocks)
      /\ \A k \in 1 .. Len(blocks) : /\ blocks[k] \in BlockRecs /\ SoundBlock(blocks[k])
                                     /\ k < Len(blocks) => HoldsSome(blocks[k])
  <2>1. blocks \in Seq(BlockRecs)
    BY DEF QueueInv, SoundBlocks
  <2>2. \A k \in 1 .. Len(blocks) : SoundBlock(blocks[k]) /\ (k < Len(blocks) => HoldsSome(blocks[k]))
    BY DEF QueueInv, SoundBlocks
  <2> QED BY <2>1, <2>2, LenProperties, ElementOfSeq
<1>2. ASSUME NEW b \in BlockRecs, SoundBlock(b)
      PROVE  /\ Len(b.buf) <= BlockSize /\ b.gone <= Len(b.buf)
             /\ HoldsSome(b) => Waiting(b) # <<>>
  <2>1. b.buf \in Seq(Bytes) /\ b.gone \in 0 .. BlockSize
    BY DEF BlockRecs
  <2>2. b.gone \in Nat /\ Len(b.buf) \in Nat /\ BlockSize \in Nat /\ Len(<<>>) = 0
    BY <2>1, OutQueueAssumption, LenProperties, EmptySeq
  <2>3. Len(b.buf) <= BlockSize /\ b.gone <= Len(b.buf)
    <3>1. CASE HoldsSome(b)
      BY <2>2, <3>1 DEF HoldsSome
    <3>2. CASE b.buf = <<>> /\ b.gone = 0
      BY <2>2, <3>2
    <3> QED BY <1>2, <3>1, <3>2 DEF SoundBlock
  <2>4. ASSUME HoldsSome(b) PROVE Waiting(b) # <<>>
    <3>1. Len(Waiting(b)) = Len(b.buf) - b.gone
      BY <2>3, WaitingIs
    <3>2. Len(b.buf) - b.gone # 0
      BY <2>2, <2>4 DEF HoldsSome
    <3> QED BY <2>2, <3>1, <3>2
  <2> QED BY <2>3, <2>4
<1>3. QueueTypeOK
  <2>1. blocks \in Seq([buf : Seq(Bytes), gone : 0 .. BlockSize])
    BY <1>1 DEF BlockRecs
  <2>2. \A k \in DOMAIN blocks : Len(blocks[k].buf) <= BlockSize
                                 /\ blocks[k].gone <= Len(blocks[k].buf)
    BY <1>1, <1>2
  <2>3. size \in Nat
    BY StreamIs DEF QueueInv
  <2> QED BY <2>1, <2>2, <2>3 DEF QueueInv, QueueTypeOK
<1>4. SizeIsWhatWaits
  <2>1. \A k \in 1 .. Len(blocks) - 1 : k \in 1 .. Len(blocks) /\ k < Len(blocks)
    BY <1>1
  <2> QED BY <1>1, <1>2, <2>1 DEF QueueInv, SizeIsWhatWaits
<1> QED BY <1>3, <1>4 DEF QueueInv, QueueSound

(* What siconn_printfv does: a is written at once and t is queued.         *)
SendsWell(n, a, t) ==
  /\ sent' = sent \o a /\ (a # <<>> => Stream = <<>>)
  /\ SoundBlocks(blocks') /\ Stream' = Stream \o t /\ size' = Len(Stream')
  /\ marred' = {} => marred = {} /\ a \o t = Line(Len(lines) + 1, n)

(* siconn_printfv does that, whatever write() takes and memory allows.     *)
LEMMA SendIs ==
  ASSUME QueueInv, NEW n \in 1 .. BlockSize, Send(n)
  PROVE  \E a \in Seq(Bytes), t \in Seq(Bytes) : SendsWell(n, a, t)
<1> DEFINE k == Len(lines) + 1
           l == Line(k, n)
<1>1. k \in 1 .. MaxLines
  <2>1. Len(lines) \in Nat
    BY LenProperties DEF QueueInv
  <2>2. Len(lines) < MaxLines
    BY DEF Send
  <2> QED BY <2>1, <2>2, OutQueueAssumption
<1>2. l \in Seq(Bytes) /\ Len(l) = n /\ n \in Nat
  <2> HIDE DEF k
  <2> QED BY <1>1, LineIs, OutQueueAssumption
<1>3. PICK w \in IF WritesAtOnce THEN 0 .. n ELSE {0}, news \in 0 .. 2 :
        LET rest == SubSeq(Line(k, n), w + 1, n)
            r == Queued(blocks, rest, news)
        IN  /\ lines' = Append(lines, n)
            /\ sent' = sent \o SubSeq(Line(k, n), 1, w)
            /\ IF w = n THEN UNCHANGED <<blocks, size, pollout, marred>>
               ELSE /\ blocks' = r.q /\ size' = size + r.n
                    /\ pollout' = (pollout \/ r.ok)
                    /\ marred' = IF r.whole THEN marred ELSE marred \cup {k}
  BY DEF Send
<1> DEFINE a == SubSeq(l, 1, w)
           s == SubSeq(l, w + 1, n)
           r == Queued(blocks, s, news)
<1> HIDE DEF k
<1>4. w \in 0 .. n /\ (w # 0 => WritesAtOnce)
  BY <1>2, <1>3
<1>5. /\ a \in Seq(Bytes) /\ s \in Seq(Bytes) /\ Len(a) = w /\ Len(s) = n - w /\ l = a \o s
  <2> HIDE DEF l
  <2>1. w \in 0 .. Len(l)
    BY <1>2, <1>4
  <2>2. /\ SubSeq(l, 1, w) \in Seq(Bytes) /\ SubSeq(l, w + 1, Len(l)) \in Seq(Bytes)
        /\ Len(SubSeq(l, 1, w)) = w /\ Len(SubSeq(l, w + 1, Len(l))) = Len(l) - w
        /\ l = SubSeq(l, 1, w) \o SubSeq(l, w + 1, Len(l))
    BY <1>2, <2>1, CutAt
  <2> QED BY <1>2, <2>2
<1>6. SoundBlocks(blocks) /\ size = Len(Stream) /\ Stream \in Seq(Bytes) /\ Len(Stream) \in Nat
  BY StreamIs DEF QueueInv
<1>7. a # <<>> => Stream = <<>>
  <2> SUFFICES ASSUME a # <<>> PROVE Stream = <<>>
    OBVIOUS
  <2>1. w # 0
    BY <1>5, EmptySeq
  <2>2. size = 0
    BY <1>4, <2>1 DEF WritesAtOnce
  <2> QED BY <1>6, <2>2, EmptySeq
<1>8. sent' = sent \o a
  BY <1>3
<1>9. CASE w = n
  <2>1. blocks' = blocks /\ size' = size /\ marred' = marred
    BY <1>3, <1>9
  <2>2. Stream' = Stream
    BY <2>1 DEF Stream
  <2>3. s = <<>>
    BY <1>2, <1>5, <1>9, EmptySeq
  <2>4. Stream \o <<>> = Stream /\ <<>> \in Seq(Bytes)
    BY <1>6, ConcatEmptySeq
  <2> HIDE DEF a, s, l
  <2>5. SendsWell(n, a, <<>>)
    BY <1>5, <1>6, <1>7, <1>8, <2>1, <2>2, <2>3, <2>4 DEF SendsWell, l, k
  <2> QED BY <1>5, <2>4, <2>5
<1>10. CASE w # n
  <2>1. s # <<>> /\ Len(s) <= BlockSize
    <3>1. n - w # 0 /\ n - w <= BlockSize
      BY <1>2, <1>4, <1>10, OutQueueAssumption
    <3> HIDE DEF s
    <3> QED BY <1>5, <3>1, EmptySeq
  <2>2. blocks' = r.q /\ size' = size + r.n /\ marred' = IF r.whole THEN marred ELSE marred \cup {k}
    BY <1>3, <1>10
  <2>3. SoundBlocks(r.q) /\ \E t \in Seq(Bytes) : /\ HeldIn(r.q) = HeldIn(blocks) \o t
                                                  /\ r.n = Len(t) /\ (r.whole => t = s)
    <3> HIDE DEF s
    <3> QED BY <1>5, <1>6, <2>1, QueuedIs
  <2> HIDE DEF a, s, l, r
  <2>4. PICK t \in Seq(Bytes) : /\ HeldIn(r.q) = HeldIn(blocks) \o t
                                /\ r.n = Len(t) /\ (r.whole => t = s)
    BY <2>3
  <2>5. Stream' = Stream \o t
    BY <2>2, <2>4 DEF Stream
  <2>6. size' = Len(Stream')
    <3>1. Len(Stream \o t) = Len(Stream) + Len(t)
      BY <1>6, ConcatProperties
    <3> QED BY <1>6, <2>2, <2>4, <2>5, <3>1
  <2>7. ASSUME marred' = {} PROVE marred = {} /\ a \o t = l
    <3>1. r.whole
      BY <2>2, <2>7
    <3> QED BY <1>5, <2>2, <2>4, <2>7, <3>1
  <2>8. SoundBlocks(blocks')
    BY <2>2, <2>3
  <2>9. SendsWell(n, a, t)
    BY <1>7, <1>8, <2>5, <2>6, <2>7, <2>8 DEF SendsWell, l, k
  <2> QED BY <1>5, <2>9
<1> QED BY <1>9, <1>10

(* siconn_printfv keeps the invariant.                                     *)
LEMMA SendKeeps ==
  ASSUME QueueInv, NEW n \in 1 .. BlockSize, Send(n)
  PROVE  QueueInv'
<1>1. PICK a \in Seq(Bytes), t \in Seq(Bytes) : SendsWell(n, a, t)
  BY SendIs
<1>2. Stream \in Seq(Bytes) /\ sent \in Seq(Bytes) /\ lines \in Seq(1 .. BlockSize)
  BY StreamIs DEF QueueInv
<1>3. /\ state' = state /\ state # "gone" /\ lines' = Append(lines, n)
      /\ Len(lines) < MaxLines /\ Len(lines) \in Nat
  BY <1>2, LenProperties DEF Send
<1>4. pollout' \in BOOLEAN /\ marred' \subseteq 1 .. MaxLines
  <2> DEFINE k == Len(lines) + 1
  <2>1. k \in 1 .. MaxLines
    BY <1>3, OutQueueAssumption
  <2>2. pollout \in BOOLEAN /\ marred \subseteq 1 .. MaxLines
    BY DEF QueueInv
  <2> DEFINE R(w, news) == Queued(blocks, SubSeq(Line(k, n), w + 1, n), news)
  <2>3. \E w, news :
          IF w = n THEN UNCHANGED <<blocks, size, pollout, marred>>
          ELSE /\ pollout' = (pollout \/ R(w, news).ok)
               /\ marred' = IF R(w, news).whole THEN marred ELSE marred \cup {k}
    <3>1. PICK w \in IF WritesAtOnce THEN 0 .. n ELSE {0}, news \in 0 .. 2 :
            LET rest == SubSeq(Line(k, n), w + 1, n)
                r == Queued(blocks, rest, news)
            IN  IF w = n THEN UNCHANGED <<blocks, size, pollout, marred>>
                ELSE /\ pollout' = (pollout \/ r.ok)
                     /\ marred' = IF r.whole THEN marred ELSE marred \cup {k}
      BY DEF Send
    <3> QED BY <3>1
  <2> HIDE DEF k, R
  <2>4. marred' = marred \/ marred' = marred \cup {k}
    BY <2>3
  <2>5. pollout' \in BOOLEAN
    BY <2>2, <2>3, ZenonT(20)
  <2> QED BY <2>1, <2>2, <2>4, <2>5
<1>5. lines' \in Seq(1 .. BlockSize) /\ Len(lines') = Len(lines) + 1 /\ Len(lines') <= MaxLines
  <2>1. lines' \in Seq(1 .. BlockSize) /\ Len(lines') = Len(lines) + 1
    BY <1>2, <1>3, AppendProperties
  <2> QED BY <1>3, <2>1, OutQueueAssumption
<1>6. SoundBlocks(blocks') /\ size' = Len(Stream') /\ sent' = sent \o a /\ Stream' = Stream \o t
  BY <1>1 DEF SendsWell
<1>7. sent' \in Seq(Bytes)
  BY <1>2, <1>6, ConcatProperties
<1>8. LinesInOrder'
  <2> SUFFICES ASSUME marred' = {} PROVE sent' \o Stream' = Printed(lines')
    BY DEF LinesInOrder
  <2> DEFINE l == Line(Len(lines) + 1, n)
             W == Stream
  <2>1. marred = {} /\ a \o t = l /\ (a # <<>> => W = <<>>)
    BY <1>1 DEF SendsWell
  <2>2. sent \o W = Printed(lines)
    BY <1>3, <2>1 DEF QueueInv, LinesInOrder
  <2>3. Printed(lines') = Printed(lines) \o l
    BY <1>2, <1>3, PrintedGrows DEF QueueInv
  <2>4. W \in Seq(Bytes)
    BY <1>2
  <2>5. sent' \o Stream' = (sent \o a) \o (W \o t)
    BY <1>6
  <2> HIDE DEF W, l
  <2>6. (sent \o a) \o (W \o t) = (sent \o W) \o (a \o t)
    <3> DEFINE u == W \o t
               v == a \o t
    <3>1. u \in Seq(Bytes) /\ v \in Seq(Bytes) /\ sent \in Seq(Bytes)
      BY <1>2, <2>4, ConcatProperties
    <3>2. (sent \o a) \o u = sent \o (a \o u)
      <4> HIDE DEF u
      <4> QED BY <3>1, ConcatAssociative
    <3>3. (sent \o W) \o v = sent \o (W \o v)
      <4> HIDE DEF v
      <4> QED BY <2>4, <3>1, ConcatAssociative
    <3>4. a \o (W \o t) = W \o (a \o t)
      <4>1. CASE a = <<>>
        BY <2>4, <3>1, <4>1, ConcatEmptySeq
      <4>2. CASE a # <<>>
        <5>1. W = <<>>
          BY <2>1, <4>2
        <5> QED BY <3>1, <5>1, ConcatEmptySeq
      <4> QED BY <4>1, <4>2
    <3> QED BY <3>2, <3>3, <3>4
  <2> QED BY <2>1, <2>2, <2>3, <2>5, <2>6
<1> QED BY <1>3, <1>4, <1>5, <1>6, <1>7, <1>8 DEF QueueInv

(* What siconn_flush does: it sends x, which was the first to wait.        *)
FlushesWell(x, y) ==
  /\ Stream = x \o y /\ x # <<>>
  /\ sent' = sent \o x /\ Stream' = y
  /\ SoundBlocks(blocks') /\ size' = Len(Stream')

(* siconn_flush does that, or changes nothing in the queue.                *)
LEMMA FlushIs ==
  ASSUME QueueInv, Flush
  PROVE  \/ UNCHANGED <<blocks, size, sent>>
         \/ \E x \in Seq(Bytes), y \in Seq(Bytes) : FlushesWell(x, y)
<1> DEFINE o == Offered(blocks)
<1>1. SoundBlocks(blocks) /\ size = Len(Stream) /\ Stream \in Seq(Bytes)
  BY StreamIs DEF QueueInv
<1>2. PICK z \in Seq(Bytes) : o \in Seq(Bytes) /\ Stream = o \o z
  BY <1>1, OfferedIs DEF Stream
<1>3. CASE o = <<>>
  BY <1>3 DEF Flush
<1>4. CASE o # <<>>
  <2>1. PICK n \in 1 .. Len(o) :
          sent' = sent \o SubSeq(o, 1, n) /\ blocks' = Taken(blocks, n) /\ size' = size - n
    BY <1>4 DEF Flush
  <2> HIDE DEF o
  <2>2. Len(o) \in Nat /\ Len(z) \in Nat /\ Len(Stream) = Len(o) + Len(z)
    BY <1>2, LenProperties, ConcatProperties
  <2>3. n \in 1 .. Len(Stream)
    BY <2>2
  <2>4. /\ SoundBlocks(Taken(blocks, n))
        /\ \E x \in Seq(Bytes), y \in Seq(Bytes) :
             Stream = x \o y /\ Len(x) = n /\ HeldIn(Taken(blocks, n)) = y
    <3>1. n \in 1 .. Len(HeldIn(blocks))
      BY <2>3 DEF Stream
    <3> QED BY <1>1, <3>1, TakenIs DEF Stream
  <2>5. PICK x \in Seq(Bytes), y \in Seq(Bytes) :
          Stream = x \o y /\ Len(x) = n /\ HeldIn(Taken(blocks, n)) = y
    BY <2>4
  <2>6. Stream' = y
    BY <2>1, <2>5 DEF Stream
  <2>7. SubSeq(o, 1, n) = x
    <3>1. SubSeq(Stream, 1, n) = x
      BY <2>5, CutBetween
    <3>2. SubSeq(o \o z, 1, n) = SubSeq(o, 1, n)
      <4>1. 1 \in 1 .. Len(o) /\ n \in 1 .. Len(o)
        BY <2>2
      <4> QED BY <1>2, <4>1, SubSeqOfConcat1
    <3> QED BY <1>2, <3>1, <3>2
  <2>8. x # <<>>
    <3>1. n # 0
      OBVIOUS
    <3> QED BY <2>5, <3>1, EmptySeq
  <2>9. size' = Len(Stream')
    <3>1. Len(Stream) = Len(x) + Len(y) /\ Len(y) \in Nat
      BY <2>5, ConcatProperties, LenProperties
    <3> QED BY <1>1, <2>1, <2>5, <2>6, <3>1
  <2>10. FlushesWell(x, y)
    BY <2>1, <2>4, <2>5, <2>6, <2>7, <2>8, <2>9 DEF FlushesWell
  <2> QED BY <2>10
<1> QED BY <1>3, <1>4

(* siconn_flush keeps the invariant.                                       *)
LEMMA FlushKeeps == ASSUME QueueInv, Flush PROVE QueueInv'
<1>1. state' = "up" /\ state # "gone" /\ lines' = lines /\ marred' = marred
  BY DEF Flush
<1>2. pollout' \in BOOLEAN
  <2>1. pollout' = FALSE \/ \E n : pollout' = (size # n)
    BY DEF Flush
  <2> QED BY <2>1
<1>3. CASE UNCHANGED <<blocks, size, sent>>
  <2>1. Stream' = Stream
    BY <1>3 DEF Stream
  <2>2. LinesInOrder'
    BY <1>1, <1>3, <2>1 DEF QueueInv, LinesInOrder
  <2> QED BY <1>1, <1>2, <1>3, <2>1, <2>2 DEF QueueInv
<1>4. ASSUME NEW x \in Seq(Bytes), NEW y \in Seq(Bytes), FlushesWell(x, y) PROVE QueueInv'
  <2>1. sent \in Seq(Bytes)
    BY DEF QueueInv
  <2>2. sent' = sent \o x /\ Stream = x \o y /\ Stream' = y
    BY <1>4 DEF FlushesWell
  <2>3. sent' \in Seq(Bytes)
    BY <2>1, <2>2, ConcatProperties
  <2>4. sent' \o Stream' = sent \o Stream
    <3>1. (sent \o x) \o y = sent \o (x \o y)
      BY <2>1, ConcatAssociative
    <3> QED BY <2>2, <3>1
  <2>5. LinesInOrder'
    BY <1>1, <2>4 DEF QueueInv, LinesInOrder
  <2> QED BY <1>1, <1>2, <1>4, <2>3, <2>5 DEF QueueInv, FlushesWell
<1> QED BY <1>3, <1>4, FlushIs

(* siconn_del keeps the invariant.                                         *)
LEMMA CloseKeeps == ASSUME QueueInv, Close PROVE QueueInv'
<1>1. /\ state' = "gone" /\ blocks' = <<>> /\ size' = 0 /\ pollout' = FALSE
      /\ sent' = sent /\ lines' = lines /\ marred' = marred
  BY DEF Close
<1>2. SoundBlocks(blocks') /\ Stream' = <<>> /\ Len(<<>>) = 0
  BY <1>1, FreshHolds, EmptySeq DEF Stream
<1> QED BY <1>1, <1>2 DEF QueueInv, LinesInOrder

(* The invariant holds at first.                                           *)
LEMMA QueueStarts == QueueInit => QueueInv
<1> SUFFICES ASSUME QueueInit PROVE QueueInv
  OBVIOUS
<1>1. /\ state \in {"connecting", "up"} /\ blocks = <<>> /\ size = 0
      /\ pollout = (state = "connecting") /\ sent = <<>> /\ lines = <<>> /\ marred = {}
  BY DEF QueueInit
<1>2. SoundBlocks(blocks) /\ Stream = <<>> /\ Len(<<>>) = 0
  BY <1>1, FreshHolds, EmptySeq DEF Stream
<1>3. Printed(<<>>) = <<>> /\ <<>> \in Seq(1 .. BlockSize) /\ <<>> \in Seq(Bytes) /\ 0 <= MaxLines
  <2>1. <<>> \in Seq(1 .. BlockSize) /\ Len(<<>>) <= MaxLines
    BY <1>2, OutQueueAssumption
  <2> QED BY <1>2, <2>1, PrintedGrows
<1>4. <<>> \o <<>> = <<>>
  OBVIOUS
<1>5. LinesInOrder
  BY <1>1, <1>2, <1>3, <1>4 DEF LinesInOrder
<1>6. pollout \in BOOLEAN
  BY <1>1
<1> QED BY <1>1, <1>2, <1>3, <1>5, <1>6 DEF QueueInv

(* Every step keeps it.                                                    *)
LEMMA QueueSteps == QueueInv /\ [QueueNext]_queueVars => QueueInv'
<1> SUFFICES ASSUME QueueInv, [QueueNext]_queueVars PROVE QueueInv'
  OBVIOUS
<1>1. CASE \E n \in 1 .. BlockSize : Send(n)
  BY <1>1, SendKeeps
<1>2. CASE Flush
  BY <1>2, FlushKeeps
<1>3. CASE Close
  BY <1>3, CloseKeeps
<1>4. CASE UNCHANGED queueVars
  <2>1. /\ state' = state /\ blocks' = blocks /\ size' = size /\ pollout' = pollout
        /\ sent' = sent /\ lines' = lines /\ marred' = marred
    BY <1>4 DEF queueVars
  <2>2. Stream' = Stream
    BY <2>1 DEF Stream
  <2> QED BY <2>1, <2>2 DEF QueueInv, LinesInOrder
<1> QED BY <1>1, <1>2, <1>3, <1>4 DEF QueueNext

(* The queue agrees with the lines that were printed, always: nothing that *)
(* waits is lost, sent twice or out of its order by siqueue_add and        *)
(* siqueue_del, whatever each write takes.                                 *)
THEOREM QueuesAreSound == QueueSpec => []QueueSound
<1>1. QueueSpec => []QueueInv
  BY QueueStarts, QueueSteps, PTL DEF QueueSpec
<1> QED BY <1>1, InvMeans, PTL

(* Every step of the output queue is one of a plain queue of bytes.        *)
THEOREM QueuesImplementBytes == QueueSpec => ImplementsByteQueue
<1>1. QueueInit => Queue!Init
  <2> SUFFICES ASSUME QueueInit PROVE Queue!Init
    OBVIOUS
  <2>1. Stream = <<>>
    BY FreshHolds DEF QueueInit, Stream
  <2> QED BY <2>1 DEF QueueInit, Queue!Init
<1>2. QueueInv /\ [QueueNext]_queueVars => [Queue!Next]_Queue!vars
  <2> SUFFICES ASSUME QueueInv, [QueueNext]_queueVars PROVE [Queue!Next]_Queue!vars
    OBVIOUS
  <2>1. Stream \in Seq(Bytes) /\ sent \in Seq(Bytes) /\ Len(Stream) \in Nat
    BY StreamIs DEF QueueInv
  <2>2. ASSUME NEW S, NEW u \in Seq(S), NEW v \in Seq(S) PROVE Queue!IsPrefix(u, u \o v)
    <3>1. Len(u) \in Nat /\ Len(v) \in Nat /\ Len(u \o v) = Len(u) + Len(v)
      BY LenProperties, ConcatProperties
    <3>2. SubSeq(u \o v, 1, Len(u)) = u /\ SubSeq(u, 1, Len(u)) = u
      BY CutBetween, SubSeqFull
    <3> QED BY <3>1, <3>2 DEF Queue!IsPrefix
  <2>3. CASE \E n \in 1 .. BlockSize : Send(n)
    <3>1. PICK n \in 1 .. BlockSize : Send(n)
      BY <2>3
    <3>2. PICK a \in Seq(Bytes), t \in Seq(Bytes) : SendsWell(n, a, t)
      BY <3>1, SendIs
    <3>3. /\ sent' = sent \o a /\ (a # <<>> => Stream = <<>>) /\ Stream' = Stream \o t
          /\ state # "gone" /\ state' = state
      BY <3>1, <3>2 DEF SendsWell, Send
    <3>4. Stream' \in Seq(Bytes) /\ sent' \in Seq(Bytes)
      BY <2>1, <3>3, ConcatProperties
    <3>5. Queue!IsPrefix(Stream, Stream') /\ Queue!IsPrefix(sent, sent')
      BY <2>1, <2>2, <3>3
    <3>6. sent' # sent => Stream = <<>>
      <4>1. sent \o <<>> = sent
        BY <2>1, ConcatEmptySeq
      <4> QED BY <3>3, <4>1
    <3>7. Queue!Give
      BY <3>4, <3>5, <3>6 DEF Queue!Give
    <3> QED BY <3>3, <3>7 DEF Queue!Next
  <2>4. CASE Flush
    <3>1. state' = "up" /\ state # "gone"
      BY <2>4 DEF Flush
    <3>2. CASE UNCHANGED <<blocks, size, sent>>
      <4>1. Stream' = Stream
        BY <3>2 DEF Stream
      <4> QED BY <3>1, <3>2, <4>1 DEF Queue!vars
    <3>3. ASSUME NEW x \in Seq(Bytes), NEW y \in Seq(Bytes), FlushesWell(x, y)
          PROVE  Queue!Next
      <4>1. Stream = x \o y /\ x # <<>> /\ sent' = sent \o x /\ Stream' = y
        BY <3>3 DEF FlushesWell
      <4>2. SubSeq(Stream, 1, Len(x)) = x /\ SubSeq(Stream, Len(x) + 1, Len(Stream)) = y
        BY <4>1, CutBetween
      <4>3. Len(x) \in 1 .. Len(Stream)
        <5>1. Len(x) \in Nat /\ Len(y) \in Nat /\ Len(Stream) = Len(x) + Len(y) /\ Len(x) # 0
          BY <4>1, LenProperties, ConcatProperties, EmptySeq
        <5> QED BY <5>1
      <4> QED BY <3>1, <4>1, <4>2, <4>3 DEF Queue!Next, Queue!Take
    <3> QED BY <2>4, <3>2, <3>3, FlushIs
  <2>5. CASE Close
    <3>1. Stream' = <<>> /\ sent' = sent /\ state' = "gone" /\ state # "gone"
      BY <2>5, FreshHolds DEF Close, Stream
    <3> QED BY <3>1 DEF Queue!Next, Queue!Close
  <2>6. CASE UNCHANGED queueVars
    <3>1. blocks' = blocks /\ sent' = sent /\ state' = state
      BY <2>6 DEF queueVars
    <3>2. Stream' = Stream
      BY <3>1 DEF Stream
    <3> QED BY <3>1, <3>2 DEF Queue!vars
  <2> QED BY <2>3, <2>4, <2>5, <2>6 DEF QueueNext
<1>3. QueueSpec => []QueueInv
  BY QueueStarts, QueueSteps, PTL DEF QueueSpec
<1> QED BY <1>1, <1>2, <1>3, PTL DEF QueueSpec, ImplementsByteQueue, Queue!Spec
=============================================================================
