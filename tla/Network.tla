------------------------------- MODULE Network -------------------------------
(***************************************************************************)
(* What services know of the network (daemon/hash.c), and how the lines    *)
(* from the servers they are linked to change it (daemon/commands.c): the  *)
(* tree of servers and users, the hash they are looked up in, channels     *)
(* with their members, opers, the uplink, and the module clients ("jupes") *)
(* that services introduce themselves.                                     *)
(*                                                                         *)
(* A line is one step.  All names are in one bucket of the hash, the worst *)
(* case, and the bucket is the doubly linked list it is in the code.  An   *)
(* address may be used again once it has been freed.  Who follows a        *)
(* pointer to memory that is free is wild, and nothing is said of what     *)
(* comes next.                                                             *)
(*                                                                         *)
(* Timestamps and userhosts decide who survives a nick collision; here     *)
(* either may.  The modes and ops of a channel are in Chanfix.             *)
(* Every line names a prefix from the side of the network it comes from,   *)
(* and no server or user takes the name of services.                       *)
(***************************************************************************)
EXTENDS Chains, FiniteSetsExt, Functions

CONSTANTS
  Conns,        \* connections there can be at one time
  Ids,          \* addresses of client structures
  ServerNames, Nicks,
  Channels,
  Jupable,      \* names a module may register a client for
  NULL,
  MaxStrikes    \* bound: removals of module clients by the network

ASSUME NetworkAssumption ==
  /\ NULL \notin Ids \cup Conns /\ IsFiniteSet(Ids) /\ IsFiniteSet(Conns)
  /\ ServerNames \cap Nicks = {} /\ Jupable \subseteq ServerNames \cup Nicks
  /\ MaxStrikes \in Nat

VARIABLES
  cli,       \* the SI_CLIENT structures in memory, by address (SIMe is not)
  head,      \* CLIENT_HASH: the first of the bucket
  uplink,    \* SIUplink
  conn,      \* what is at the other end: nobody, someone unregistered, a server
  chans,     \* the channels, each with the set of its members
  opers,     \* SIOpers
  bursting,  \* SIStats.st_serversbursting
  servers,   \* SIStats.st_numgservers
  links,     \* SIStats.st_nummservers
  held,      \* the module clients that each connection's side has been told of
  strikes,   \* module clients that the network removed
  wild       \* memory that is free was used

netvars == <<cli, head, uplink, conn, chans, opers, bursting, servers, links,
             held, strikes, wild>>

-----------------------------------------------------------------------------
IsServer(i) == cli[i].kind = "server"
IsLocal(i) == IsServer(i) /\ cli[i].parent = NULL /\ ~ cli[i].jupe
HasJupes == {i \in DOMAIN cli : cli[i].jupe}

(* The bucket, as a walk along c_h_next from its head: the addresses that  *)
(* are met, as far as they lead to memory that is in use.                  *)
Bucket(s) ==
  LET at[k \in 0 .. Cardinality(Ids)] ==
        IF k = 0 THEN s.head
        ELSE IF at[k - 1] \in DOMAIN s.cli THEN s.cli[at[k - 1]].hnext ELSE NULL
      met == {k \in 0 .. Cardinality(Ids) : at[k] # NULL}
  IN  [k \in 1 .. Cardinality(met) |-> at[k - 1]]

(* The walk meets memory that is free, or the same structure again.        *)
Broken(s) ==
  ~ (Elements(Bucket(s)) \subseteq DOMAIN s.cli /\ NoTwice(Bucket(s)))

Hash == [cli |-> cli, head |-> head, wild |-> wild]

(* siclient_find, as the set of the one it finds.                          *)
Find(n) ==
  LET met == Bucket(Hash)
      hits == {k \in 1 .. Len(met) : cli[met[k]].name = n}
  IN  {met[k] : k \in {k \in hits : \A l \in hits : k <= l}}

(* Variant: the structure behind is not told who is in front of it now. *)
PushedHalf(s, i, r) ==
  [s EXCEPT !.head = i,
            !.cli = [j \in DOMAIN s.cli \cup {i} |->
                       IF j = i THEN [r EXCEPT !.hnext = s.head, !.hprev = NULL] ELSE s.cli[j]]]

(* siclient_hash_add of a structure r at address i.                        *)
Pushed(s, i, r) ==
  [s EXCEPT !.head = i,
            !.cli = [j \in DOMAIN s.cli \cup {i} |->
                       IF j = i THEN [r EXCEPT !.hnext = s.head, !.hprev = NULL]
                       ELSE IF j = s.head THEN [s.cli[j] EXCEPT !.hprev = i]
                       ELSE s.cli[j]]]

(* siclient_hash_del: whoever c_h_prev and c_h_next name are joined, and   *)
(* the structure itself keeps both.                                        *)
Unlinked(s, i) ==
  LET p == s.cli[i].hprev
      n == s.cli[i].hnext
  IN  [head |-> IF p = NULL THEN n ELSE s.head,
       cli |-> [j \in DOMAIN s.cli |->
                  [s.cli[j] EXCEPT !.hnext = IF j = p THEN n ELSE @,
                                   !.hprev = IF j = n THEN p ELSE @]],
       wild |-> s.wild \/ ~ {p, n} \subseteq DOMAIN s.cli \cup {NULL}]

(* Variant: the memory is freed and the hash keeps it. *)
FreedFromHeap(s, D) == [s EXCEPT !.cli = Restrict(@, DOMAIN s.cli \ D)]

(* The hash after all of D were taken out of it and freed.                 *)
FreedFrom(s, D) ==
  LET out == FoldSet(LAMBDA i, t : Unlinked(t, i), s, D)
  IN  [out EXCEPT !.cli = Restrict(@, DOMAIN s.cli \ D)]

NowHash(s) == cli' = s.cli /\ head' = s.head /\ wild' = (s.wild \/ Broken(s))

(* Variant: a server goes without those behind it. *)
BehindAlone(i) == {i}

(* siclient_free frees what is behind a server first: the least set with i *)
(* that, with a server, has all that are on it and all that it leads to.   *)
Behind(i) ==
  {j \in DOMAIN cli :
     \A S \in SUBSET DOMAIN cli :
       i \in S /\ (\A k \in DOMAIN cli : cli[k].parent \in S => k \in S) => j \in S}

(* siclient_del_channels of all of D: a channel goes with its last member. *)
Without(D) ==
  LET emptied == {c \in DOMAIN chans : chans[c] # {} /\ chans[c] \subseteq D}
  IN  [c \in DOMAIN chans \ emptied |-> chans[c] \ D]

(* Variant: only the servers that have ended their burst are counted out. *)
StillBurstingNone(D) == 0

StillBursting(D) == Cardinality({i \in D : cli[i].burst = "sent"})

(* Variant: an oper's structure goes and SIOpers keeps it. *)
OpersWithoutNone(D) == opers

OpersWithout(D) == Keep(opers, Elements(opers) \ D)

(* The whole of siclient_free, for the structures D of servers and users   *)
(* that are not jupes and of those behind them.                            *)
Freed(s, D) ==
  /\ NowHash(FreedFrom(s, D))
  /\ chans' = Without(D)
  /\ opers' = OpersWithout(D)
  /\ bursting' = bursting - StillBursting(D)
  /\ servers' = servers - Cardinality({i \in D : IsServer(i)})
  /\ links' = links - Cardinality({i \in D : IsLocal(i)})

(* siclient_send_jupe goes to the uplink, if there is one.                 *)
Told(h, u, ns) ==
  IF u = NULL THEN h ELSE [h EXCEPT ![cli[u].from] = @ \cup ns]
-----------------------------------------------------------------------------
NetworkInit ==
  /\ cli = <<>> /\ head = NULL /\ uplink = NULL
  /\ conn = [c \in Conns |-> "none"]
  /\ chans = <<>> /\ opers = <<>>
  /\ bursting = 0 /\ servers = 1 /\ links = 1
  /\ held = [c \in Conns |-> {}]
  /\ strikes = 0 /\ wild = FALSE

(* A connection is made, or accepted.                                      *)
Connect(c) ==
  /\ ~ wild /\ conn[c] = "none"
  /\ conn' = [conn EXCEPT ![c] = "unknown"]
  /\ UNCHANGED <<cli, head, uplink, chans, opers, bursting, servers, links,
                 held, strikes, wild>>

(* It ends before a server has registered: end of file, a line that only   *)
(* a registered server may send, SERVER without what it needs.             *)
DropUnknown(c) ==
  /\ ~ wild /\ conn[c] = "unknown"
  /\ conn' = [conn EXCEPT ![c] = "none"]
  /\ UNCHANGED <<cli, head, uplink, chans, opers, bursting, servers, links,
                 held, strikes, wild>>

NewServer(n, p, c, b) ==
  [name |-> n, kind |-> "server", parent |-> p, from |-> c, jupe |-> FALSE,
   oper |-> FALSE, burst |-> b, hnext |-> NULL, hprev |-> NULL]

(* SERVER on a new connection.  The server becomes the uplink before it    *)
(* is looked for in the configuration.                                     *)
Register(c, n) ==
  /\ ~ wild /\ conn[c] = "unknown" /\ Find(n) = {}
  /\ \E i \in Ids \ DOMAIN cli :
       /\ NowHash(Pushed(Hash, i, NewServer(n, NULL, c, "sent")))
       /\ uplink' = i
  /\ conn' = [conn EXCEPT ![c] = "server"]
  /\ held' = [held EXCEPT ![c] = {cli[i].name : i \in HasJupes}]
  /\ bursting' = bursting + 1 /\ servers' = servers + 1 /\ links' = links + 1
  /\ UNCHANGED <<chans, opers, strikes>>

(* It is not in the configuration, or the password is wrong: it goes       *)
(* again, and takes the uplink with it.                                    *)
RegisterRefused(c, n) ==
  /\ ~ wild /\ conn[c] = "unknown" /\ Find(n) = {}
  /\ Ids \ DOMAIN cli # {}
  /\ uplink' = NULL
  /\ conn' = [conn EXCEPT ![c] = "none"]
  /\ UNCHANGED <<cli, head, chans, opers, bursting, servers, links, held,
                 strikes, wild>>

(* siconn_del of a server's connection.                                    *)
Unplug(c) ==
  \E i \in DOMAIN cli :
    /\ IsLocal(i) /\ cli[i].from = c
    /\ Freed(Hash, Behind(i))
    /\ uplink' = IF uplink = i THEN NULL ELSE uplink
    /\ conn' = [conn EXCEPT ![c] = "none"]
    /\ held' = [held EXCEPT ![c] = {}]
    /\ UNCHANGED strikes

(* The connection of a server ends: end of file, ERROR, SQUIT or QUIT of   *)
(* the server itself, a prefix nobody has, memory that has run out.        *)
Lose(c) == ~ wild /\ conn[c] = "server" /\ Unplug(c)

(* SERVER n behind the server p.  A name that is taken, by a jupe as well, *)
(* costs the link.                                                         *)
Introduce(p, n) ==
  /\ ~ wild /\ p \in DOMAIN cli /\ IsServer(p) /\ ~ cli[p].jupe
  /\ IF Find(n) # {} THEN Unplug(cli[p].from)
     ELSE /\ \E i \in Ids \ DOMAIN cli :
               NowHash(Pushed(Hash, i, NewServer(n, p, cli[p].from, "sent")))
          /\ bursting' = bursting + 1 /\ servers' = servers + 1
          /\ UNCHANGED <<uplink, conn, chans, opers, links, held, strikes>>

(* NICK n from the server p: someone new, unless a jupe holds the nick, or *)
(* the one who holds it stays.                                             *)
NewNick(p, n, o) ==
  /\ ~ wild /\ p \in DOMAIN cli /\ IsServer(p) /\ ~ cli[p].jupe
  /\ LET r == [name |-> n, kind |-> "user", parent |-> p, from |-> cli[p].from,
               jupe |-> FALSE, oper |-> o, burst |-> "no",
               hnext |-> NULL, hprev |-> NULL]
         D == Find(n)
         left == FreedFrom(Hash, D)
     IN  IF D \cap HasJupes # {}
         THEN /\ held' = Told([held EXCEPT ![cli[p].from] = @ \ {n}], uplink, {n})
              /\ UNCHANGED <<cli, head, chans, opers, wild>>
         ELSE \E i \in Ids \ DOMAIN left.cli :
                /\ NowHash(Pushed(left, i, r))
                /\ chans' = Without(D)
                /\ opers' = IF o THEN PushFront(i, OpersWithout(D)) ELSE OpersWithout(D)
                /\ UNCHANGED held
  /\ UNCHANGED <<uplink, conn, bursting, servers, links, strikes>>

Speaks(u) == u \in DOMAIN cli /\ ~ IsServer(u) /\ ~ cli[u].jupe /\ u \in Find(cli[u].name)

(* Memory that is free is followed, and nothing is known any more.         *)
GoesWild ==
  /\ wild' = TRUE
  /\ UNCHANGED <<cli, head, uplink, conn, chans, opers, bursting, servers, links,
                 held, strikes>>

(* SERVER n from a user: a name that is taken costs the link, and any other *)
(* does too, but for the return that is missing: the connection, with the  *)
(* user and all others behind it, is freed and the server still added.     *)
UserIntroduces(u, n) ==
  /\ ~ wild /\ Speaks(u)
  /\ IF Find(n) # {} THEN Unplug(cli[u].from) ELSE GoesWild

(* NICK n from a user.  One who loses the nick to a jupe, or to another    *)
(* user, is freed and then used: the userhost is compared, and after a     *)
(* collision everything else is too.                                       *)
ChangeNick(u, n) ==
  /\ ~ wild /\ Speaks(u) /\ n # cli[u].name
  /\ \/ /\ Find(n) \cap HasJupes = {}
        /\ NowHash(Pushed(FreedFrom(FreedFrom(Hash, Find(n)), {u}), u,
                          [cli[u] EXCEPT !.name = n]))
        /\ chans' = Without(Find(n)) /\ opers' = OpersWithout(Find(n))
        /\ UNCHANGED <<bursting, servers, links, held>>
     \/ /\ Find(n) \cap HasJupes # {}
        /\ Freed(Hash, {u})
        /\ held' = Told([held EXCEPT ![cli[u].from] = @ \ {n}], uplink, {n})
     \/ /\ Find(n) # {}
        /\ wild' = TRUE
        /\ UNCHANGED <<cli, head, chans, opers, bursting, servers, links, held>>
  /\ UNCHANGED <<uplink, conn, strikes>>

(* MODE +o or -o of a user by itself.                                      *)
Umode(u) ==
  /\ ~ wild /\ Speaks(u)
  /\ cli' = [cli EXCEPT ![u].oper = ~ @]
  /\ opers' = IF cli[u].oper THEN OpersWithout({u}) ELSE PushFront(u, opers)
  /\ UNCHANGED <<head, uplink, conn, chans, bursting, servers, links, held,
                 strikes, wild>>

(* SJOIN: those of the nicks that are users of that side join; a channel   *)
(* that is new stays, even if nobody did.                                  *)
Sjoin(c, ch, ns) ==
  /\ ~ wild /\ conn[c] = "server"
  /\ LET joined == {i \in UNION {Find(n) : n \in ns} : cli[i].from = c}
         before == IF ch \in DOMAIN chans THEN chans[ch] ELSE {}
     IN  chans' = [k \in DOMAIN chans \cup {ch} |->
                     IF k = ch THEN before \cup joined ELSE chans[k]]
  /\ UNCHANGED <<cli, head, uplink, conn, opers, bursting, servers, links,
                 held, strikes, wild>>

(* Variant: the count of members is not looked at. *)
KickedStays(ch, D) ==
  /\ ~ wild
  /\ chans' = [chans EXCEPT ![ch] = @ \ D]
  /\ UNCHANGED <<cli, head, uplink, conn, opers, bursting, servers, links,
                 held, strikes, wild>>

(* PART, KICK and, of one user and every channel, JOIN 0.                  *)
Kicked(ch, D) ==
  /\ ~ wild
  /\ LET left == chans[ch] \ D
     IN  chans' = IF chans[ch] \cap D # {} /\ left = {}
                  THEN Restrict(chans, DOMAIN chans \ {ch})
                  ELSE [chans EXCEPT ![ch] = left]
  /\ UNCHANGED <<cli, head, uplink, conn, opers, bursting, servers, links,
                 held, strikes, wild>>

JoinZero(u) ==
  /\ ~ wild /\ Speaks(u)
  /\ chans' = Without({u})
  /\ UNCHANGED <<cli, head, uplink, conn, opers, bursting, servers, links,
                 held, strikes, wild>>

(* Variant: the jupe is not sent again. *)
StruckOut(c, i) ==
  /\ strikes < MaxStrikes /\ strikes' = strikes + 1
  /\ NowHash(Unlinked(Hash, i))
  /\ chans' = Without({i})
  /\ held' = [held EXCEPT ![c] = @ \ {cli[i].name}]
  /\ UNCHANGED <<uplink, conn, opers, bursting, servers, links>>

(* siclient_free of a module client that the network, on the side of c,    *)
(* has removed: it is taken out of the hash and sent again.                *)
Struck(c, i) ==
  /\ strikes < MaxStrikes /\ strikes' = strikes + 1
  /\ NowHash(Unlinked(Hash, i))
  /\ chans' = Without({i})
  /\ held' = Told([held EXCEPT ![c] = @ \ {cli[i].name}], uplink, {cli[i].name})
  /\ UNCHANGED <<uplink, conn, opers, bursting, servers, links>>

(* QUIT and KILL.  A victim that is not found has gone from the network    *)
(* all the same.                                                           *)
Kill(c, n) ==
  /\ ~ wild /\ conn[c] = "server"
  /\ \/ \E i \in Find(n) :
          IF cli[i].jupe THEN Struck(c, i)
          ELSE Freed(Hash, {i}) /\ UNCHANGED <<uplink, conn, held, strikes>>
     \/ /\ Find(n) = {}
        /\ held' = [held EXCEPT ![c] = @ \ {n}]
        /\ UNCHANGED <<cli, head, uplink, conn, chans, opers, bursting, servers,
                       links, strikes, wild>>

(* SQUIT: by the hash, else by a walk along SIServers.                     *)
Squit(c, n) ==
  /\ ~ wild /\ conn[c] = "server"
  /\ \E i \in DOMAIN cli :
       /\ IsServer(i) /\ cli[i].name = n
       /\ Find(n) # {} => i \in Find(n)
       /\ IF cli[i].jupe THEN Struck(c, i)
          ELSE IF IsLocal(i) THEN Unplug(cli[i].from)
          ELSE Freed(Hash, Behind(i)) /\ UNCHANGED <<uplink, conn, held, strikes>>

(* SQUIT of services by their own name, which the hash has too: their own  *)
(* structure, SIMeBuf, is freed, after all that is behind it.              *)
SquitServices(c) == ~ wild /\ conn[c] = "server" /\ GoesWild

(* Variant: every PONG counts. *)
PongAgain(i) ==
  /\ ~ wild /\ i \in DOMAIN cli /\ IsServer(i) /\ ~ cli[i].jupe /\ bursting > 0
  /\ cli' = [cli EXCEPT ![i].burst = "got"]
  /\ bursting' = bursting - 1
  /\ UNCHANGED <<head, uplink, conn, chans, opers, servers, links, held, strikes, wild>>

(* A PONG, or a numeric, of a server that has not ended its burst.         *)
Pong(i) ==
  /\ ~ wild /\ i \in DOMAIN cli /\ cli[i].burst = "sent" /\ i \in Find(cli[i].name)
  /\ cli' = [cli EXCEPT ![i].burst = "got"]
  /\ bursting' = bursting - 1
  /\ UNCHANGED <<head, uplink, conn, chans, opers, servers, links, held, strikes, wild>>

(* simodule_add_client of a name for which there is no module client yet.  *)
(* JUPE refuses the name of the uplink.                                    *)
AddJupe(n, o) ==
  /\ ~ wild
  /\ \A i \in HasJupes : cli[i].name # n
  /\ uplink # NULL => cli[uplink].name # n
  /\ \E i \in Ids \ DOMAIN cli :
       /\ NowHash(Pushed(Hash, i,
            [name |-> n, kind |-> IF n \in ServerNames THEN "server" ELSE "user",
             parent |-> NULL, from |-> NULL, jupe |-> TRUE, oper |-> o, burst |-> "no",
             hnext |-> NULL, hprev |-> NULL]))
       /\ opers' = IF o THEN PushFront(i, opers) ELSE opers
  /\ held' = Told(held, uplink, {n})
  /\ servers' = IF n \in ServerNames THEN servers + 1 ELSE servers
  /\ UNCHANGED <<uplink, conn, chans, bursting, links, strikes>>

(* The last module of a module client is unloaded, or it is unjuped.       *)
DelJupe(i) ==
  /\ ~ wild /\ i \in HasJupes
  /\ Freed(Hash, {i})
  /\ held' = IF uplink = NULL THEN held
             ELSE [held EXCEPT ![cli[uplink].from] = @ \ {cli[i].name}]
  /\ UNCHANGED <<uplink, conn, strikes>>

(* Services die, at the latest when they are wild, and are started again.  *)
Restart ==
  /\ cli' = <<>> /\ head' = NULL /\ uplink' = NULL
  /\ conn' = [c \in Conns |-> "none"]
  /\ chans' = <<>> /\ opers' = <<>>
  /\ bursting' = 0 /\ servers' = 1 /\ links' = 1
  /\ held' = [c \in Conns |-> {}]
  /\ strikes' = 0 /\ wild' = FALSE

NetworkNext ==
  \/ Restart
  \/ \E c \in Conns : Connect(c) \/ DropUnknown(c) \/ Lose(c) \/ SquitServices(c)
  \/ \E c \in Conns, n \in ServerNames :
       Register(c, n) \/ RegisterRefused(c, n) \/ Squit(c, n)
  \/ \E p \in DOMAIN cli, n \in ServerNames : Introduce(p, n) \/ UserIntroduces(p, n)
  \/ \E p \in DOMAIN cli, n \in Nicks, o \in BOOLEAN : NewNick(p, n, o)
  \/ \E u \in DOMAIN cli, n \in Nicks : ChangeNick(u, n)
  \/ \E u \in DOMAIN cli : Umode(u) \/ JoinZero(u) \/ Pong(u)
  \/ \E c \in Conns, ch \in Channels, ns \in SUBSET Nicks : Sjoin(c, ch, ns)
  \/ \E ch \in DOMAIN chans : \E D \in SUBSET chans[ch] : Kicked(ch, D)
  \/ \E c \in Conns, n \in Nicks : Kill(c, n)
  \/ \E n \in Jupable, o \in BOOLEAN : AddJupe(n, o)
  \/ \E i \in DOMAIN cli : DelJupe(i)

NetworkSpec == NetworkInit /\ [][NetworkNext]_netvars
-----------------------------------------------------------------------------
(* The structures (hash.c, commands.c) keep their types: addresses name    *)
(* structures, counts are counts of what there can be.                     *)
NetworkTypeOK ==
  /\ DOMAIN cli \subseteq Ids
  /\ \A i \in DOMAIN cli :
       /\ cli[i].name \in (IF cli[i].kind = "server" THEN ServerNames ELSE Nicks)
       /\ cli[i].from \in Conns \cup {NULL}
       /\ {cli[i].parent, cli[i].hnext, cli[i].hprev} \subseteq Ids \cup {NULL}
  /\ {head, uplink} \subseteq Ids \cup {NULL}
  /\ conn \in [Conns -> {"none", "unknown", "server"}]
  /\ DOMAIN chans \subseteq Channels
  /\ bursting \in 0 .. Cardinality(Ids) /\ servers \in 1 .. Cardinality(Ids) + 1
  /\ links \in 1 .. Cardinality(Conns) + 1
  /\ held \in [Conns -> SUBSET Jupable]

(* What is in memory hangs together (siclient_free): everyone's server is  *)
(* there, their connection is open, the members of channels are there, and *)
(* the uplink, if any, is a server with a connection.                      *)
NobodyLeftBehind ==
  ~ wild =>
    /\ \A i \in DOMAIN cli :
         /\ cli[i].parent \in DOMAIN cli \cup {NULL}
         /\ ~ cli[i].jupe => conn[cli[i].from] = "server"
         /\ cli[i].parent # NULL => cli[i].from = cli[cli[i].parent].from
    /\ \A ch \in DOMAIN chans : chans[ch] \subseteq DOMAIN cli
    /\ uplink # NULL => uplink \in DOMAIN cli /\ IsLocal(uplink)

(* SIStats.st_serversbursting, st_numgservers and st_nummservers, by which *)
(* chanfix and the autoconnect decide, are what a count of SIServers gives *)
(* whatever came and went: PONG, numerics, splits, refused links.          *)
CountsRight ==
  ~ wild =>
    /\ bursting = Cardinality({i \in DOMAIN cli : cli[i].burst = "sent"})
    /\ servers = 1 + Cardinality({i \in DOMAIN cli : IsServer(i)})
    /\ links = 1 + Cardinality({i \in DOMAIN cli : IsLocal(i)})

(* SIOpers, to whom siuplink_opers_printf sends, is the list of those with *)
(* mode o, each once, whichever way they came to it or went.               *)
OpersListed ==
  ~ wild => /\ NoTwice(opers)
            /\ Elements(opers) = {i \in DOMAIN cli : cli[i].oper}

(* What the commands decide by is what is there: nobody's server or        *)
(* connection is gone, the counts are counts, and SIOpers is the list of   *)
(* opers, each once (hash.c, commands.c).                                  *)
NetworkSound == NetworkTypeOK /\ NobodyLeftBehind /\ CountsRight /\ OpersListed

(* As long as the network has removed no module client, everyone in memory *)
(* is in the bucket once, and siclient_find finds all but those whose nick *)
(* or name a module client has taken.                                      *)
EveryoneFound ==
  ~ wild /\ strikes = 0 =>
    /\ Elements(Bucket(Hash)) = DOMAIN cli /\ NoTwice(Bucket(Hash))
    /\ \A i \in DOMAIN cli :
         Find(cli[i].name) = {i} \/ Find(cli[i].name) \cap HasJupes # {}
                               \/ cli[i].jupe

(* The side of the uplink has been told of every module client             *)
(* (siclient_send_jupe, siclient_send_jupes), also when the network has     *)
(* removed one with a server's name.                                       *)
UplinkToldOfJupes ==
  ~ wild /\ uplink # NULL =>
    \A i \in HasJupes :
      IsServer(i) \/ strikes = 0 => cli[i].name \in held[cli[uplink].from]

(* Everyone in memory can be found under their name, and the network knows *)
(* every name that services hold, in whatever order servers, jupes and     *)
(* removals come (siclient_find, siclient_send_jupes).                     *)
EveryoneKnown == EveryoneFound /\ UplinkToldOfJupes

(* When the last member leaves, by PART, KICK, KILL, QUIT, a nick          *)
(* collision or a split (sichannel_del_user), the channel is gone.         *)
GoneWhenEmpty ==
  [][\A ch \in DOMAIN chans : chans[ch] # {} =>
       ch \notin DOMAIN chans' \/ chans'[ch] # {}]_netvars

(* Memory that is free is used by four kinds of line only: a user changes  *)
(* its nick to one that is taken (_command_nick), a user introduces a      *)
(* server whose name is free (_command_server), services are SQUIT by      *)
(* their own name (_command_squit), or the hash is walked or changed after *)
(* the network removed a module client (siclient_free).  No split, refused *)
(* server, collision of servers, KILL or unloaded module does.             *)
WildOnlyThen ==
  [][wild' => \/ \E u \in DOMAIN cli, n \in Nicks : Find(n) # {} /\ ChangeNick(u, n)
              \/ \E u \in DOMAIN cli, n \in ServerNames :
                   Find(n) = {} /\ UserIntroduces(u, n)
              \/ \E c \in Conns : SquitServices(c)
              \/ strikes > 0]_netvars
=============================================================================
