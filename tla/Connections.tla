----------------------------- MODULE Connections -----------------------------
(***************************************************************************)
(* The connections of services and the loop that serves them: siconn_add,  *)
(* siconn_del, siconn_poll (daemon/conn.c) and _io_loop                    *)
(* (daemon/services.c).                                                    *)
(*                                                                         *)
(* ci_pfds is an array for poll(); each connection knows its place in it,  *)
(* and the last entry moves into the place of one that goes, also while a  *)
(* scan walks over the array.  Sockets block; nothing makes them           *)
(* nonblocking.                                                            *)
(*                                                                         *)
(* The unit of time is the ping timeout of the configuration, and the 30   *)
(* seconds between attempts to connect are one unit as well; times are     *)
(* kept relative to Now, which only poll moves on.  ci_next_check starts   *)
(* at 0 and grows by 30 with every poll, so for the first fifty million    *)
(* polls it is in the past, and every poll is followed by a scan of the    *)
(* whole array.  Memory does not run out.  What a command does to clients  *)
(* is in Network, with the lines after which the freed connection is used  *)
(* all the same; what a reload does to modules and listeners is in Rehash. *)
(***************************************************************************)
EXTENDS Naturals, Sequences, SequencesExt, FiniteSets, FiniteSetsExt, Functions, Chains

CONSTANTS
  Fds,      \* sockets the process may have open
  Servers,  \* names
  Files,    \* configurations: autoconn servers in their order, listener, ping timeout
  NULL,
  Freed     \* a pointer to a connection that has been freed

ASSUME ConnectionsAssumption ==
  /\ Fds \subseteq Nat /\ IsFiniteSet(Fds) /\ {NULL, Freed} \cap Fds = {} /\ NULL # Freed
  /\ \A f \in Files : /\ IsInjective(f.servers) /\ f.servers \in Seq(Servers)
                      /\ f.listen \in BOOLEAN /\ f.timeout \in {0, 1}

VARIABLES
  con,       \* ci_conns_fd_array
  pfds,      \* ci_pfds, up to ci_pfds_num
  outgoing,  \* SIAutoconn_num
  waiting,   \* SIAutoconn_time is later than Now
  tried,     \* a server's sc_tryconnecttime: "yes" when SIAutoconn_time is no later,
             \* "never" when no time the process will see is
  servers,   \* c_servers that have the autoconn flag
  timeout,   \* ci_timeout, in units
  listener,  \* lc_con, by its socket
  phase,     \* where _io_loop is
  slot       \* i of siconn_poll's scan

vars == <<con, pfds, outgoing, waiting, tried, servers, timeout, listener, phase, slot>>

Open == DOMAIN con
Links == {fd \in Open : con[fd].kind = "server"}
(* The kernel gives the lowest socket there is.                            *)
Lowest == {fd \in Fds \ Open : \A o \in Fds \ Open : fd <= o}

Started == {fd \in Open : con[fd].flag # "none"}

Conns == [con |-> con, pfds |-> pfds, outgoing |-> outgoing, waiting |-> waiting,
          tried |-> tried]

NowConns(s) ==
  /\ con' = s.con /\ pfds' = s.pfds /\ outgoing' = s.outgoing
  /\ waiting' = s.waiting /\ tried' = s.tried

Renewed(t) == [v \in Servers |-> IF t[v] = "yes" THEN "no" ELSE t[v]]

-----------------------------------------------------------------------------
(* siconn_add                                                              *)
Added(s, fd, kind, flag) ==
  LET new == [kind |-> kind, flag |-> flag, pos |-> Len(s.pfds) + 1, idle |-> 0,
              pinged |-> FALSE, queued |-> flag = "connecting"]
  IN  [s EXCEPT
         !.con = [c \in DOMAIN s.con \cup {fd} |-> IF c = fd THEN new ELSE s.con[c]],
         !.pfds = Append(@, [fd |-> fd, in |-> flag = "none", out |-> flag # "none",
                             stale |-> "none"])]

(* Variant: the entry moves, and its connection is not told. *)
WithoutSlotUntold(s, p) ==
  LET n == Len(s.pfds)
      moved == s.pfds[n]
  IN  IF p = n THEN [s EXCEPT !.pfds = Front(@)]
      ELSE [s EXCEPT !.pfds = Front([@ EXCEPT ![p] = moved])]

(* The last entry moves into the place of the one that goes.               *)
WithoutSlot(s, p) ==
  LET n == Len(s.pfds)
      moved == s.pfds[n]
  IN  IF p = n THEN [s EXCEPT !.pfds = Front(@)]
      ELSE [s EXCEPT !.pfds = Front([@ EXCEPT ![p] = moved]),
                     !.con[moved.fd].pos = p]

(* Variant: the attempt that has failed is not counted out. *)
EndedUncounted(s, c, young) ==
  IF c.flag # "connected" THEN s
  ELSE [s EXCEPT !.outgoing = 0, !.waiting = @ \/ young,
                 !.tried = IF young THEN Renewed(@) ELSE @]

(* An outgoing connection has ended.  When it was shorter than 300 seconds *)
(* the next attempt waits, and may be to any of the servers.               *)
Ended(s, c, young) ==
  IF c.flag = "none" THEN s
  ELSE [s EXCEPT !.outgoing = 0, !.waiting = @ \/ young,
                 !.tried = IF young THEN Renewed(@) ELSE @]

(* siconn_del.  How long the connection was there is left open.            *)
Deleted(s, fd, young) ==
  LET gone == WithoutSlot(Ended(s, s.con[fd], young), s.con[fd].pos)
  IN  [gone EXCEPT !.con = Restrict(@, DOMAIN @ \ {fd})]

(* Variant: it is queued, and poll is not asked for room. *)
LeftOverUnasked(s, Q) ==
  [s EXCEPT !.con = [fd \in DOMAIN s.con |->
                       [s.con[fd] EXCEPT !.queued = s.con[fd].queued \/ fd \in Q]]]

(* siconn_printfv: what could not be written to the connections Q is       *)
(* queued, and poll told, at the place each has.                           *)
LeftOver(s, Q) ==
  LET queues(fd) == s.con[fd].queued \/ fd \in Q
      asks(k) == s.pfds[k].out \/ \E fd \in Q : s.con[fd].pos = k
  IN  [s EXCEPT
         !.con = [fd \in DOMAIN s.con |-> [s.con[fd] EXCEPT !.queued = queues(fd)]],
         !.pfds = [k \in DOMAIN s.pfds |-> [s.pfds[k] EXCEPT !.out = asks(k)]]]

-----------------------------------------------------------------------------
Init ==
  /\ con = <<>> /\ pfds = <<>> /\ outgoing = 0 /\ waiting = FALSE
  /\ tried = [v \in Servers |-> "no"]
  /\ servers = <<>> /\ timeout = 0 /\ listener = NULL /\ phase = "off" /\ slot = 0

(* Variant: the listener is closed, and lc_con stays as it is. *)
NowListensStill(l) ==
  \/ /\ l /\ listener = NULL
     /\ \E fd \in Lowest :
          LET s == Added(Conns, fd, "listener", "none")
          IN  con' = s.con /\ pfds' = s.pfds /\ listener' = fd
  \/ /\ ~ l /\ listener \in Open /\ UNCHANGED listener
     /\ LET s == Deleted(Conns, listener, FALSE) IN con' = s.con /\ pfds' = s.pfds
  \/ (l \/ listener = NULL) /\ UNCHANGED <<con, pfds, listener>>

(* _listener_add, which fails when the address is taken and does nothing   *)
(* when lc_fd is set, and _listener_del.                                   *)
NowListens(l) ==
  \/ /\ l /\ listener = NULL
     /\ \E fd \in Lowest :
          LET s == Added(Conns, fd, "listener", "none")
          IN  con' = s.con /\ pfds' = s.pfds /\ listener' = fd
  \/ /\ ~ l /\ listener \in Open /\ listener' = NULL
     /\ LET s == Deleted(Conns, listener, FALSE) IN con' = s.con /\ pfds' = s.pfds
  \/ (l \/ listener = NULL) /\ UNCHANGED <<con, pfds, listener>>

(* main and the lines before the loop.                                     *)
Start(f) ==
  /\ phase = "off" /\ phase' = "first"
  /\ servers' = f.servers /\ timeout' = f.timeout
  /\ NowListens(f.listen)
  /\ UNCHANGED <<outgoing, waiting, tried, slot>>

(* SIGHUP: servers that the file has not go, new ones come in front, with  *)
(* an sc_tryconnecttime that nothing has set (conf.c:727).  Each name has  *)
(* an address of its own here; what the address decides is in Rehash.      *)
Hup(f) ==
  /\ phase = "top" /\ phase' = "attempt"
  /\ timeout' = f.timeout
  /\ LET new == Keep(f.servers, Servers \ Range(servers))
     IN  /\ servers' = Reverse(new) \o Keep(servers, Range(f.servers))
         /\ \E t \in [Range(new) -> {"no", "never"}] :
              tried' = [v \in Servers |-> IF v \in Range(new) THEN t[v]
                                        ELSE IF v \in Range(f.servers) THEN tried[v] ELSE "no"]
  /\ NowListens(f.listen)
  /\ UNCHANGED <<outgoing, waiting, slot>>

(* _listener_del of a listener whose connection was freed by the walk.     *)
HupOfFreed(f) ==
  /\ phase = "top" /\ listener = Freed /\ ~ f.listen /\ phase' = "wild"
  /\ UNCHANGED <<con, pfds, outgoing, waiting, tried, servers, timeout, listener, slot>>

(* The process has followed the freed pointer and is started anew.         *)
Restart ==
  /\ phase = "wild" /\ phase' = "off"
  /\ con' = <<>> /\ pfds' = <<>> /\ outgoing' = 0 /\ waiting' = FALSE
  /\ tried' = [v \in Servers |-> "no"]
  /\ servers' = <<>> /\ timeout' = 0 /\ listener' = NULL /\ slot' = 0

-----------------------------------------------------------------------------
(* siconf_find_autoconn_server: the first that has not been tried since.   *)
Untried == SelectSeq(servers, LAMBDA v : tried[v] = "no")

(* No outgoing connection, no server but services themselves, and time.    *)
Due == outgoing = 0 /\ Links = {} /\ ~ waiting

(* Variant: the time of the next attempt is not moved on. *)
AttemptAtOnce ==
  /\ phase \in {"first", "top", "attempt"} /\ Due
  /\ phase' = IF phase = "first" THEN "top" ELSE "poll"
  /\ IF Untried = <<>>
     THEN UNCHANGED <<con, pfds, outgoing, waiting, tried>>
     ELSE LET s == [Conns EXCEPT !.tried[Untried[1]] = "yes"]
          IN  \/ NowConns(s)
              \/ \E fd \in Lowest :
                   NowConns([Added(s, fd, "unknown", "connecting") EXCEPT !.outgoing = 1])
  /\ UNCHANGED <<servers, timeout, listener, slot>>

(* The attempt to connect, when one is due: to the first server that has   *)
(* not been tried, and if there is none 30 seconds pass and all may be     *)
(* tried again.  connect() blocks until it has an answer.  _io_loop makes  *)
(* its first attempt before the loop, and the loop may make one at once.   *)
Attempt ==
  /\ phase \in {"first", "top", "attempt"} /\ Due
  /\ phase' = IF phase = "first" THEN "top" ELSE "poll"
  /\ IF Untried = <<>>
     THEN waiting' = TRUE /\ tried' = Renewed(tried) /\ UNCHANGED <<con, pfds, outgoing>>
     ELSE LET s == [Conns EXCEPT !.tried[Untried[1]] = "yes"]
          IN  \/ NowConns(s)
              \/ \E fd \in Lowest :
                   NowConns([Added(s, fd, "unknown", "connecting") EXCEPT !.outgoing = 1])
  /\ UNCHANGED <<servers, timeout, listener, slot>>

(* poll() returns, after less than a unit of time or after one.  A signal  *)
(* makes it return without an answer, and revents is what it was before.   *)
Poll(passed, interrupted) ==
  /\ phase = "poll" \/ (phase \in {"top", "attempt"} /\ ~ Due)
  /\ phase' = (IF pfds = <<>> THEN "top" ELSE IF interrupted THEN "rescan" ELSE "scan")
  /\ slot' = IF pfds = <<>> THEN 0 ELSE 1
  /\ waiting' = (waiting /\ ~ passed)
  /\ con' = [fd \in Open |->
       [con[fd] EXCEPT !.idle = IF passed /\ con[fd].kind # "listener" /\ @ < 2
                                THEN @ + 1 ELSE @]]
  /\ pfds' = [k \in DOMAIN pfds |->
                [pfds[k] EXCEPT !.stale = IF interrupted THEN @ ELSE "none"]]
  /\ UNCHANGED <<outgoing, tried, servers, timeout, listener>>

-----------------------------------------------------------------------------
(* stale is what a passed entry has left in revents: "used" is an answer   *)
(* that was taken, "due" one that was not.                                 *)
Fd == pfds[slot].fd

(* The entry has revents, and what they say is still so.                   *)
Answered ==
  phase \in {"scan", "last"} \/ (phase = "rescan" /\ pfds[slot].stale = "due")

(* Variant: the scan ends where the array ended before. *)
GoesOnBefore(k) ==
  IF k <= Len(pfds) /\ phase # "last" THEN slot' = k /\ UNCHANGED phase
  ELSE slot' = 0 /\ phase' = "top"

(* The scan goes on at entry k, or is over.                                *)
GoesOn(k) ==
  IF k <= Len(pfds') /\ phase # "last" THEN slot' = k /\ UNCHANGED phase
  ELSE slot' = 0 /\ phase' = "top"

(* Variant: only a server is given up, not who has yet to register. *)
SilentServer(fd) ==
  timeout # 0 /\ con[fd].kind = "server" /\ con[fd].pinged /\ con[fd].idle >= 2

(* A connection that was sent PING, and was silent all the same.           *)
Silent(fd) ==
  timeout # 0 /\ con[fd].kind # "listener" /\ con[fd].pinged /\ con[fd].idle >= 2

(* What moved to the passed place p takes the revents of this poll along.  *)
PassedOver(s, p) ==
  IF phase = "scan" /\ p \in DOMAIN s.pfds
  THEN {[s EXCEPT !.pfds[p].stale = r] : r \in {"none", "due"}} ELSE {s}

(* No revents: a silent connection is sent PING, or is given up.  What     *)
(* moves into the place of one that went is passed over.                   *)
Quiet ==
  /\ phase \in {"scan", "rescan"} /\ pfds[slot].stale = "none"
  /\ IF Silent(Fd)
     THEN \E young \in BOOLEAN :
            \E s \in PassedOver(Deleted(Conns, Fd, young), slot) : NowConns(s)
     ELSE IF timeout # 0 /\ con[Fd].kind # "listener" /\ con[Fd].idle >= timeout
             /\ ~ con[Fd].pinged
     THEN \E Q \in {{}, {Fd}} :
            /\ Q = {} => ~ con[Fd].queued
            /\ NowConns(LeftOver([Conns EXCEPT !.con[Fd].pinged = TRUE], Q))
     ELSE UNCHANGED <<con, pfds, outgoing, waiting, tried>>
  /\ GoesOn(slot + 1)
  /\ UNCHANGED <<servers, timeout, listener>>

(* con_lasttime = Now                                                      *)
Heard(s, fd) == [s EXCEPT !.con[fd].idle = 0, !.con[fd].pinged = FALSE]

(* accept(), which may fail, and leaves the revents of the listener.       *)
Accept ==
  /\ Answered /\ con[Fd].kind = "listener"
  /\ LET s == [Conns EXCEPT !.pfds[slot].stale = "used"]
     IN  NowConns(s) \/ \E fd \in Lowest : NowConns(Added(s, fd, "unknown", "none"))
  /\ GoesOn(slot + 1)
  /\ UNCHANGED <<servers, timeout, listener>>

(* accept() for nobody, or read() of nothing: the process waits in it.     *)
Waits ==
  /\ phase = "rescan" /\ pfds[slot].stale = "used" /\ phase' = "blocked"
  /\ UNCHANGED <<con, pfds, outgoing, waiting, tried, servers, timeout, listener, slot>>

(* Somebody connects at last, or another signal comes.                     *)
AcceptReturns ==
  /\ phase = "blocked" /\ con[Fd].kind = "listener"
  /\ NowConns(Conns) \/ \E fd \in Lowest : NowConns(Added(Conns, fd, "unknown", "none"))
  /\ IF slot < Len(pfds') THEN slot' = slot + 1 /\ phase' = "rescan"
     ELSE slot' = 0 /\ phase' = "top"
  /\ UNCHANGED <<servers, timeout, listener>>

(* There is something to read, or an error, at last.                       *)
ReadReturns ==
  /\ phase = "blocked" /\ con[Fd].kind # "listener" /\ phase' = "rescan"
  /\ NowConns([Conns EXCEPT !.pfds[slot].stale = "due"])
  /\ UNCHANGED <<servers, timeout, listener, slot>>

(* It goes: a poll error, and for who is no listener end of file, a        *)
(* command that ends the connection, a flush that fails.  The walk comes   *)
(* back to the place.  Nobody tells lc_con.                                *)
Drop ==
  /\ Answered
  /\ (\E young \in BOOLEAN : NowConns(Deleted(Conns, Fd, young))) /\ GoesOn(slot)
  /\ listener' = IF con[Fd].kind = "listener" THEN Freed ELSE listener
  /\ UNCHANGED <<servers, timeout>>

(* It goes for the wrong password, and the server whose name it gave may   *)
(* be tried again.                                                         *)
WrongPassword ==
  /\ Answered /\ con[Fd].kind = "unknown" /\ pfds[slot].in
  /\ \E v \in Range(servers), young \in BOOLEAN :
       NowConns([Deleted(Conns, Fd, young) EXCEPT !.tried[v] = "no"])
  /\ GoesOn(slot)
  /\ UNCHANGED <<servers, timeout, listener>>

(* SQUIT, or QUIT in the name, of another server that is connected to      *)
(* services.  i stays.  When the sender's entry is the one that moves, its *)
(* revents stay as well, and i is past the end of the array: what is left  *)
(* to do for the sender is the last of this walk.                          *)
SquitOther ==
  /\ Answered /\ con[Fd].kind = "server" /\ pfds[slot].in
  /\ \E v \in Links \ {Fd}, young \in BOOLEAN :
       LET p == con[v].pos
           s == Deleted(Heard(Conns, Fd), v, young)
       IN  IF slot = Len(pfds)
           THEN NowConns([s EXCEPT !.pfds[p].stale = "used"]) /\ slot' = p /\ phase' = "last"
           ELSE /\ \E r \in IF p < slot THEN PassedOver(s, p) ELSE {s} : NowConns(r)
                /\ UNCHANGED <<slot, phase>>
  /\ UNCHANGED <<servers, timeout, listener>>

(* Who registers is a server from then on, on an attempt once it is        *)
(* connected.                                                              *)
Kinds == {con[Fd].kind} \cup (IF con[Fd].flag # "connecting" THEN {"server"} ELSE {})
Registered(s, k) == [s EXCEPT !.con[Fd].kind = k]

(* Lines are read and answered, and a server may register.  Some of what   *)
(* is printed to the connection and to servers may be left over.           *)
Read(s) == {LeftOver(Registered(s, k), Q) : k \in Kinds, Q \in SUBSET ({Fd} \cup Links)}

(* siconn_flush wrote all of the queue, or some.                           *)
Flushed(s) ==
  {s, [s EXCEPT !.con[Fd].queued = FALSE, !.pfds[s.con[Fd].pos].out = FALSE]}

(* An outgoing connection that can be written to is connected.             *)
Connected(s) ==
  IF s.con[Fd].flag = "connecting"
  THEN [s EXCEPT !.con[Fd].flag = "connected", !.pfds[slot].in = TRUE] ELSE s

(* POLLIN, POLLOUT or both, and the connection stays.  Its revents are     *)
(* cleared at place i.                                                     *)
Serve ==
  /\ Answered /\ con[Fd].kind # "listener"
  /\ \E in, out \in BOOLEAN :
       /\ (in \/ out) /\ (in => pfds[slot].in) /\ (out => pfds[slot].out)
       /\ \E r \in IF in THEN Read(Heard(Conns, Fd)) ELSE {Heard(Conns, Fd)} :
            \E w \in IF out THEN Flushed(Connected(r)) ELSE {r} :
              NowConns([w EXCEPT !.pfds[slot].stale = IF phase = "last" THEN @ ELSE "none"])
  /\ GoesOn(slot + 1)
  /\ UNCHANGED <<servers, timeout, listener>>

-----------------------------------------------------------------------------
Loop ==
  \/ Attempt \/ (\E passed \in BOOLEAN : Poll(passed, FALSE))
  \/ Quiet \/ Accept \/ Drop \/ WrongPassword \/ SquitOther \/ Serve \/ Waits

Signals ==
  \/ \E f \in Files : Hup(f) \/ HupOfFreed(f)
  \/ \E passed \in BOOLEAN : Poll(passed, TRUE)

Next ==
  \/ \E f \in Files : Start(f)
  \/ Loop \/ Signals \/ AcceptReturns \/ ReadReturns \/ Restart

(* The loop goes on, and time passes in poll(); nobody has to connect,     *)
(* say anything or send a signal.                                          *)
Spec ==
  /\ Init /\ [][Next]_vars
  /\ WF_vars(Loop \/ Signals) /\ SF_vars(\E i \in BOOLEAN : Poll(TRUE, i))

-----------------------------------------------------------------------------
TypeOK ==
  /\ Open \subseteq Fds
  /\ con \in [Open -> [kind : {"listener", "unknown", "server"},
                       flag : {"none", "connecting", "connected"}, pos : 1 .. Cardinality(Fds),
                       idle : 0 .. 2, pinged : BOOLEAN, queued : BOOLEAN]]
  /\ pfds \in Seq([fd : Fds, in : BOOLEAN, out : BOOLEAN, stale : {"none", "used", "due"}])
  /\ outgoing \in {0, 1} /\ waiting \in BOOLEAN
  /\ tried \in [Servers -> {"no", "yes", "never"}] /\ servers \in Seq(Servers)
  /\ timeout \in {0, 1} /\ listener \in Fds \cup {NULL, Freed}
  /\ phase \in {"off", "first", "top", "attempt", "poll", "scan", "rescan", "last",
               "blocked", "wild"}
  /\ slot \in 0 .. Len(pfds)

(* Whatever order connections come and go in, also while the array is      *)
(* walked over, each has one entry, at the place it knows.                 *)
EachHasItsSlot ==
  /\ \A fd \in Open : con[fd].pos \in DOMAIN pfds /\ pfds[con[fd].pos].fd = fd
  /\ Len(pfds) = Cardinality(Open)

(* SIAutoconn_num tells whether there is an outgoing connection, and there *)
(* is never a second one.                                                  *)
OneAttemptAtATime == outgoing = Cardinality(Started)

(* poll() is asked for room exactly for the connections that have output   *)
(* waiting, and for input on all that are connected.                       *)
PolledForWhatItNeeds ==
  \A k \in DOMAIN pfds :
    LET c == con[pfds[k].fd]
    IN  /\ pfds[k].out = c.queued
        /\ pfds[k].in = (c.flag # "connecting")
        /\ (c.flag = "connecting" => c.queued)

(* lc_con is a listener's connection that is there, unless the walk freed  *)
(* it after a poll error; then there is no listener, and none comes.       *)
ListenerIsOpen ==
  {fd \in Open : con[fd].kind = "listener"} =
    (IF listener \in {NULL, Freed} THEN {} ELSE {listener})

(* Connections, the poll array, the count of attempts and the listener     *)
(* agree while connections come and go in any order, also when the walk    *)
(* over the array deletes the connection it is at, or a command another    *)
(* one (siconn_add, siconn_del, siconn_poll), until a reload follows the   *)
(* pointer to a listener that was freed.                                   *)
ConnectionsSound == EachHasItsSlot /\ ListenerIsOpen /\ OneAttemptAtATime

(* siconn_poll asks for what each connection needs (PolledForWhatItNeeds), *)
(* whatever was queued, flushed, accepted and closed before.               *)
PollSound == TypeOK /\ PolledForWhatItNeeds

(* A connection that says nothing and takes nothing is given up in the     *)
(* end, when there is a ping timeout, unless the process is stuck in       *)
(* accept() or read(), or has followed a freed pointer.                    *)
SilentOnesGo ==
  \A fd \in Fds :
    (phase # "off" /\ fd \in Open /\ con[fd].kind # "listener" /\ con[fd].idle >= 1)
      ~> (fd \notin Open \/ con[fd].idle = 0 \/ timeout = 0
          \/ phase \in {"blocked", "wild"})

Alone == phase \notin {"off", "wild"} /\ Links = {} /\ Started = {}

(* As long as services have no uplink and no attempt gets through, every   *)
(* server with the autoconn flag is tried again and again, but for those   *)
(* that a rehash left with a time that is never over, and unless one of    *)
(* them keeps coming with the wrong password.                              *)
EveryServerIsTried ==
  \A v \in Servers :
    \/ ~ <>[](Alone /\ v \in Range(servers) /\ tried[v] # "never")
    \/ <>[](phase = "blocked") \/ []<><<WrongPassword>>_vars
    \/ []<>(tried[v] = "yes") /\ []<>(tried[v] = "no")
=============================================================================
