-------------------------------- MODULE Rehash --------------------------------
(***************************************************************************)
(* The configuration in use and what a rehash makes of it: siconf_parse    *)
(* (daemon/conf.c), called at the start, on SIGHUP and on SIGTERM by       *)
(* _io_loop and main (daemon/services.c), over the modules of Modules.     *)
(*                                                                         *)
(* A rehash first unloads every module of the list in use, last one first, *)
(* then takes over listeners and servers, then loads the modules of the    *)
(* new file, and removes at last the listeners and servers that the new    *)
(* file has not.  Each module that it unloads or loads is a step; nothing  *)
(* else of the program runs in between.  A file that cannot be read leaves *)
(* everything as it was.                                                   *)
(***************************************************************************)
EXTENDS Modules

CONSTANTS
  Files,   \* configurations: modules, servers (named, with an address), listeners
  NULL

ServerRecords == UNION {Elements(f.servers) : f \in Files}
Addresses == UNION {Elements(f.listeners) : f \in Files}

ASSUME RehashAssumption ==
  /\ NULL \notin Files \cup Mods
  /\ \A f \in Files :
       /\ f.mods \in Seq(Mods) /\ NoTwice(f.mods)
       /\ f.servers \in Seq(ServerRecords)
       /\ f.listeners \in Seq(Addresses)

VARIABLES
  phase,      \* where siconf_parse is
  file,       \* new_conf
  listed,     \* c_modules of the configuration in use
  last,       \* its c_lastmodule
  cursor,     \* mc of the loop that unloads
  todo,       \* the modules of new_conf that the loop has yet to come to
  servers,    \* c_servers
  listeners,  \* c_listeners, each with lc_con
  open,       \* addresses there is a socket for
  applied,    \* the file the last rehash got through with
  refused,    \* its modules that could not be loaded
  order       \* the modules that are up, as they were loaded

confvars == <<phase, file, listed, last, cursor, todo, servers, listeners,
              open, applied, refused, order>>
vars == <<modvars, confvars>>

LastOf(s) == IF s = <<>> THEN NULL ELSE s[Len(s)]

(* Variant: the loop ends after one module. *)
BeforeNone(s, x) == NULL

(* mc_prev                                                                 *)
Before(s, x) ==
  IF s[1] = x THEN NULL ELSE s[CHOOSE k \in 1 .. Len(s) - 1 : s[k + 1] = x]

AddressIn(f, s) == \E k \in DOMAIN f.servers : f.servers[k].addr = s.addr

-----------------------------------------------------------------------------
(* The process is not there.                                               *)
Off ==
  /\ mod' = [m \in Mods |-> [state |-> "none", id |-> 0]]
  /\ client' = <<>> /\ has' = [m \in Mods |-> <<>>]
  /\ phase' = "off" /\ file' = NULL /\ listed' = <<>> /\ last' = NULL
  /\ cursor' = NULL /\ todo' = <<>> /\ servers' = <<>> /\ listeners' = <<>>
  /\ open' = {} /\ applied' = NULL /\ refused' = {} /\ order' = <<>>

Init ==
  /\ mod = [m \in Mods |-> [state |-> "none", id |-> 0]]
  /\ client = <<>> /\ has = [m \in Mods |-> <<>>]
  /\ phase = "off" /\ file = NULL /\ listed = <<>> /\ last = NULL
  /\ cursor = NULL /\ todo = <<>> /\ servers = <<>> /\ listeners = <<>>
  /\ open = {} /\ applied = NULL /\ refused = {} /\ order = <<>>

(* No listener before it in the list is for the same address.              *)
Foremost(addrs, k) == \A j \in 1 .. k - 1 : addrs[j] # addrs[k]

(* main: the file is the configuration itself.  An address may be taken by *)
(* somebody else, or by the same file, and its listener then has no        *)
(* connection.                                                             *)
Start(f) ==
  /\ phase = "off"
  /\ \E bound \in SUBSET Elements(f.listeners) :
       /\ open' = bound
       /\ listeners' = [k \in DOMAIN f.listeners |->
            [addr |-> f.listeners[k],
             con |-> IF f.listeners[k] \in bound /\ Foremost(f.listeners, k)
                     THEN "open" ELSE "none"]]
  /\ phase' = "boot" /\ file' = f /\ todo' = f.mods
  /\ listed' = f.mods /\ last' = LastOf(f.mods) /\ servers' = f.servers
  /\ UNCHANGED <<modvars, cursor, applied, refused, order>>

(* SIGHUP with a file that can be read, or SIGTERM (no file): the loop     *)
(* starts at c_lastmodule.                                                 *)
Hup(f) ==
  /\ phase = "idle" /\ phase' = "unload" /\ file' = f /\ cursor' = last
  /\ refused' = {} /\ applied' = NULL
  /\ UNCHANGED <<modvars, listed, last, todo, servers, listeners, open, order>>

(* One module: it leaves the list unless it could not be unloaded.  One    *)
(* that is not there any more (ENOENT) leaves it too.                      *)
UnloadNext ==
  /\ phase = "unload" /\ cursor # NULL
  /\ cursor' = Before(listed, cursor)
  /\ order' = Keep(order, Mods \ {cursor})
  /\ \/ /\ IF Loaded(cursor) THEN Unload(cursor) ELSE UNCHANGED modvars
        /\ listed' = Keep(listed, Mods \ {cursor})
     \/ UnloadSticks(cursor) /\ UNCHANGED listed
  /\ UNCHANGED <<phase, file, last, todo, servers, listeners, open, applied, refused>>

-----------------------------------------------------------------------------
(* A listener whose address is new goes in front.  lc_con is set when the  *)
(* socket could be bound, and is whatever the memory held when not.        *)
ListenerTaken(s, a, bound) ==
  IF \E k \in DOMAIN s : s[k].addr = a THEN s
  ELSE PushFront([addr |-> a, con |-> IF a \in bound THEN "open" ELSE "unset"], s)

(* The loop over the file's listeners, through the first k of them.        *)
ListenersTaken(s, addrs, bound, k) ==
  LET at[j \in 0 .. Len(addrs)] ==
        IF j = 0 THEN s ELSE ListenerTaken(at[j - 1], addrs[j], bound)
  IN  at[k]

(* Variant: a server that is known keeps its address. *)
ServerTakenOld(s, sc) ==
  IF ~ sc.pass THEN s
  ELSE IF \E k \in DOMAIN s : s[k].name = sc.name THEN s
  ELSE <<sc>> \o s

(* A server is found by its name and given the new address and passwords;  *)
(* one that has no passwords is passed over.                               *)
ServerTaken(s, sc) ==
  LET known == {k \in 1 .. Len(s) : s[k].name = sc.name}
  IN  IF ~ sc.pass THEN s
      ELSE IF known = {} THEN PushFront(sc, s)
      ELSE [s EXCEPT ![Min(known)] = sc]

(* The loop over the file's servers, through the first k of them.          *)
ServersTaken(s, ss, k) ==
  LET at[j \in 0 .. Len(ss)] == IF j = 0 THEN s ELSE ServerTaken(at[j - 1], ss[j])
  IN  at[k]

(* The two loops that take over listeners and servers.  Where memory runs  *)
(* out they return, with the modules unloaded and none loaded again.       *)
TakeOver ==
  /\ phase = "unload" /\ cursor = NULL
  /\ last' = LastOf(listed)
  /\ IF file = NULL
     THEN phase' = "remove" /\ UNCHANGED <<listeners, servers, open, todo>>
     ELSE \E k \in 0 .. Len(file.listeners) :
          LET met == {file.listeners[j] : j \in 1 .. k}
              known == {listeners[j].addr : j \in DOMAIN listeners}
          IN  \E bound \in SUBSET ((met \ known) \ open) :
                /\ listeners' = ListenersTaken(listeners, file.listeners, bound, k)
                /\ open' = open \cup bound
                /\ \/ /\ k = Len(file.listeners)
                      /\ servers' = ServersTaken(servers, file.servers, Len(file.servers))
                      /\ phase' = "load" /\ todo' = file.mods
                   \/ /\ k = Len(file.listeners)
                      /\ \E j \in 1 .. Len(file.servers) :
                           servers' = ServersTaken(servers, file.servers, j - 1)
                      /\ phase' = "idle" /\ UNCHANGED todo
                   \/ /\ k < Len(file.listeners)
                      /\ file.listeners[k + 1] \notin known \cup met
                      /\ phase' = "idle" /\ UNCHANGED <<servers, todo>>
  /\ file' = IF phase' = "idle" THEN NULL ELSE file
  /\ UNCHANGED <<modvars, listed, cursor, applied, refused, order>>

-----------------------------------------------------------------------------
(* Variant: the entry is pushed in front, as those of servers are. *)
ListNextFront(m) ==
  IF phase = "load" THEN listed' = <<m>> \o listed /\ last' = LastOf(listed')
  ELSE UNCHANGED <<listed, last>>

(* Variant: c_lastmodule stays at the module that was last before. *)
ListNextForgets(m) ==
  IF phase = "load" THEN listed' = Append(listed, m) /\ UNCHANGED last
  ELSE UNCHANGED <<listed, last>>

(* The module's entry moves to the end of the list in use, where it is     *)
(* already when services start.                                            *)
ListNext(m) ==
  IF phase = "load" THEN listed' = Append(listed, m) /\ last' = m
  ELSE UNCHANGED <<listed, last>>

(* Its entry stays with the new file, or leaves the list at the start.     *)
Refuse(m) ==
  /\ refused' = refused \cup {m}
  /\ IF phase = "boot"
     THEN listed' = Keep(listed, Mods \ {m}) /\ last' = LastOf(listed')
     ELSE UNCHANGED <<listed, last>>

(* One module of the file: passed over when it could not be unloaded       *)
(* before.  EALREADY counts as loaded.                                     *)
LoadNext ==
  /\ phase \in {"boot", "load"} /\ todo # <<>> /\ todo' = Tail(todo)
  /\ LET m == Head(todo)
     IN  \/ /\ phase = "load" /\ m \in Elements(listed)
            /\ UNCHANGED <<modvars, listed, last, refused, order>>
         \/ /\ ~ (phase = "load" /\ m \in Elements(listed))
            /\ \/ Load(m) /\ order' = Append(order, m) /\ ListNext(m) /\ UNCHANGED refused
               \/ Loaded(m) /\ ListNext(m) /\ UNCHANGED <<modvars, refused, order>>
               \/ (LoadFails(m) \/ LoadRefused(m)) /\ Refuse(m) /\ UNCHANGED order
  /\ UNCHANGED <<phase, file, cursor, servers, listeners, open, applied>>

LoadDone ==
  /\ phase \in {"boot", "load"} /\ todo = <<>>
  /\ phase' = IF phase = "boot" THEN "idle" ELSE "remove"
  /\ file' = IF phase = "boot" THEN NULL ELSE file
  /\ applied' = IF phase = "boot" THEN file ELSE applied
  /\ UNCHANGED <<modvars, listed, last, cursor, todo, servers, listeners, open,
                 refused, order>>

(* Variant: a listener that goes leaves its socket open. *)
KeptOpenAll(going) == open

KeptOpen(going) == open \ {l.addr : l \in {g \in going : g.con = "open"}}

(* Servers are kept by their address.                                      *)
KeptServers(f) == Keep(servers, {sc \in Elements(servers) : AddressIn(f, sc)})

(* The two loops that remove.  What an unset lc_con points at is taken for *)
(* a connection: nothing, when it happens to be NULL, or the end.          *)
RemoveOld ==
  /\ phase = "remove"
  /\ LET stays == IF file = NULL THEN {} ELSE Elements(file.listeners)
         going == {l \in Elements(listeners) : l.addr \notin stays}
     IN  IF file = NULL THEN Off
         ELSE \/ /\ listeners' = Keep(listeners, {l \in Elements(listeners) : l.addr \in stays})
                 /\ open' = KeptOpen(going)
                 /\ servers' = KeptServers(file)
                 /\ phase' = "idle" /\ file' = NULL /\ applied' = file
                 /\ UNCHANGED <<modvars, listed, last, cursor, todo, refused, order>>
              \/ (\E l \in going : l.con = "unset") /\ Off

(* Between two rehashes modules add and remove clients.                    *)
Running ==
  /\ phase = "idle" /\ \E d \in Decls : Register(d) \/ Unregister(d)
  /\ UNCHANGED confvars

Next ==
  \/ \E f \in Files : Start(f)
  \/ \E f \in Files \cup {NULL} : Hup(f)
  \/ UnloadNext \/ TakeOver \/ LoadNext \/ LoadDone \/ RemoveOld \/ Running

Spec == Init /\ [][Next]_vars

-----------------------------------------------------------------------------
TypeOK ==
  /\ ModulesTypeOK
  /\ phase \in {"off", "boot", "unload", "load", "remove", "idle"}
  /\ file \in Files \cup {NULL} /\ applied \in Files \cup {NULL}
  /\ listed \in Seq(Mods) /\ last \in Mods \cup {NULL} /\ cursor \in Mods \cup {NULL}
  /\ todo \in Seq(Mods) /\ refused \subseteq Mods /\ order \in Seq(Mods)
  /\ servers \in Seq(ServerRecords) /\ open \subseteq Addresses
  /\ listeners \in Seq([addr : Addresses, con : {"open", "none", "unset"}])

(* A module that runs is in the list, and the list ends where c_lastmodule *)
(* says: the next rehash, and the end of services, come by every one of    *)
(* them.  Between rehashes every module of the list is there.              *)
EveryoneIsListed ==
  /\ \A m \in Mods : mod[m].state = "up" => m \in Elements(listed)
  /\ NoTwice(listed)
  /\ phase = "idle" => /\ last = LastOf(listed)
                       /\ \A m \in Elements(listed) : Loaded(m)

(* Wherever a load fails or a library cannot be closed, what the daemon    *)
(* and its modules know of each other agrees (module.c): no function or    *)
(* name of a module that is gone is left with a client, and every command  *)
(* of a module that runs is answered by one that has it.                   *)
RegistrationsSound == TypeOK /\ OwnerAnswers /\ RegisteredBothWays /\ EveryCommandAnswered

(* Modules use each other's functions, so none is unloaded before all that *)
(* were loaded after it (conf.c, "but in reverse order").                  *)
NewestGoesFirst ==
  [][\A j, k \in DOMAIN order :
       (j < k /\ phase' # "off" /\ mod'[order[j]].state # "up")
         => mod'[order[k]].state # "up"]_vars

(* Over any rehashes and failures modules leave in the order opposite to   *)
(* that they came in, and keep their id (siconf_parse, simodule_load).     *)
OrderAndIdsKept == NewestGoesFirst /\ IdsAreForever

(* After a rehash the modules that run are those of the file, but for the  *)
(* ones that could not be loaded, or could not be unloaded before.         *)
ModulesFollowTheFile ==
  (phase = "idle" /\ applied # NULL) =>
    {m \in Mods : mod[m].state = "up"}
      = {m \in Elements(applied.mods) \ refused : mod[m].state # "stuck"}

(* The names of a file's servers are all different.                        *)
OneEach(f) == \A j, k \in DOMAIN f.servers : f.servers[j].name = f.servers[k].name => j = k

(* After a rehash every server of the file that has its passwords is known *)
(* under its name, once, with the file's address and passwords, wherever   *)
(* names and addresses of the old list went, as long as no file names a    *)
(* server twice.  Another server is known only at the address of a server  *)
(* of the file: siconf_parse keeps servers by their address, so a name the *)
(* file has dropped stays, with its old passwords, where its address stays.*)
ServersFollowTheFile ==
  (phase = "idle" /\ applied # NULL /\ \A f \in Files : OneEach(f)) =>
    /\ \A sc \in Elements(applied.servers) : sc.pass =>
         Cardinality({k \in DOMAIN servers : servers[k].name = sc.name}) = 1
           /\ sc \in Elements(servers)
    /\ \A sc \in Elements(servers) : AddressIn(applied, sc)

(* After a rehash the listeners are those of the file, one for each        *)
(* address as long as no file has an address twice, whether or not their   *)
(* sockets could be opened, and no socket is left open that no listener,   *)
(* or more than one, would close.                                          *)
PortsFollowTheFile ==
  /\ (phase = "idle" /\ applied # NULL) =>
       /\ {l.addr : l \in Elements(listeners)} = Elements(applied.listeners)
       /\ (\A f \in Files : NoTwice(f.listeners)) => Len(listeners) = Len(applied.listeners)
  /\ open = {l.addr : l \in {g \in Elements(listeners) : g.con = "open"}}
  /\ \A j, k \in DOMAIN listeners :
       (listeners[j].con = "open" /\ listeners[k] = listeners[j]) => j = k

(* What siconf_parse makes of a file, whatever was there before it: the    *)
(* modules that run are its modules but for those that failed, its servers *)
(* are all known, and no others but at their addresses, and the listeners  *)
(* are its listeners, though perhaps without a socket.                     *)
FollowsTheFile == ModulesFollowTheFile /\ ServersFollowTheFile /\ PortsFollowTheFile
=============================================================================
