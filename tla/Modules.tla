------------------------------- MODULE Modules -------------------------------
(***************************************************************************)
(* The modules services have loaded and the clients they share             *)
(* (daemon/module.c).                                                      *)
(*                                                                         *)
(* A module registers declarations (SI_MOD_CLIENT): a client's name and    *)
(* the commands that the module answers as that client.  Declarations of   *)
(* several modules may name the same client: JUPES is one for the admin,   *)
(* the chanfix and the jupes module.  The client is there as long as one   *)
(* of them is.  It keeps a pointer to one declaration, its owner's, for    *)
(* its name, and that memory goes when the owner's module is unloaded.     *)
(*                                                                         *)
(* A module is loaded or unloaded in one step: everything its init or      *)
(* deinit does is part of it.  Callbacks reach a module as long as it is   *)
(* not flagged REMOVED.  Running out of memory while a client is added     *)
(* leaves nothing behind, which is what a clash of commands does.  No      *)
(* module of this repository registers the wildcard command.               *)
(***************************************************************************)
EXTENDS Chains, FiniteSetsExt

CONSTANTS
  Mods,
  Decls,       \* declarations
  ModOf,       \* the module whose memory a declaration is in
  NameOf,      \* the client it names
  CommandsOf,  \* the commands it answers
  Static,      \* what a module's init registers, in that order
  Stubborn     \* modules that dlclose may fail for

ASSUME ModulesAssumption ==
  /\ ModOf \in [Decls -> Mods] /\ DOMAIN NameOf = Decls /\ DOMAIN CommandsOf = Decls
  /\ Static \in [Mods -> Seq(Decls)] /\ Stubborn \subseteq Mods /\ IsFiniteSet(Mods)
  /\ \A m \in Mods : NoTwice(Static[m]) /\ \A d \in Elements(Static[m]) : ModOf[d] = m

VARIABLES
  mod,     \* SIModules: what became of a module, and the id it was given
  client,  \* SIModClients, by name: mcli_mcl and mcli_cmdlist
  has      \* mod_modclients of each module

modvars == <<mod, client, has>>

Names == {NameOf[d] : d \in Decls}
Dynamic(m) == {d \in Decls : ModOf[d] = m} \ Elements(Static[m])

(* A structure that is not flagged REMOVED.  "stuck" is a module whose     *)
(* deinit was run and that dlclose then would not let go.                  *)
Loaded(m) == mod[m].state \in {"up", "stuck"}

Registered == [client |-> client, has |-> has]

NowRegistered(s) == client' = s.client /\ has' = s.has

-----------------------------------------------------------------------------
(* Variant: only the list's first module is asked whether it has them. *)
ClashFirst(s, d) ==
  /\ NameOf[d] \in DOMAIN s.client
  /\ CommandsOf[Head(s.client[NameOf[d]].list)] \cap CommandsOf[d] # {}

(* One of d's commands is already answered as that client.                 *)
Clash(s, d) ==
  /\ NameOf[d] \in DOMAIN s.client
  /\ \E e \in Elements(s.client[NameOf[d]].list) : CommandsOf[e] \cap CommandsOf[d] # {}

(* simodule_add_client, where no command clashes.                          *)
Added(s, d) ==
  LET n == NameOf[d]
      old == IF n \in DOMAIN s.client THEN s.client[n]
             ELSE [owner |-> d, list |-> <<>>]
      new == [owner |-> old.owner, list |-> PushFront(d, old.list)]
  IN  [client |-> [x \in DOMAIN s.client \cup {n} |-> IF x = n THEN new ELSE s.client[x]],
       has |-> [s.has EXCEPT ![ModOf[d]] = PushFront(d, @)]]

(* One declaration leaves both lists it is in.  With the last one the      *)
(* client goes; the first one left takes over when it was the owner's.     *)
Dropped(s, d) ==
  LET n == NameOf[d]
      left == Keep(s.client[n].list, Decls \ {d})
      owner == IF s.client[n].owner = d THEN left[1] ELSE s.client[n].owner
  IN  [client |-> IF left = <<>> THEN [x \in DOMAIN s.client \ {n} |-> s.client[x]]
                  ELSE [s.client EXCEPT ![n] = [owner |-> owner, list |-> left]],
       has |-> [s.has EXCEPT ![ModOf[d]] = Keep(@, Decls \ {d})]]

(* simodule_del_client: the first the module has under the name of d,      *)
(* which is looked up through the owner of each.                           *)
Deleted(s, d) ==
  LET mine == s.has[ModOf[d]]
      named == {k \in 1 .. Len(mine) :
                  NameOf[s.client[NameOf[mine[k]]].owner] = NameOf[d]}
  IN  IF named = {} THEN s ELSE Dropped(s, mine[Min(named)])

Done(what, s, d) ==
  CASE what = "add" -> Added(s, d) [] what = "delete" -> Deleted(s, d)
    [] what = "drop" -> Dropped(s, d)

(* One of the loops over declarations, through the first k of ds.          *)
Through(what, s, ds, k) ==
  LET at[j \in 0 .. Len(ds)] == IF j = 0 THEN s ELSE Done(what, at[j - 1], ds[j])
  IN  at[k]

(* Variant: what a failing init had registered is left. *)
CleanedNot(s, m) == s

(* The loop of _simodule_unload over what is left of the module.           *)
Cleaned(s, m) == Through("drop", s, s.has[m], Len(s.has[m]))

(* What is registered once m's init got through its first k clients.       *)
After(s, m, k) == Through("add", s, Static[m], k)

(* Its init gets through all of them.                                      *)
InitGoes(s, m) ==
  \A k \in 1 .. Len(Static[m]) : ~ Clash(After(s, m, k - 1), Static[m][k])

(* The deinits delete what came at run time, and then, last first, what    *)
(* the init registered.                                                    *)
Deinited(s, m) ==
  LET n == Len(Static[m])
      first == [k \in 1 .. n |-> Static[m][n + 1 - k]]
      goes == Keep(s.has[m], Dynamic(m)) \o first
  IN  Through("delete", s, goes, Len(goes))

-----------------------------------------------------------------------------
NewId == 1 + Max({mod[m].id : m \in Mods})

(* Variant: a module that is loaded again is given a new id. *)
IdForAnew(m) == NewId

(* A structure is made for a module once, and its id stays.                *)
IdFor(m) == IF mod[m].id = 0 THEN NewId ELSE mod[m].id

(* simodule_load, all the way through the module's init.                   *)
Load(m) ==
  /\ ~ Loaded(m) /\ InitGoes(Registered, m)
  /\ mod' = [mod EXCEPT ![m] = [state |-> "up", id |-> IdFor(m)]]
  /\ NowRegistered(After(Registered, m, Len(Static[m])))

(* The same, and the init fails after k clients: the next one clashes, or  *)
(* something else that the module needs is not there.                      *)
LoadFails(m) ==
  /\ ~ Loaded(m)
  /\ \E k \in 0 .. Len(Static[m]) :
       /\ \A j \in 1 .. k : ~ Clash(After(Registered, m, j - 1), Static[m][j])
       /\ NowRegistered(Cleaned(After(Registered, m, k), m))
  /\ \E st \in {"removed"} \cup (IF m \in Stubborn THEN {"stuck"} ELSE {}) :
       mod' = [mod EXCEPT ![m] = [state |-> st, id |-> IdFor(m)]]

(* The library cannot be opened, or is not a module of this version.       *)
LoadRefused(m) == ~ Loaded(m) /\ UNCHANGED modvars

(* simodule_unload: deinit, whatever that left, and dlclose.               *)
Unload(m) ==
  /\ Loaded(m)
  /\ NowRegistered(Cleaned(Deinited(Registered, m), m))
  /\ mod' = [mod EXCEPT ![m].state = "removed"]

(* The same, and dlclose fails: the structure stays as it was.             *)
UnloadSticks(m) ==
  /\ Loaded(m) /\ m \in Stubborn
  /\ NowRegistered(Cleaned(Deinited(Registered, m), m))
  /\ mod' = [mod EXCEPT ![m].state = "stuck"]

(* A client at run time, as the jupes module does for a jupe.              *)
Register(d) ==
  /\ mod[ModOf[d]].state = "up" /\ d \in Dynamic(ModOf[d])
  /\ d \notin Elements(has[ModOf[d]]) /\ ~ Clash(Registered, d)
  /\ NowRegistered(Added(Registered, d)) /\ UNCHANGED mod

(* It goes, and the memory of its declaration with it.                     *)
Unregister(d) ==
  /\ mod[ModOf[d]].state = "up" /\ d \in Elements(has[ModOf[d]]) \cap Dynamic(ModOf[d])
  /\ NowRegistered(Deleted(Registered, d)) /\ UNCHANGED mod

(* simodule_process_message: whose function a command to client n is.      *)
Answer(n, c) ==
  LET who == {k \in 1 .. Len(client[n].list) : c \in CommandsOf[client[n].list[k]]}
  IN  IF who = {} THEN {} ELSE {client[n].list[Min(who)]}

-----------------------------------------------------------------------------
ModulesTypeOK ==
  /\ mod \in [Mods -> [state : {"none", "up", "removed", "stuck"}, id : 0 .. Cardinality(Mods)]]
  /\ DOMAIN client \subseteq Names
  /\ \A n \in DOMAIN client : client[n].owner \in Decls /\ client[n].list \in Seq(Decls)
  /\ has \in [Mods -> Seq(Decls)]

(* A client's pointer to its name is into memory of a module that is       *)
(* loaded and that still answers as that client.                           *)
OwnerAnswers ==
  \A n \in DOMAIN client : /\ client[n].owner \in Elements(client[n].list)
                           /\ mod[ModOf[client[n].owner]].state = "up"

(* Both lists of every registration agree, nothing is registered twice,    *)
(* and a module that is not running has none: no function of a library     *)
(* that was closed can be reached by a command.                            *)
RegisteredBothWays ==
  /\ \A d \in Decls :
       d \in Elements(has[ModOf[d]])
         <=> NameOf[d] \in DOMAIN client /\ d \in Elements(client[NameOf[d]].list)
  /\ \A m \in Mods : NoTwice(has[m]) /\ (mod[m].state # "up" => has[m] = <<>>)
  /\ \A n \in DOMAIN client : NoTwice(client[n].list) /\ client[n].list # <<>>

(* No module hides another's command: each command that was registered is  *)
(* answered by the module that registered it.                              *)
EveryCommandAnswered ==
  \A m \in Mods : \A d \in Elements(has[m]) : \A c \in CommandsOf[d] :
    Answer(NameOf[d], c) = {d}

(* What modules keep for a client is found by the module's id: it is the   *)
(* same over every reload, and nobody else's, until the process ends.      *)
IdsAreForever ==
  [][(\E m \in Mods : mod'[m].id # 0) =>
       \A m \in Mods : mod[m].id # 0 =>
         /\ mod'[m].id = mod[m].id
         /\ \A o \in Mods \ {m} : mod'[o].id # mod[m].id]_modvars
=============================================================================
