-------------------------------- MODULE Jupes --------------------------------
(***************************************************************************)
(* Server jupes (modules/jupes/mod_jupes.c): opers vote for a jupe, enough *)
(* points make it active, an active one is held up by a module client with *)
(* the juped server's name until an oper unjupes it, the others expire.    *)
(* The jupes are a doubly linked list and are saved to a file.  The list   *)
(* along j_next is a sequence of addresses, j_prev is kept as it is.       *)
(*                                                                         *)
(* A handler is one step, as it is one call in a single-threaded program.  *)
(* Addresses are not used again while the process lives, so that a pointer *)
(* to freed memory can be told from a good one; who follows one is wild,   *)
(* and all that is left is to start the process again.                     *)
(*                                                                         *)
(* The file is read by a library that is not part of the repository; it is *)
(* taken to accept a file that ends too early, with what it has got.       *)
(***************************************************************************)
EXTENDS Chains, SequencesExt, FiniteSetsExt, Functions

CONSTANTS
  Names,       \* servers that may be juped
  Userhosts,   \* userhosts of opers who are not on an ignore list
  Servers,     \* servers the opers are on
  Admins,      \* opers the admin module has authenticated
  AdminScore,  \* SI_MOD_JUPE_SCORE_ADMIN: 5
  OperScore,   \* SI_MOD_JUPE_SCORE_OPER: 3
  Needed,      \* SI_MOD_JUPE_SCORE_NEEDED: 15
  Timeout,     \* SI_MOD_JUPE_TIMEOUT
  Never,       \* j_expires is 0
  MaxJupes,    \* bound: structures allocated by one process
  MaxFailures  \* bound: writes of the file that fail

ASSUME JupesAssumption ==
  /\ Admins \subseteq Userhosts
  /\ OperScore \in Nat \ {0} /\ AdminScore \in Nat /\ AdminScore >= OperScore
  /\ Needed \in Nat \ {0} /\ Timeout \in Nat \ {0} /\ MaxJupes \in Nat
  /\ MaxFailures \in Nat
  /\ Never \notin Nat

NULL == 0

VARIABLES
  jupes,    \* the SI_MOD_JUPE structures in memory, by address 1, 2, ..
  list,     \* the addresses from SIModJupes along j_next
  born,     \* structures allocated so far
  clients,  \* [Names -> Nat]: registrations of the module client of a name
  file,     \* the data file: the jupes in it, in order
  end,      \* how it ends: "whole", "cut" in a jupe, "bare" after a jupe's name
  saved,    \* nothing has gone wrong with writing it since it was last read
  failures, \* writes that have failed
  intact,   \* no jupe that was cut has ever been loaded
  wild      \* memory that had been freed was used

vars == <<jupes, list, born, clients, file, end, saved, failures, intact, wild>>

-----------------------------------------------------------------------------
Points(u) == IF u \in Admins THEN AdminScore ELSE OperScore

Expired(j) == jupes[j].expires = 0

(* _jupe_find frees what it meets of that name if it has expired, and      *)
(* _do_jupes frees all that has; j_next is mended, j_prev is not.  What    *)
(* follows is the list and the memory afterwards.                          *)
Without(gone) ==
  [list |-> Keep(list, DOMAIN jupes \ gone), jupes |-> Restrict(jupes, DOMAIN jupes \ gone)]

Listed == Elements(list)
Named(n) == {j \in Listed : jupes[j].name = n}

(* Variant: an expired jupe stays in the list. *)
AfterFindKeeps(n) == Without({})

(* What _jupe_find(n) leaves behind.                                       *)
AfterFind(n) == Without({j \in Named(n) : Expired(j)})
Found(n) == {j \in Named(n) : ~ Expired(j)}

(* si_ll_add_to_list of a new jupe.                                        *)
Pushed(L, j, n) ==
  LET new == [name |-> n, active |-> FALSE, expires |-> Timeout, score |-> 0,
              votes |-> <<>>, prev |-> NULL]
  IN  [list |-> <<j>> \o L.list,
       jupes |-> [i \in DOMAIN L.jupes \cup {j} |->
                    IF i = j THEN new
                    ELSE [L.jupes[i] EXCEPT !.prev = IF L.list # <<>> /\ i = L.list[1] THEN j ELSE @]]]

Place(s, j) == CHOOSE k \in 1 .. Len(s) : s[k] = j

(* si_ll_del_from_list, then free: whoever j_prev names, or SIModJupes if  *)
(* it is null, goes on with what is behind j.                              *)
Unlinked(L, j) ==
  LET p == L.jupes[j].prev
      rest == SubSeq(L.list, Place(L.list, j) + 1, Len(L.list))
  IN  [list |-> IF p = NULL THEN rest ELSE SubSeq(L.list, 1, Place(L.list, p)) \o rest,
       jupes |-> [i \in DOMAIN L.jupes \ {j} |->
                    [L.jupes[i] EXCEPT !.prev = IF rest # <<>> /\ i = rest[1] THEN p ELSE @]]]

(* The jupe that Unlinked writes to through j_prev is there.               *)
LinksGood(L, j) == L.jupes[j].prev \in DOMAIN L.jupes \cup {NULL}

(* What _datafile_save writes of a jupe, and what there is of it if the     *)
(* write of one of its lines fails (inside a vote is not considered).      *)
Saved(r) == [name |-> r.name, active |-> r.active, expires |-> r.expires,
             score |-> r.score, votes |-> r.votes]

Cuts(r) ==
  LET noScore == [r EXCEPT !.score = 0, !.votes = <<>>]
      noFlags == [noScore EXCEPT !.active = FALSE]
  IN  {noScore, noFlags, [noFlags EXCEPT !.expires = Never]}
        \cup {[r EXCEPT !.votes = Restrict(@, D)] : D \in SUBSET DOMAIN r.votes}

Content(L) == [k \in 1 .. Len(L.list) |-> Saved(L.jupes[L.list[k]])]

(* The file is truncated, then written jupe by jupe.  If it cannot be      *)
(* opened it stays as it was, and if a write fails it ends there.          *)
Writes(L) ==
  LET all == Content(L)
      before(k) == SubSeq(all, 1, k - 1)
  IN  \/ /\ file' = all /\ end' = "whole"
         /\ saved' = TRUE /\ UNCHANGED failures
      \/ /\ failures < MaxFailures
         /\ saved' = FALSE /\ failures' = failures + 1
         /\ \/ UNCHANGED <<file, end>>
            \/ \E k \in DOMAIN all : file' = before(k) /\ end' \in {"whole", "bare"}
            \/ \E k \in DOMAIN all : \E cut \in Cuts(all[k]) :
                 file' = Append(before(k), cut) /\ end' = "cut"

(* The vote of u on the server s is added.                                 *)
WithVote(votes, s, u) == [t \in DOMAIN votes \cup {s} |-> IF t = s THEN u ELSE votes[t]]

Now(L) == jupes' = L.jupes /\ list' = L.list
-----------------------------------------------------------------------------
Init ==
  /\ jupes = <<>> /\ list = <<>> /\ born = 0
  /\ clients = [n \in Names |-> 0]
  /\ file = <<>> /\ end = "whole" /\ saved = TRUE /\ failures = 0
  /\ intact = TRUE /\ wild = FALSE

(* Variant: goes on counting after the expiry. *)
OlderOn(r) == IF r.expires = Never THEN r ELSE [r EXCEPT !.expires = @ - 1]

(* Time passes for the jupes in memory and in the file.                    *)
Older(r) == IF r.expires \in {0, Never} THEN r ELSE [r EXCEPT !.expires = @ - 1]
Tick ==
  /\ ~ wild
  /\ jupes' = [j \in DOMAIN jupes |-> Older(jupes[j])]
  /\ file' = [k \in DOMAIN file |-> Older(file[k])]
  /\ UNCHANGED <<list, born, clients, end, saved, failures, intact, wild>>

(* Variant: the expiry is not cleared when the jupe becomes active. *)
VoteExpires(L, j, u, s) ==
  LET voted == [L.jupes[j] EXCEPT !.votes = WithVote(@, s, u), !.score = @ + Points(u)]
      active == [voted EXCEPT !.active = voted.score >= Needed]
      left == [L EXCEPT !.jupes[j] = active]
  IN  /\ Now(left) /\ Writes(left)
      /\ clients' = IF active.active THEN [clients EXCEPT ![voted.name] = @ + 1] ELSE clients

(* The vote of u on s is added; with enough points the module client is    *)
(* registered, which may fail, and only then is nothing saved.             *)
Vote(L, j, u, s) ==
  LET voted == [L.jupes[j] EXCEPT !.votes = WithVote(@, s, u), !.score = @ + Points(u)]
      On(r) == [L EXCEPT !.jupes[j] = r]
  IN  IF voted.score < Needed
      THEN Now(On(voted)) /\ Writes(On(voted)) /\ UNCHANGED clients
      ELSE \/ LET active == [voted EXCEPT !.active = TRUE, !.expires = Never]
              IN  /\ Now(On(active)) /\ Writes(On(active))
                  /\ clients' = [clients EXCEPT ![voted.name] = @ + 1]
           \/ Now(On(voted)) /\ UNCHANGED <<clients, file, end, saved, failures>>

(* Memory for the vote runs out.  If the server's name has been copied,    *)
(* _svote_free frees the vote twice.                                       *)
VoteFails(L) ==
  /\ Now(L)
  /\ wild' \in BOOLEAN
  /\ UNCHANGED <<clients, file, end, saved, failures>>

(* Variant: the oper may have voted before, from another server. *)
JupeTwice(u, s, n) ==
  /\ ~ wild
  /\ \E j \in Found(n) :
       /\ ~ jupes[j].active
       /\ s \notin DOMAIN jupes[j].votes
       /\ Vote(AfterFind(n), j, u, s)
  /\ UNCHANGED <<born, intact, wild>>

(* JUPE n by an oper who has not voted for it, nor has anyone on the       *)
(* oper's server.                                                          *)
JupeAgain(u, s, n) ==
  /\ ~ wild
  /\ \E j \in Found(n) :
       /\ ~ jupes[j].active
       /\ u \notin Range(jupes[j].votes)
       /\ s \notin DOMAIN jupes[j].votes
       /\ \/ Vote(AfterFind(n), j, u, s) /\ UNCHANGED wild
          \/ VoteFails(AfterFind(n))
  /\ UNCHANGED <<born, intact>>

(* JUPE n calls for a new jupe.                                            *)
JupeNew(u, s, n) ==
  /\ ~ wild
  /\ Found(n) = {}
  /\ born < MaxJupes
  /\ born' = born + 1
  /\ LET L == Pushed(AfterFind(n), born', n)
     IN  \/ Vote(L, born', u, s) /\ UNCHANGED wild
         \/ VoteFails(L)
  /\ UNCHANGED intact

(* JUPE or UNJUPE that is refused: the search may have freed a jupe.       *)
Refused(n) ==
  /\ ~ wild
  /\ Now(AfterFind(n))
  /\ UNCHANGED <<born, clients, file, end, saved, failures, intact, wild>>

(* Variant: the file is not written. *)
UnjupeUnsaved(n) ==
  /\ ~ wild
  /\ \E j \in Found(n) :
       /\ jupes[j].active
       /\ LinksGood(AfterFind(n), j) /\ Now(Unlinked(AfterFind(n), j))
       /\ clients' = [clients EXCEPT ![n] = @ - 1]
  /\ UNCHANGED <<born, file, end, saved, failures, intact, wild>>

Unjupe(n) ==
  /\ ~ wild
  /\ \E j \in Found(n) :
       /\ jupes[j].active
       /\ LET L == AfterFind(n)
              left == Unlinked(L, j)
          IN  IF LinksGood(L, j)
              THEN Now(left) /\ Writes(left) /\ UNCHANGED wild
              ELSE wild' = TRUE /\ UNCHANGED <<jupes, list, file, end, saved, failures>>
       /\ clients' = [clients EXCEPT ![n] = @ - 1]
  /\ UNCHANGED <<born, intact>>

(* JUPES lists the jupes and frees those that have expired.                *)
List ==
  /\ ~ wild
  /\ Now(Without({j \in Listed : Expired(j)}))
  /\ UNCHANGED <<born, clients, file, end, saved, failures, intact, wild>>

(* Variant: whatever is loaded is registered. *)
RegisteredAll(kept) == [n \in Names |-> Cardinality({j \in DOMAIN kept : kept[j].name = n})]

(* The active ones of what is loaded register their clients.               *)
Registered(kept) ==
  [n \in Names |-> Cardinality({j \in DOMAIN kept : kept[j].name = n /\ kept[j].active})]

(* _datafile_load when the process starts or the module is loaded again:   *)
(* every jupe of the file is put in front of the list, by j_next alone,    *)
(* and those that have expired go.                                         *)
(* A last jupe of which only the name was written is taken out, and used   *)
(* once more if the one next to it goes.  Out of memory, the cleaning up   *)
(* follows a null pointer.                                                 *)
Restart ==
  LET kept == Reverse(Keep(file, {r \in Elements(file) : r.expires # 0}))
  IN  /\ \/ wild' = (end = "bare" /\ file # <<>> /\ Last(file).expires = 0)
         \/ wild' = TRUE /\ \E k \in DOMAIN kept : kept[k].active
      /\ jupes' = [j \in DOMAIN kept |->
                     [name |-> kept[j].name, active |-> kept[j].active,
                      expires |-> kept[j].expires, score |-> kept[j].score,
                      votes |-> kept[j].votes, prev |-> NULL]]
      /\ list' = [k \in DOMAIN kept |-> k]
      /\ born' = Len(kept)
      /\ clients' = Registered(kept)
      /\ saved' = TRUE
      /\ intact' = (intact /\ end # "cut")
      /\ UNCHANGED <<file, end, failures>>

Next ==
  \/ Tick
  \/ \E u \in Userhosts, s \in Servers, n \in Names : JupeAgain(u, s, n)
  \/ \E u \in Userhosts, s \in Servers, n \in Names : JupeNew(u, s, n)
  \/ \E n \in Names : Refused(n)
  \/ \E n \in Names : Unjupe(n)
  \/ List
  \/ Restart

Spec == Init /\ [][Next]_vars
-----------------------------------------------------------------------------
(* The lists and counts (_do_jupe, _do_unjupe, _datafile_load) stay within *)
(* their types: links name structures of this process, an expiry counts    *)
(* down to zero and stops.                                                 *)
TypeOK ==
  /\ DOMAIN jupes \subseteq 1 .. born
  /\ \A j \in DOMAIN jupes :
       /\ jupes[j].name \in Names
       /\ jupes[j].expires \in 0 .. Timeout \cup {Never}
       /\ jupes[j].prev \in 0 .. born
  /\ list \in Seq(DOMAIN jupes)
  /\ born \in 0 .. MaxJupes
  /\ clients \in [Names -> 0 .. MaxJupes]
  /\ end \in {"whole", "cut", "bare"}
  /\ saved \in BOOLEAN /\ failures \in 0 .. MaxFailures
  /\ intact \in BOOLEAN /\ wild \in BOOLEAN

Worth(votes) == SumFunction([s \in DOMAIN votes |-> Points(votes[s])])

(* An active jupe (_do_jupe) has the points it needs, from opers of whom   *)
(* no two are the same or on the same server, whatever was saved, loaded   *)
(* or expired on the way, and its score is what its votes are worth.       *)
Earned ==
  intact => \A j \in DOMAIN jupes :
    /\ jupes[j].score = Worth(jupes[j].votes)
    /\ \A s, t \in DOMAIN jupes[j].votes :
         jupes[j].votes[s] = jupes[j].votes[t] => s = t
    /\ jupes[j].active => jupes[j].score >= Needed

(* A jupe that _do_jupe has made active never expires, any other one does, *)
(* as long as nothing was loaded of which the file held only a part.       *)
OnlyActiveStay ==
  intact => \A j \in DOMAIN jupes : jupes[j].active <=> jupes[j].expires = Never

(* There is one jupe of a name in the list (_jupe_find, _datafile_load),   *)
(* so opers vote for the same one.                                         *)
OnePerName == \A n \in Names : Cardinality(Named(n)) <= 1

(* The list of jupes means what its opers voted for (_do_jupe,             *)
(* _jupe_find, _datafile_load): one jupe for a name, active only when      *)
(* earned by different opers, and lasting exactly when active.             *)
JupesSound == TypeOK /\ Earned /\ OnlyActiveStay /\ OnePerName

(* A restart (_datafile_save, then _datafile_load) brings back exactly the *)
(* active jupes of the list, with their votes, unless a write of the file  *)
(* has failed.                                                             *)
ComesBack ==
  saved /\ ~ wild =>
    {Saved(jupes[j]) : j \in {i \in Listed : jupes[i].active}}
      = {r \in Elements(file) : r.active}

(* The client of a juped server (simodule_add_client, _jupe_free) is       *)
(* registered once for every active jupe of the name that is in memory.    *)
ClientPerJupe ==
  ~ wild => \A n \in Names :
    clients[n] = Cardinality({j \in DOMAIN jupes : jupes[j].name = n /\ jupes[j].active})

(* docs/BUGS asks: "server cores shortly after a server is unjuped?" An    *)
(* UNJUPE of an active jupe (_do_unjupe) uses no memory that was freed.    *)
UnjupeIsSafe == [][\A n \in Names : Unjupe(n) => ~ wild']_vars
=============================================================================
