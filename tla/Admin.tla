-------------------------------- MODULE Admin ---------------------------------
(***************************************************************************)
(* Logins of opers to services (modules/admin/mod_admin.c) over the file   *)
(* of Accounts.  A session is module data kept for the address of the      *)
(* client's structure and the id of the module, both of which can be used  *)
(* again: the address by the next client, the id when the module is loaded *)
(* again.                                                                  *)
(*                                                                         *)
(* A handler is two steps, siadmindb_lock with siadmindb_account_find, and *)
(* the rest, which works on the record through the pointer that was found. *)
(* Nothing else of services runs in between, but the tools do when the     *)
(* lock was not got: a signal that comes while services wait for it ends   *)
(* the wait (services.c sets no SA_RESTART), and mod_admin.c does not ask  *)
(* what siadmindb_lock returned.                                           *)
(* The clients are opers: the commands are for opers only, and a session   *)
(* is not touched when somebody stops or starts to be one.                 *)
(***************************************************************************)
EXTENDS Accounts

CONSTANTS
  Addresses,  \* of the structures of clients
  Hosts,      \* their userhosts and servers
  MaxFails,   \* 3
  None

ASSUME AdminAssumption ==
  MaxFails \in Nat \ {0} /\ None \notin Names /\ None \notin Hosts

VARIABLES
  host,      \* the userhost and server of the client at an address, or None
  session,   \* the account of the data that is kept for an address, or None
  loaded,    \* the module is
  call,      \* the handler that is under way, if any
  granted,   \* history: what the client at an address logged in to for good
  missed,    \* history: a client with a session quit without the module
  guesses    \* history: how long ago wrong passwords were compared

vars == <<filevars, host, session, loaded, call, granted, missed, guesses>>

Idle == call = None

Init ==
  /\ FileInit
  /\ host = [a \in Addresses |-> None] /\ session = [a \in Addresses |-> None]
  /\ loaded = TRUE /\ call = None
  /\ granted = [a \in Addresses |-> None] /\ missed = FALSE
  /\ guesses = [c \in Cells |-> [op \in Ops |-> <<>>]]

(* A client comes; nothing is kept for it by the module.                   *)
Arrive(a, h) ==
  /\ Idle /\ host[a] = None
  /\ host' = [host EXCEPT ![a] = h]
  /\ UNCHANGED <<filevars, session, loaded, call, granted, missed, guesses>>

(* Variant: the client's session is not removed with it.                   *)
ForgottenNot(a) == UNCHANGED session

(* _client_removed, a callback, ends the session.                          *)
Forgotten(a) == session' = [session EXCEPT ![a] = IF loaded THEN None ELSE @]

Leave(a) ==
  /\ Idle /\ host[a] # None
  /\ host' = [host EXCEPT ![a] = None]
  /\ Forgotten(a)
  /\ missed' = (missed \/ (~ loaded /\ session[a] # None))
  /\ granted' = [granted EXCEPT ![a] = None]
  /\ UNCHANGED <<filevars, loaded, call, guesses>>

(* The file is closed and opened again; what is kept for clients stays.    *)
Reload ==
  /\ Idle /\ loaded' = ~ loaded
  /\ UNCHANGED <<filevars, host, session, call, granted, missed, guesses>>

(* Variant: the file is only looked at.                                    *)
LockedNot == UNCHANGED lock

(* siadmindb_lock: got, or interrupted while a tool has it.                *)
Locked == lock' = IF lock = "nobody" THEN "services" ELSE lock

Unlocked == lock' = IF lock = "services" THEN "nobody" ELSE lock

Begin(a, op, n) ==
  /\ Idle /\ loaded /\ host[a] # None
  /\ \E c \in Found(n) :
       /\ Locked
       /\ call' = [op |-> op, from |-> a, name |-> n, cell |-> c, alone |-> lock = "nobody"]
  /\ UNCHANGED <<acc, used, edits, host, session, loaded, granted, missed, guesses>>

(* Who is logged in already is told so, or has the rest of the line        *)
(* carried out.  An account that is not there ends the attempt.            *)
Login(a, n) == session[a] = None /\ Begin(a, "login", n)

Passwd(a) == session[a] # None /\ Begin(a, "passwd", session[a])

PasswdOfNobody(a) ==
  /\ Idle /\ loaded /\ host[a] # None
  /\ session[a] # None /\ Found(session[a]) = {}
  /\ session' = [session EXCEPT ![a] = None]
  /\ UNCHANGED <<filevars, host, loaded, call, granted, missed, guesses>>

-----------------------------------------------------------------------------
(* The record as the handler has it, its window begun anew if it is over.  *)
Windowed(f) == IF f.age >= Window THEN [age |-> 0, num |-> 0] ELSE f

(* Variant: one failure more.                                              *)
TooManyLate(f) == f.num > MaxFails

TooMany(f) == f.num >= MaxFails

(* What the handler finds out, in its order.  crypt() may fail, and does   *)
(* for an account without a password, or else nothing matches that.        *)
Verdicts(r, op, h, pw) ==
  IF TooMany(Windowed(r.fails[op])) THEN {"too many"}
  ELSE IF r.expires = "past" THEN {"expired"}
  ELSE IF Matching(r, {h}) = {} THEN {"not from here"}
  ELSE {"error", IF r.passwd = pw THEN "right" ELSE "wrong"}

Counts(op, v) ==
  v \in {"too many", "expired", "wrong"} \/ (op = "login" /\ v = "not from here")

(* The count goes on after "too many", whose exact number tells nothing.   *)
Counted(f, op, v) ==
  IF Counts(op, v) /\ f.num <= MaxFails THEN [f EXCEPT !.num = @ + 1] ELSE f

Record(r, op, v) ==
  [r EXCEPT !.fails[op] = Counted(Windowed(@), op, v)]

(* The handler's second part: the counters are kept, a login begins a      *)
(* session, which a command that came with it ends again.                  *)
Ended(v) ==
  /\ Unlocked /\ call' = None
  /\ guesses' = [guesses EXCEPT ![call.cell][call.op] = IF v = "wrong" THEN <<0>> \o @ ELSE @]
  /\ UNCHANGED <<used, edits, host, loaded, missed>>

(* Variant: a command that fails leaves the session.                       *)
BegunAnyway(a, n, command) == session' = [session EXCEPT ![a] = n]

Begun(a, n, command) == session' = [session EXCEPT ![a] = IF command THEN None ELSE n]

LoginEnds(pw, command) ==
  /\ ~ Idle /\ call.op = "login"
  /\ LET r == acc[call.cell]
     IN  \E v \in Verdicts(r, "login", host[call.from], pw) :
           /\ Ended(v)
           /\ acc' = [acc EXCEPT ![call.cell] = Record(r, "login", v)]
           /\ IF v = "right"
              THEN /\ Begun(call.from, r.name, command)
                   /\ granted' = [granted EXCEPT ![call.from] =
                                    IF command THEN None ELSE r.name]
              ELSE UNCHANGED <<session, granted>>

(* Who is refused for what the account has become is logged out, and so is *)
(* who has just tried too often.                                           *)
PasswdEnds(pw, new) ==
  /\ ~ Idle /\ call.op = "passwd"
  /\ LET r == acc[call.cell]
         f == Windowed(r.fails["passwd"])
     IN  \E v \in Verdicts(r, "passwd", host[call.from], pw) :
           /\ Ended(v)
           /\ acc' = [acc EXCEPT ![call.cell] =
                        [Record(r, "passwd", v) EXCEPT !.passwd = IF v = "right" THEN new ELSE @]]
           /\ session' = [session EXCEPT ![call.from] =
                            IF v \in {"expired", "not from here"}
                               \/ (v = "too many" /\ f.num = MaxFails)
                            THEN None ELSE @]
           /\ UNCHANGED granted

Logout(a) ==
  /\ Idle /\ loaded /\ host[a] # None /\ session[a] # None
  /\ session' = [session EXCEPT ![a] = None]
  /\ UNCHANGED <<filevars, host, loaded, call, granted, missed, guesses>>

(* Those of the guesses g, newest first, that are still of the last Window *)
(* after a tick.                                                           *)
Recent(g) ==
  LET young == {k \in DOMAIN g : g[k] + 1 < Window}
  IN  [k \in 1 .. Cardinality(young) |-> g[k] + 1]

Tick ==
  /\ \E late \in SUBSET {c \in Cells : acc[c].expires = "later"} :
       acc' = [c \in Cells |->
                 [Older(acc[c]) EXCEPT !.expires = IF c \in late THEN "past" ELSE @]]
  /\ guesses' = [c \in Cells |-> [op \in Ops |-> Recent(guesses[c][op])]]
  /\ UNCHANGED <<used, lock, edits, host, session, loaded, call, granted, missed>>

ToolRuns ==
  /\ Tools
  /\ guesses' = [c \in Cells |->
                   IF c \in used' \ used THEN [op \in Ops |-> <<>>] ELSE guesses[c]]
  /\ UNCHANGED <<host, session, loaded, call, granted, missed>>

Next ==
  \/ \E a \in Addresses :
       \/ \E h \in Hosts : Arrive(a, h)
       \/ \E n \in Names : Login(a, n)
       \/ Leave(a) \/ Passwd(a) \/ PasswdOfNobody(a) \/ Logout(a)
  \/ \E pw \in Passwords : \E command \in BOOLEAN : LoginEnds(pw, command)
  \/ \E pw \in Passwords, new \in Passwords : PasswdEnds(pw, new)
  \/ Reload \/ Tick \/ ToolRuns

Spec == Init /\ [][Next]_vars

-----------------------------------------------------------------------------
TypeOK ==
  /\ FileTypeOK
  /\ host \in [Addresses -> Hosts \cup {None}]
  /\ session \in [Addresses -> Names \cup {None}]
  /\ granted \in [Addresses -> Names \cup {None}]
  /\ loaded \in BOOLEAN /\ missed \in BOOLEAN

(* A session (simodule_data_add, _client_removed) is of the client that is *)
(* at the address now, which logged in to that account with no command on  *)
(* the line; over any unloading, removed accounts and addresses used again,*)
(* unless a client with a session quit while the module was not there.     *)
SessionsSound ==
  /\ TypeOK
  /\ ~ missed => \A a \in Addresses : session[a] \in {None, granted[a]}

(* However attempts, other failures, reloads and edits of the account mix, *)
(* no more than twice MaxFails wrong passwords are compared with that of   *)
(* an account in any Window (aa_login_fail_num, aa_passwd_fail_num).       *)
FewGuesses == \A c \in used, op \in Ops : Len(guesses[c][op]) <= 2 * MaxFails

(* A handler that has the lock of the file (siadmindb_lock) writes to the  *)
(* account it found and to no other, which is still there.                 *)
WritesItsAccount ==
  [][(call # None /\ call' = None /\ call.alone) =>
       \A c \in Cells : acc'[c] # acc[c] => c \in used /\ acc[c].name = call.name]_vars
=============================================================================
