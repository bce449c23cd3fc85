------------------------------- MODULE Accounts -------------------------------
(***************************************************************************)
(* The file of oper accounts (modules/admindb/admindb.c), which services   *)
(* and the tools of modules/admindb map into memory and change in place,   *)
(* one at a time as long as each waits for the lock.                       *)
(*                                                                         *)
(* A record is known by its offset, a cell.  A removed account leaves its  *)
(* cell to the free list with all but its first words as they were, until  *)
(* another account is created there; how the free list works is the        *)
(* business of FreeSpace, whose code this file shares but for the names.   *)
(* A userhost is what it matches, a set of users' hosts: one pattern       *)
(* matches another when it is a superset.  The record's counters and       *)
(* passwords are what properties tell apart; flags and the time of the     *)
(* last login are not.                                                     *)
(***************************************************************************)
EXTENDS Integers, Sequences, SequencesExt

CONSTANTS
  Cells,      \* offsets there is room for an account at
  Names,      \* of accounts
  Passwords,
  Patterns,   \* userhost and server masks, each the set of hosts it matches
  Window,     \* 60 seconds, in ticks of the clock
  MaxEdits    \* bound: changes that tools make

ASSUME AccountsAssumption ==
  /\ Cells # {} /\ Names # {} /\ "**NP**" \notin Passwords
  /\ Window \in Nat \ {0} /\ MaxEdits \in Nat

VARIABLES
  acc,     \* what is in each cell
  used,    \* the cells of the accounts that are in ai_accounts and the buckets
  lock,    \* whose the lock of the file is: "services", "tool" or "nobody"
  edits

filevars == <<acc, used, lock, edits>>

Ops == {"login", "passwd"}
NoFails == [op \in Ops |-> [age |-> Window, num |-> 0]]
Created(n) ==
  [name |-> n, passwd |-> "**NP**", expires |-> "never", hosts |-> <<>>, fails |-> NoFails]

(* siadmindb_account_find: an account of the name is in its bucket.        *)
Found(n) == {c \in used : acc[c].name = n}

(* _siadmindb_get_space finds room, or nothing when the disk is full.      *)
Room == Cells \ used

(* siadmindb_userhost_find, oldest last: the entries that match.           *)
Matching(r, p) == {i \in DOMAIN r.hosts : p \subseteq r.hosts[i]}

FileInit ==
  /\ \E r \in {Created(n) : n \in Names} : acc = [c \in Cells |-> r]
  /\ used = {} /\ lock = "nobody" /\ edits = 0

(* A tool runs: it waits for the lock, does what it was called for, and    *)
(* the lock goes with it, also when it dies before it is through.          *)
ToolLocks ==
  /\ lock = "nobody" /\ lock' = "tool"
  /\ UNCHANGED <<acc, used, edits>>

ToolEnds ==
  /\ lock = "tool" /\ lock' = "nobody"
  /\ UNCHANGED <<acc, used, edits>>

Edit ==
  /\ lock = "tool" /\ UNCHANGED lock
  /\ edits < MaxEdits /\ edits' = edits + 1

(* admindb_add: space first; without it, or for a name that is there, all  *)
(* stays as it is.                                                         *)
CreateAccount(n) ==
  /\ Edit
  /\ Found(n) = {}
  /\ \E c \in Room : used' = used \cup {c} /\ acc' = [acc EXCEPT ![c] = Created(n)]

(* admindb_add, and admindb_import with the others: a pattern that an      *)
(* older one covers is refused with EEXIST, and its space given back.      *)
AddHost(c, p) ==
  /\ Edit /\ c \in used
  /\ Matching(acc[c], p) = {}
  /\ acc' = [acc EXCEPT ![c].hosts = <<p>> \o @]
  /\ UNCHANGED used

(* admindb_del with a userhost: the first that covers it goes.             *)
RemoveHost(c, p) ==
  /\ Edit /\ c \in used
  /\ \E i \in Matching(acc[c], p) :
       /\ \A k \in Matching(acc[c], p) : i <= k
       /\ acc' = [acc EXCEPT ![c].hosts = RemoveAt(@, i)]
  /\ UNCHANGED used

(* admindb_del: the userhosts one by one, then the account, to the free    *)
(* list.                                                                   *)
RemoveAccount(c) ==
  /\ Edit /\ c \in used
  /\ used' = used \ {c}
  /\ acc' = [acc EXCEPT ![c].hosts = <<>>]

(* admindb_add and admindb_setpasswd.                                      *)
SetPassword(c, pw) ==
  /\ Edit /\ c \in used
  /\ acc' = [acc EXCEPT ![c].passwd = pw]
  /\ UNCHANGED used

(* admindb_setexpire.                                                      *)
SetExpire(c, when) ==
  /\ Edit /\ c \in used
  /\ acc' = [acc EXCEPT ![c].expires = when]
  /\ UNCHANGED used

Tools ==
  \/ ToolLocks \/ ToolEnds
  \/ \E n \in Names : CreateAccount(n)
  \/ \E c \in Cells :
       \/ \E p \in Patterns : AddHost(c, p) \/ RemoveHost(c, p)
       \/ RemoveAccount(c)
       \/ \E pw \in Passwords : SetPassword(c, pw)
       \/ \E when \in {"never", "later", "past"} : SetExpire(c, when)

(* A Window-th of a minute goes by.                                        *)
Aged(f) == [f EXCEPT !.age = IF f.age < Window THEN f.age + 1 ELSE f.age]

Older(r) == [r EXCEPT !.fails = [op \in Ops |-> Aged(r.fails[op])]]

FileTypeOK ==
  /\ acc \in [Cells -> [name : Names, passwd : Passwords \cup {"**NP**"},
                        expires : {"never", "later", "past"}, hosts : Seq(Patterns),
                        fails : [Ops -> [age : 0 .. Window, num : Nat]]]]
  /\ used \subseteq Cells /\ lock \in {"nobody", "services", "tool"}
  /\ edits \in 0 .. MaxEdits
=============================================================================
