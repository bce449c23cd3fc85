------------------------------- MODULE MCRehash -------------------------------
(* An instance of Rehash for TLC: the modules of the repository that share  *)
(* the clients JUPES and CHANFIX, one server jupe, and a module of the      *)
(* site's own that answers a command the admin module has, in three files.  *)
EXTENDS Rehash, TLC

CONSTANTS admin, chanfix, jupes, local

Modules4 == {admin, chanfix, jupes, local}
Declarations == {"aj", "ac", "cc", "cj", "jj", "srv", "lj"}
Module == [d \in Declarations |->
  CASE d \in {"aj", "ac"} -> admin [] d \in {"cc", "cj"} -> chanfix
    [] d \in {"jj", "srv"} -> jupes [] OTHER -> local]
Name == [d \in Declarations |->
  CASE d = "srv" -> "a.server" [] d \in {"ac", "cc"} -> "CHANFIX" [] OTHER -> "JUPES"]
Command == [d \in Declarations |->
  CASE d \in {"aj", "ac", "lj"} -> {"login"} [] d \in {"cc", "cj"} -> {"chanfix"}
    [] d = "jj" -> {"jupe"} [] OTHER -> {}]
Inits == admin :> <<"aj", "ac">> @@ chanfix :> <<"cc", "cj">> @@ jupes :> <<"jj">>
           @@ local :> <<"lj">>

Server(n, a) == [name |-> n, addr |-> a, pass |-> TRUE]
Configs == {
  [mods |-> <<admin, chanfix, jupes>>,
   servers |-> <<Server("A", 1), Server("B", 2)>>, listeners |-> <<1>>],
  [mods |-> <<admin, jupes>>, servers |-> <<Server("A", 2)>>, listeners |-> <<2, 1>>],
  [mods |-> <<local, jupes, admin>>,
   servers |-> <<Server("B", 1), [Server("C", 1) EXCEPT !.pass = FALSE]>>,
   listeners |-> <<>>]}
=============================================================================
