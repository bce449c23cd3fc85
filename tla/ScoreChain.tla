------------------------------ MODULE ScoreChain ------------------------------
(***************************************************************************)
(* What the sorted chain of a channel promises: a sequence of records in   *)
(* which chanfixdb_chanuser_create puts a record in front, _sort moves one *)
(* record past all lower successors or all higher predecessors, and        *)
(* _remove takes one out.  ScoreLinks implements it with next and previous *)
(* offsets.                                                                *)
(***************************************************************************)
EXTENDS ScoreList

CONSTANTS Recs, MaxScore

VARIABLES chain, total

chainVars == <<chain, total>>

ChainInit == chain = <<>> /\ total = [r \in Recs |-> 0]

ChainCreate(r) ==
  /\ r \notin Elements(chain)
  /\ chain' = PushFront(r, chain)
  /\ total' = [total EXCEPT ![r] = 0]

ChainRecount(r, n) ==
  /\ r \in Elements(chain)
  /\ total' = [total EXCEPT ![r] = n]
  /\ UNCHANGED chain

ChainSort(r) ==
  /\ \E i, j \in 1 .. Len(chain) :
       chain[i] = r /\ Lands(chain, total, i, j) /\ chain' = Move(chain, i, j)
  /\ UNCHANGED total

ChainRemove(r) ==
  /\ \E i \in 1 .. Len(chain) : chain[i] = r /\ chain' = Unlink(chain, i)
  /\ total' = [total EXCEPT ![r] = 0]

ChainNext ==
  \E r \in Recs :
    \/ ChainCreate(r)
    \/ \E n \in 0 .. MaxScore : ChainRecount(r, n)
    \/ ChainSort(r)
    \/ ChainRemove(r)

ChainSpec == ChainInit /\ [][ChainNext]_chainVars
=============================================================================
