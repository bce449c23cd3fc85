------------------------------ MODULE FileProofs ------------------------------
(***************************************************************************)
(* Proofs about what is kept in the database file: the space and its free  *)
(* list (FreeSpace), the sorted chain of a channel (ScoreLinks), which are *)
(* kept by offset, and the slots for a channel's modes (ModeSlots), for    *)
(* every size, every number of records, slots and checks, crashes and      *)
(* failing mappings.                                                       *)
(*                                                                         *)
(* Space.  No byte of the file ever has two uses, and no pointer is into a *)
(* mapping that is gone.  NoOverlap is inductive together with InFile (new *)
(* space starts where all used space ends) and the least size of a block   *)
(* (a block apart from all free blocks is not one of them, so pushing it   *)
(* keeps the list free of doubles).  That nothing leaks, and what the free *)
(* list reports, are sums over the same claims: a step adds, drops or      *)
(* splits one of them.                                                     *)
(*                                                                         *)
(* Chains.  The invariant says which sequence the offsets stand for        *)
(* (Shows) and that the records outside it lead nowhere (Loose, without    *)
(* which a walk would not be defined).  The loops and walks of the code    *)
(* are recursive functions: an induction from the last place of the chain  *)
(* shows that they stop, where, and what they read.  Each surgery is then  *)
(* the insertion or removal of one place of the sequence, a sort is the    *)
(* move its search asks for, and that a move leaves fewer pairs the wrong  *)
(* way round is a count over the pairs of places.                          *)
(*                                                                         *)
(* Slots.  Modes have one slot, and those that are forgotten were the      *)
(* weakest, whatever place an earlier scan left behind.  Totals are taken  *)
(* for integers first; that they never go below zero is shown at the end,  *)
(* from what a total says about the checks gone by.                        *)
(***************************************************************************)
EXTENDS FreeSpace, ScoreLinks, ModeSlots, DataProofs

BigEnough == \A x \in Claims : x[2].size >= Header

IInv == TypeOK /\ NoOverlap /\ InFile /\ BigEnough

-----------------------------------------------------------------------------
(* Pieces of the file, each with its use.                                  *)

Uses == {"free", "record", "lost", "held"}

(* A use that is given up disturbs nothing.                                *)
LEMMA FewerApart ==
  ASSUME NEW S, NEW T \in SUBSET S, AllApart(S)
  PROVE  AllApart(T)
BY DEF AllApart

(* A use of space that is apart from all others can be added.              *)
LEMMA OneMoreApart ==
  ASSUME NEW S \in SUBSET (Uses \X Blocks), NEW r \in Uses, NEW b \in Blocks,
         AllApart(S), \A y \in S : Apart(b, y[2])
  PROVE  AllApart(S \cup {<<r, b>>})
<1> SUFFICES ASSUME NEW x \in S \cup {<<r, b>>}, NEW y \in S \cup {<<r, b>>}, x # y
             PROVE  Apart(x[2], y[2])
  BY DEF AllApart
<1>1. CASE x \in S /\ y \in S
  BY <1>1 DEF AllApart
<1>2. CASE x = <<r, b>> /\ y \in S
  BY <1>2
<1>3. CASE x \in S /\ y = <<r, b>>
  <2>1. Apart(b, x[2]) /\ y[2] = b
    BY <1>3
  <2> QED BY <2>1 DEF Apart
<1> QED BY <1>1, <1>2, <1>3

(* A piece b of a block a is apart from whatever a is apart from.          *)
LEMMA PieceApart ==
  ASSUME NEW a \in Blocks, NEW b \in Blocks, NEW c \in Blocks, Apart(a, c),
         a.pos <= b.pos, b.pos + b.size <= a.pos + a.size
  PROVE  Apart(b, c) /\ Apart(c, b)
BY DEF Apart, Blocks

(* Space that is put to another use is apart from the others.              *)
LEMMA OtherUse ==
  ASSUME NEW S \in SUBSET (Uses \X Blocks), NEW x \in S, NEW r \in Uses, AllApart(S)
  PROVE  AllApart((S \ {x}) \cup {<<r, x[2]>>})
<1>1. S \ {x} \in SUBSET (Uses \X Blocks) /\ AllApart(S \ {x}) /\ x[2] \in Blocks
  BY FewerApart
<1>2. \A y \in S \ {x} : Apart(x[2], y[2])
  BY DEF AllApart
<1> QED BY <1>1, <1>2, OneMoreApart

(* Space of which a piece is put to one use and the rest to another.       *)
LEMMA TwoUses ==
  ASSUME NEW S \in SUBSET (Uses \X Blocks), NEW x \in S, AllApart(S),
         NEW r1 \in Uses, NEW b1 \in Blocks, NEW r2 \in Uses, NEW b2 \in Blocks,
         b1.pos = x[2].pos, b1.pos + b1.size = b2.pos,
         b2.pos + b2.size = x[2].pos + x[2].size
  PROVE  AllApart((S \ {x}) \cup {<<r1, b1>>} \cup {<<r2, b2>>})
<1> DEFINE R == S \ {x}
<1>1. R \in SUBSET (Uses \X Blocks) /\ AllApart(R) /\ x[2] \in Blocks
  BY FewerApart
<1>2. \A y \in R : Apart(x[2], y[2]) /\ y[2] \in Blocks
  BY DEF AllApart
<1>3. x[2].pos <= b1.pos /\ b1.pos + b1.size <= x[2].pos + x[2].size
      /\ x[2].pos <= b2.pos /\ b2.pos + b2.size <= x[2].pos + x[2].size
  BY <1>1 DEF Blocks
<1>4. \A y \in R : Apart(b1, y[2]) /\ Apart(b2, y[2])
  BY <1>1, <1>2, <1>3, PieceApart
<1>5. Apart(b2, b1)
  BY DEF Apart, Blocks
<1> DEFINE Q == R \cup {<<r1, b1>>}
<1>6. AllApart(Q)
  BY <1>1, <1>4, OneMoreApart
<1>7. Q \in SUBSET (Uses \X Blocks) /\ \A y \in Q : Apart(b2, y[2])
  BY <1>1, <1>4, <1>5
<1> HIDE DEF Q
<1>8. AllApart(Q \cup {<<r2, b2>>})
  BY <1>6, <1>7, OneMoreApart
<1> QED BY <1>8 DEF Q

-----------------------------------------------------------------------------
(* The claims are uses of blocks.                                          *)
LEMMA ClaimsType ==
  ASSUME TypeOK
  PROVE  /\ Claims \in SUBSET (Uses \X Blocks)
         /\ Elements(freelist) \subseteq Blocks
         /\ \A i \in 1 .. Len(freelist) : <<"free", freelist[i]>> \in Claims
<1>1. Elements(freelist) \subseteq Blocks
  BY ElementOfSeq DEF TypeOK, Elements
<1>2. Held \subseteq Blocks
  BY DEF TypeOK, Held
<1>3. \A i \in 1 .. Len(freelist) : freelist[i] \in Elements(freelist)
  BY DEF Elements
<1> QED BY <1>1, <1>2, <1>3 DEF TypeOK, Claims, Uses

(* No block is empty, so two uses of one block are one use.                *)
LEMMA OneUse ==
  ASSUME IInv, NEW x \in Claims, NEW y \in Claims, x[2] = y[2]
  PROVE  x = y
<1>1. x[2] \in Blocks /\ x[2].size >= Header
  BY ClaimsType DEF IInv, BigEnough
<1>2. ~ Apart(x[2], x[2])
  BY <1>1, FreeSpaceAssumption DEF Apart, Blocks
<1> QED BY <1>2 DEF IInv, NoOverlap, AllApart

(* A request rounded up is a multiple of 8 that still has room for what    *)
(* was asked for.                                                          *)
LEMMA RoundUpEnough ==
  ASSUME NEW n \in Sizes
  PROVE  RoundUp(n) \in Nat /\ RoundUp(n) >= n /\ RoundUp(n) >= Header
<1>1. n \in Nat /\ n >= Header /\ Header \in Nat
  BY FreeSpaceAssumption
<1>2. ((n + 7) \div 8) * 8 >= n /\ ((n + 7) \div 8) * 8 \in Nat
  BY <1>1
<1>3. RoundUp(n) >= n /\ RoundUp(n) \in Nat
  BY <1>2 DEF RoundUp
<1> QED BY <1>1, <1>3

(* Blocks of the free list that are pushed keep it free of doubles.        *)
LEMMA PushFree ==
  ASSUME NEW s \in Seq(Blocks), NoTwice(s), NEW b \in Blocks, b \notin Elements(s)
  PROVE  /\ PushFront(b, s) \in Seq(Blocks)
         /\ NoTwice(PushFront(b, s))
         /\ Elements(PushFront(b, s)) = Elements(s) \cup {b}
BY PushFrontKeeps

(* What a block is made of.                                                *)
LEMMA BlockType ==
  ASSUME NEW p \in Nat, NEW k \in Nat
  PROVE  Block(p, k) \in Blocks /\ Block(p, k).pos = p /\ Block(p, k).size = k
BY DEF Block, Blocks

-----------------------------------------------------------------------------
(* An empty file.                                                          *)
LEMMA InitIInv == Init => IInv
<1> SUFFICES ASSUME Init PROVE IInv
  OBVIOUS
<1> USE FreeSpaceAssumption
<1>1. <<>> \in Seq(Blocks) /\ Len(<<>>) = 0
  BY EmptySeq
<1>2. TypeOK
  <2>1. freelist \in Seq(Blocks) /\ records \subseteq Blocks /\ lost \subseteq Blocks
    BY <1>1 DEF Init
  <2>2. freelist_size \in Int /\ next_addpos \in Nat /\ size \in Nat /\ data_size \in Nat
    BY DEF Init
  <2>3. got \in Blocks \cup {NoBlock}
    BY DEF Init
  <2>4. moved \in BOOLEAN /\ chan \in BOOLEAN
    BY ZenonT(20) DEF Init
  <2>5. crashes \in 0 .. MaxCrashes /\ mapFails \in 0 .. MaxMapFails
    BY DEF Init
  <2> QED BY <2>1, <2>2, <2>3, <2>4, <2>5 DEF TypeOK
<1>3. Claims = {} /\ NoTwice(freelist)
  BY <1>1 DEF Init, Claims, Held, Elements, NoTwice
<1>4. Base <= next_addpos /\ next_addpos <= size
  BY DEF Init
<1> QED BY <1>2, <1>3, <1>4 DEF IInv, NoOverlap, AllApart, InFile, BigEnough

(* The first fitting free block is taken, whole or in part.                *)
LEMMA TakeFreeIInv ==
  ASSUME IInv, got = NoBlock, NEW n \in Nat, n >= Header, TakeFree(n),
         UNCHANGED <<records, lost, chan, crashes>>
  PROVE  IInv'
<1>0. Header \in Nat /\ Header > 0 /\ Base \in Nat /\ NoBlock \notin Blocks
  BY FreeSpaceAssumption DEF Blocks
<1>1. PICK i \in 1 .. Len(freelist) :
        /\ Fits(freelist[i], n)
        /\ got' = Block(freelist[i].pos, n)
        /\ freelist' = IF freelist[i].size = n THEN Unlink(freelist, i)
                       ELSE PushFront(Block(freelist[i].pos + n, freelist[i].size - n),
                                      Unlink(freelist, i))
        /\ freelist_size' = freelist_size - freelist[i].size + (freelist[i].size - n)
  BY DEF TakeFree
<1> DEFINE b == freelist[i]
           x == <<"free", b>>
           rest == Unlink(freelist, i)
           left == Block(b.pos + n, b.size - n)
<1>2. /\ TypeOK /\ NoOverlap /\ InFile /\ BigEnough
      /\ UNCHANGED <<records, lost, next_addpos, size, data_size, moved, chan,
                     crashes, mapFails>>
  BY DEF IInv, TakeFree
<1>3. /\ Claims \in SUBSET (Uses \X Blocks) /\ x \in Claims /\ b \in Blocks
      /\ Elements(freelist) \subseteq Blocks /\ freelist \in Seq(Blocks)
  BY <1>2, ClaimsType DEF TypeOK
<1>4. /\ rest \in Seq(Blocks) /\ NoTwice(rest)
      /\ Elements(rest) = Elements(freelist) \ {b}
  BY <1>2, <1>3, UnlinkKeeps DEF NoOverlap
<1>5. /\ Base <= b.pos /\ b.pos + b.size <= next_addpos
      /\ b.pos \in Nat /\ b.size \in Nat /\ freelist_size \in Int
  BY <1>2, <1>3 DEF InFile, Blocks, TypeOK
<1>6. got' \in Blocks /\ got'.pos = b.pos /\ got'.size = n /\ got' # NoBlock
  BY <1>0, <1>1, <1>5, BlockType
<1>7. freelist_size' \in Int
  <2>1. b.size - n \in Int /\ freelist_size' = freelist_size - b.size + (b.size - n)
    BY <1>1, <1>5
  <2> QED BY <1>5, <2>1
<1>8. CASE b.size = n
  <2>1. freelist' = rest /\ got' = b
    BY <1>1, <1>3, <1>8 DEF Block, Blocks
  <2>2. Claims' \subseteq (Claims \ {x}) \cup {<<"held", b>>}
    BY <1>2, <1>4, <2>1 DEF Claims, Held
  <2>3. AllApart((Claims \ {x}) \cup {<<"held", b>>})
    BY <1>2, <1>3, OtherUse DEF NoOverlap, Uses
  <2>4. NoOverlap'
    BY <1>4, <2>1, <2>2, <2>3, FewerApart DEF NoOverlap
  <2>5. TypeOK'
    BY <1>2, <1>4, <1>6, <1>7, <2>1 DEF TypeOK
  <2>6. \A y \in Claims' : y \in Claims \/ y[2] = b
    BY <2>2
  <2>7. ASSUME NEW y \in Claims'
        PROVE  /\ Base <= y[2].pos /\ y[2].pos + y[2].size <= next_addpos
               /\ y[2].size >= Header
    <3>1. CASE y \in Claims
      BY <1>2, <3>1 DEF InFile, BigEnough
    <3>2. CASE y[2] = b
      BY <1>2, <1>3, <3>2 DEF InFile, BigEnough
    <3> QED BY <2>6, <3>1, <3>2
  <2>8. InFile' /\ BigEnough'
    BY <1>2, <2>7 DEF InFile, BigEnough
  <2> QED BY <2>4, <2>5, <2>8 DEF IInv
<1>9. CASE b.size # n
  <2>1. /\ freelist' = PushFront(left, rest)
        /\ left \in Blocks /\ left.pos = b.pos + n /\ left.size = b.size - n
        /\ left.size >= Header
    <3>1. b.size > n /\ b.size - n >= Header /\ freelist' = PushFront(left, rest)
      BY <1>1, <1>9 DEF Fits
    <3>2. b.pos + n \in Nat /\ b.size - n \in Nat
      BY <1>5, <3>1
    <3> QED BY <3>1, <3>2, BlockType
  <2>2. left \notin Elements(rest)
    <3>1. SUFFICES ASSUME left \in Elements(rest) PROVE FALSE
      OBVIOUS
    <3>2. <<"free", left>> \in Claims /\ <<"free", left>> # x
      BY <1>4, <3>1 DEF Claims
    <3>3. Apart(left, b)
      BY <1>2, <1>3, <3>2 DEF NoOverlap, AllApart
    <3> QED BY <1>0, <1>5, <2>1, <3>3, SMTT(30) DEF Apart
  <2>3. /\ freelist' \in Seq(Blocks) /\ NoTwice(freelist')
        /\ Elements(freelist') = Elements(rest) \cup {left}
    BY <1>4, <2>1, <2>2, PushFree
  <2>4. Claims' \subseteq (Claims \ {x}) \cup {<<"held", got'>>} \cup {<<"free", left>>}
    BY <1>2, <1>4, <2>3 DEF Claims, Held
  <2>5. AllApart((Claims \ {x}) \cup {<<"held", got'>>} \cup {<<"free", left>>})
    <3>1. x[2] = b /\ "held" \in Uses /\ "free" \in Uses
      BY DEF Uses
    <3>2. got'.pos + got'.size = left.pos /\ left.pos + left.size = b.pos + b.size
      BY <1>5, <1>6, <2>1
    <3> HIDE DEF b, x, left
    <3> QED BY <1>2, <1>3, <1>6, <2>1, <3>1, <3>2, TwoUses DEF NoOverlap
  <2>6. NoOverlap'
    BY <2>3, <2>4, <2>5, FewerApart DEF NoOverlap
  <2>7. TypeOK'
    BY <1>2, <1>6, <1>7, <2>3 DEF TypeOK
  <2>8. \A y \in Claims' : y \in Claims \/ y[2] = got' \/ y[2] = left
    BY <2>4
  <2>9. ASSUME NEW y \in Claims'
        PROVE  /\ Base <= y[2].pos /\ y[2].pos + y[2].size <= next_addpos
               /\ y[2].size >= Header
    <3>1. CASE y \in Claims
      BY <1>2, <3>1 DEF InFile, BigEnough
    <3>2. CASE y[2] = got'
      <4>1. b.pos + n <= b.pos + b.size /\ b.pos + n \in Nat
        BY <1>0, <1>5, <2>1
      <4>2. next_addpos \in Nat
        BY <1>2 DEF TypeOK
      <4>3. y[2].pos = b.pos /\ y[2].size = n
        BY <1>6, <3>2
      <4> HIDE DEF b, left
      <4> QED BY <1>0, <1>5, <4>1, <4>2, <4>3
    <3>3. CASE y[2] = left
      <4>1. y[2].pos = b.pos + n /\ y[2].size = b.size - n /\ y[2].size >= Header
        BY <2>1, <3>3
      <4>2. next_addpos \in Nat /\ b.pos + n \in Nat
        BY <1>2, <1>5 DEF TypeOK
      <4> HIDE DEF b, left
      <4> QED BY <1>0, <1>5, <4>1, <4>2
    <3> QED BY <2>8, <3>1, <3>2, <3>3
  <2>10. InFile' /\ BigEnough'
    BY <1>2, <2>9 DEF InFile, BigEnough
  <2> QED BY <2>6, <2>7, <2>10 DEF IInv
<1> QED BY <1>8, <1>9

(* New space starts where all used space ends; the file grows to hold it.  *)
LEMMA TakeRoomIInv ==
  ASSUME IInv, got = NoBlock, NEW n \in Nat, n >= Header,
         got' = Block(next_addpos, n), next_addpos' = next_addpos + n,
         next_addpos' <= size', size' \in Nat, data_size' \in Nat,
         moved' \in BOOLEAN, mapFails' \in 0 .. MaxMapFails,
         UNCHANGED <<freelist, freelist_size, records, lost, chan, crashes>>
  PROVE  IInv'
<1>1. Header \in Nat /\ Base \in Nat /\ NoBlock \notin Blocks
  BY FreeSpaceAssumption DEF Blocks
<1>2. TypeOK /\ NoOverlap /\ InFile /\ BigEnough /\ next_addpos \in Nat
  BY DEF IInv, TypeOK
<1>3. Claims \in SUBSET (Uses \X Blocks)
  BY <1>2, ClaimsType
<1>4. /\ got' \in Blocks /\ got' # NoBlock
      /\ got'.pos = next_addpos /\ got'.size = n
  BY <1>1, <1>2, BlockType
<1>5. TypeOK'
  BY <1>2, <1>4 DEF TypeOK
<1>6. Claims' \subseteq Claims \cup {<<"held", got'>>}
  BY DEF Claims, Held
<1>7. ASSUME NEW y \in Claims
      PROVE  Apart(got', y[2])
  <2>1. y[2].pos + y[2].size <= next_addpos
    BY <1>2 DEF InFile
  <2> QED BY <1>4, <2>1 DEF Apart
<1>8. AllApart(Claims \cup {<<"held", got'>>})
  BY <1>2, <1>3, <1>4, <1>7, OneMoreApart DEF NoOverlap, Uses
<1>9. NoOverlap'
  BY <1>2, <1>6, <1>8, FewerApart DEF NoOverlap
<1>10. Base <= next_addpos
  BY <1>2 DEF InFile
<1>11. ASSUME NEW y \in Claims'
       PROVE  /\ Base <= y[2].pos /\ y[2].pos + y[2].size <= next_addpos'
              /\ y[2].size >= Header
  <2>1. CASE y \in Claims
    <3>1. y[2] \in Blocks /\ Base <= y[2].pos /\ y[2].pos + y[2].size <= next_addpos
          /\ y[2].size >= Header
      BY <1>2, <1>3, <2>1 DEF InFile, BigEnough
    <3>2. y[2].pos + y[2].size \in Int
      BY <3>1 DEF Blocks
    <3> QED BY <1>2, <3>1, <3>2
  <2>2. CASE y[2] = got'
    BY <1>2, <1>4, <1>10, <2>2
  <2> QED BY <1>6, <2>1, <2>2
<1>12. Base <= next_addpos'
  BY <1>1, <1>2, <1>10
<1>13. InFile' /\ BigEnough'
  BY <1>11, <1>12 DEF InFile, BigEnough
<1> QED BY <1>5, <1>9, <1>13 DEF IInv

(* Space that was got is linked, given back or lost, space that was used   *)
(* is unlinked: one claim x is replaced by a claim r on the same block.    *)
LEMMA NewUseIInv ==
  ASSUME IInv, TypeOK', NEW x \in Claims, NEW r \in Uses,
         Claims' \subseteq (Claims \ {x}) \cup {<<r, x[2]>>}, NoTwice(freelist'),
         UNCHANGED <<next_addpos, size>>
  PROVE  IInv'
<1>1. TypeOK /\ NoOverlap /\ InFile /\ BigEnough
  BY DEF IInv
<1>2. Claims \in SUBSET (Uses \X Blocks)
  BY <1>1, ClaimsType
<1>3. AllApart((Claims \ {x}) \cup {<<r, x[2]>>})
  BY <1>1, <1>2, OtherUse DEF NoOverlap
<1>4. NoOverlap'
  BY <1>3, FewerApart DEF NoOverlap
<1>5. \A y \in Claims' : \E z \in Claims : y[2] = z[2]
  <2> TAKE y \in Claims'
  <2>1. CASE y \in Claims
    BY <2>1
  <2>2. CASE y = <<r, x[2]>>
    BY <2>2
  <2> QED BY <2>1, <2>2
<1>6. InFile' /\ BigEnough'
  BY <1>1, <1>5 DEF InFile, BigEnough
<1> QED BY <1>4, <1>6 DEF IInv

(* What no claim sees.                                                     *)
LEMMA SameClaimsIInv ==
  ASSUME IInv, TypeOK', UNCHANGED <<freelist, records, lost, got, next_addpos>>,
         next_addpos <= size'
  PROVE  IInv'
<1>1. Claims' = Claims
  BY DEF Claims, Held
<1> QED BY <1>1 DEF IInv, NoOverlap, InFile, BigEnough

(* _chanfixdb_check keeps the types.                                       *)
LEMMA RemapType ==
  ASSUME TypeOK, NEW n \in Nat, Remap(n)
  PROVE  data_size' \in Nat /\ moved' \in BOOLEAN /\ mapFails' \in 0 .. MaxMapFails
<1> USE FreeSpaceAssumption DEF TypeOK
<1>1. CASE n = data_size /\ UNCHANGED <<data_size, moved, mapFails>>
  BY <1>1
<1>2. CASE data_size' = n /\ moved' = TRUE /\ UNCHANGED mapFails
  BY <1>2
<1>3. CASE /\ mapFails < MaxMapFails /\ mapFails' = mapFails + 1
           /\ data_size' = 0 /\ UNCHANGED moved
  BY <1>3
<1> QED BY <1>1, <1>2, <1>3 DEF Remap

(* Each of the ways to get space.                                          *)
LEMMA GetSpaceIInv ==
  ASSUME IInv, NEW k \in Sizes, GetSpace(k)
  PROVE  IInv'
<1> DEFINE n == RoundUp(k)
<1>1. n \in Nat /\ n >= Header
  BY RoundUpEnough
<1> HIDE DEF n
<1>2. /\ got = NoBlock /\ UNCHANGED <<records, lost, chan, crashes>>
      /\ TypeOK /\ InFile
  BY DEF GetSpace, IInv
<1>3. Slack \in Nat /\ next_addpos \in Nat /\ size \in Nat
  BY <1>2, FreeSpaceAssumption DEF TypeOK
<1>4. CASE TakeFree(n)
  BY <1>1, <1>2, <1>4, TakeFreeIInv
<1>5. CASE TakeRoom(n)
  BY <1>1, <1>2, <1>3, <1>5, TakeRoomIInv DEF TakeRoom, TypeOK
<1>6. CASE TakeGrown(n)
  <2>1. /\ next_addpos + n > size /\ Remap(size')
        /\ size' = next_addpos + n + Slack \/ size' = next_addpos + n
        /\ UNCHANGED <<freelist, freelist_size>>
    BY <1>6 DEF TakeGrown
  <2>2. size' \in Nat /\ next_addpos + n <= size'
    BY <1>1, <1>3, <2>1
  <2>3. data_size' \in Nat /\ moved' \in BOOLEAN /\ mapFails' \in 0 .. MaxMapFails
    BY <1>2, <2>1, <2>2, RemapType
  <2>4. CASE data_size' = 0
    <3>1. UNCHANGED <<next_addpos, got>>
      BY <1>6, <2>4 DEF TakeGrown
    <3>2. TypeOK'
      BY <1>2, <2>1, <2>2, <2>3, <3>1 DEF TypeOK
    <3>3. next_addpos <= size'
      BY <1>1, <1>3, <2>2
    <3> QED BY <1>2, <2>1, <3>1, <3>2, <3>3, SameClaimsIInv
  <2>5. CASE data_size' # 0
    <3>1. next_addpos' = next_addpos + n /\ got' = Block(next_addpos, n)
      BY <1>6, <2>5 DEF TakeGrown
    <3> QED BY <1>1, <1>2, <2>1, <2>2, <2>3, <3>1, TakeRoomIInv
  <2> QED BY <2>4, <2>5
<1>7. CASE TakeNothing(n)
  <2>1. UNCHANGED <<freelist, freelist_size, next_addpos, size, got, data_size,
                    moved, mapFails>>
    BY <1>7 DEF TakeNothing
  <2>2. TypeOK'
    BY <1>2, <2>1 DEF TypeOK
  <2> QED BY <1>2, <2>1, <2>2, SameClaimsIInv DEF InFile
<1> QED BY <1>4, <1>5, <1>6, <1>7 DEF GetSpace, n

(* Every step keeps the invariant.                                         *)
LEMMA NextIInv == IInv /\ [Next]_vars => IInv'
<1> SUFFICES ASSUME IInv, [Next]_vars PROVE IInv'
  OBVIOUS
<1>1. TypeOK /\ NoOverlap /\ InFile /\ BigEnough /\ NoBlock \notin Blocks
  BY FreeSpaceAssumption DEF IInv, Blocks
<1>2. ASSUME NEW n \in Sizes, GetSpace(n) PROVE IInv'
  BY <1>2, GetSpaceIInv
<1>3. CASE Link
  <2>1. /\ got \in Blocks /\ <<"held", got>> \in Claims
        /\ Claims' \subseteq (Claims \ {<<"held", got>>}) \cup {<<"record", got>>}
    BY <1>1, <1>3 DEF Link, TypeOK, Claims, Held
  <2>2. TypeOK'
    BY <1>1, <1>3, <2>1 DEF Link, TypeOK
  <2> QED BY <1>1, <1>3, <2>1, <2>2, NewUseIInv DEF Link, Uses, NoOverlap
<1>4. CASE GiveBack
  <2>1. /\ got \in Blocks /\ <<"held", got>> \in Claims
        /\ freelist \in Seq(Blocks) /\ NoTwice(freelist)
        /\ freelist' = PushFront(got, freelist)
        /\ freelist_size' = freelist_size + got.size /\ freelist_size \in Int
    BY <1>1, <1>4 DEF GiveBack, DelSpace, TypeOK, Claims, Held, NoOverlap
  <2>2. got \notin Elements(freelist)
    <3>1. SUFFICES ASSUME got \in Elements(freelist) PROVE FALSE
      OBVIOUS
    <3>2. <<"free", got>> \in Claims
      BY <3>1 DEF Claims
    <3>3. <<"free", got>> = <<"held", got>>
      BY <2>1, <3>2, OneUse
    <3> QED BY <3>3
  <2>3. /\ freelist' \in Seq(Blocks) /\ NoTwice(freelist')
        /\ Elements(freelist') = Elements(freelist) \cup {got}
    BY <2>1, <2>2, PushFree
  <2>4. /\ got' = NoBlock
        /\ UNCHANGED <<next_addpos, size, records, lost, data_size, chan, crashes,
                       mapFails>>
    BY <1>4 DEF GiveBack
  <2>5. Claims' \subseteq (Claims \ {<<"held", got>>}) \cup {<<"free", got>>}
    BY <2>3, <2>4 DEF Claims, Held
  <2>6. TypeOK'
    <3>1. freelist_size' \in Int
      BY <2>1 DEF Blocks
    <3>2. moved' \in BOOLEAN
      BY <1>4 DEF GiveBack
    <3> QED BY <1>1, <2>3, <2>4, <3>1, <3>2 DEF TypeOK
  <2> QED BY <2>1, <2>3, <2>4, <2>5, <2>6, NewUseIInv DEF Uses
<1>5. ASSUME NEW b \in records, UnlinkRecord(b) PROVE IInv'
  <2>1. b \in Blocks /\ <<"record", b>> \in Claims
    BY <1>1 DEF TypeOK, Claims
  <2>2. /\ got = NoBlock /\ got' = b /\ records' = records \ {b}
        /\ UNCHANGED <<freelist, freelist_size, next_addpos, size, lost, data_size,
                       moved, chan, crashes, mapFails>>
    BY <1>5 DEF UnlinkRecord
  <2>3. Claims' \subseteq (Claims \ {<<"record", b>>}) \cup {<<"held", b>>}
    BY <2>2 DEF Claims, Held
  <2>4. TypeOK'
    BY <1>1, <2>1, <2>2 DEF TypeOK
  <2> QED BY <1>1, <2>1, <2>2, <2>3, <2>4, NewUseIInv DEF Uses, NoOverlap
<1>6. CASE MapAgain
  <2>1. Remap(size) /\ UNCHANGED <<fileVars, got, chan, crashes>>
    BY <1>6 DEF MapAgain
  <2>2. data_size' \in Nat /\ moved' \in BOOLEAN /\ mapFails' \in 0 .. MaxMapFails
    BY <1>1, <2>1, RemapType DEF TypeOK
  <2>3. TypeOK'
    BY <1>1, <2>1, <2>2 DEF TypeOK, fileVars
  <2> QED BY <1>1, <2>1, <2>3, SameClaimsIInv DEF fileVars, InFile
<1>7. CASE FindChannel
  <2>1. UNCHANGED <<fileVars, got, data_size, crashes, mapFails>>
        /\ moved' \in BOOLEAN /\ chan' \in BOOLEAN
    BY <1>7 DEF FindChannel
  <2>2. TypeOK'
    BY <1>1, <2>1 DEF TypeOK, fileVars
  <2> QED BY <1>1, <2>1, <2>2, SameClaimsIInv DEF fileVars, InFile
<1>8. CASE ReleaseChannel
  <2>1. UNCHANGED <<fileVars, got, data_size, moved, crashes, mapFails>>
        /\ chan' \in BOOLEAN
    BY <1>8 DEF ReleaseChannel
  <2>2. TypeOK'
    BY <1>1, <2>1 DEF TypeOK, fileVars
  <2> QED BY <1>1, <2>1, <2>2, SameClaimsIInv DEF fileVars, InFile
<1>9. CASE Crash
  <2>1. /\ UNCHANGED <<freelist, freelist_size, next_addpos, size, records, mapFails>>
        /\ got' = NoBlock /\ data_size' = size
    BY <1>9 DEF Crash
  <2>2. moved' \in BOOLEAN /\ chan' \in BOOLEAN
    BY <1>9 DEF Crash
  <2>3. crashes' \in 0 .. MaxCrashes
    BY <1>1, <1>9, FreeSpaceAssumption DEF Crash, TypeOK
  <2>4. lost' \subseteq Blocks
    BY <1>1, <1>9 DEF Crash, TypeOK
  <2>5. TypeOK'
    BY <1>1, <2>1, <2>2, <2>3, <2>4 DEF TypeOK
  <2>6. CASE got = NoBlock
    <3>1. lost' = lost /\ got' = got
      BY <1>9, <2>1, <2>6 DEF Crash
    <3> QED BY <1>1, <2>1, <2>5, <3>1, SameClaimsIInv DEF InFile
  <2>7. CASE got # NoBlock
    <3>1. /\ got \in Blocks /\ <<"held", got>> \in Claims
          /\ lost' = lost \cup {got}
      BY <1>1, <1>9, <2>7 DEF Crash, TypeOK, Claims, Held
    <3>2. Claims' \subseteq (Claims \ {<<"held", got>>}) \cup {<<"lost", got>>}
      BY <2>1, <3>1 DEF Claims, Held
    <3> QED BY <1>1, <2>1, <2>5, <3>1, <3>2, NewUseIInv DEF Uses, NoOverlap
  <2> QED BY <2>6, <2>7
<1>10. CASE UNCHANGED vars
  <2>1. TypeOK'
    BY <1>1, <1>10 DEF TypeOK, vars, fileVars
  <2> QED BY <1>1, <1>10, <2>1, SameClaimsIInv DEF vars, fileVars, InFile
<1> QED BY <1>2, <1>3, <1>4, <1>5, <1>6, <1>7, <1>8, <1>9, <1>10 DEF Next

-----------------------------------------------------------------------------
(* The inductive invariant holds in every state of every behaviour.        *)
THEOREM Invariance == Spec => []IInv
BY InitIInv, NextIInv, PTL DEF Spec

(* Every variable keeps its type.                                          *)
THEOREM TypeCorrect == Spec => []TypeOK
<1>1. IInv => TypeOK
  BY DEF IInv
<1> QED BY <1>1, Invariance, PTL

(* No byte of the database file has two uses, whatever records come and    *)
(* go, however the file grows and wherever the process dies between two    *)
(* calls of the allocator.                                                 *)
THEOREM SpaceNotShared == Spec => []NoOverlap
<1>1. IInv => NoOverlap
  BY DEF IInv
<1> QED BY <1>1, Invariance, PTL

(* Everything lies within the used part of the file.                       *)
THEOREM SpaceInFile == Spec => []InFile
<1>1. IInv => InFile
  BY DEF IInv
<1> QED BY <1>1, Invariance, PTL

-----------------------------------------------------------------------------
(* Space that is held was got, or unlinked, in a mapping of the whole      *)
(* file, and nothing maps the file before it is put to use.                *)
Mapped ==
  /\ got # NoBlock => data_size = size
  /\ chan /\ got = NoBlock /\ mapFails = 0 => ~ moved /\ data_size = size

(* A file that has grown is mapped whole, or the call fails.               *)
LEMMA GrownIsMapped ==
  ASSUME IInv, Mapped, NEW n \in Nat, got = NoBlock, data_size = size,
         TakeGrown(n), UNCHANGED chan
  PROVE  Mapped'
<1>1. /\ size \in Nat /\ next_addpos \in Nat /\ mapFails \in Nat
      /\ Base <= next_addpos /\ next_addpos <= size /\ NoBlock \notin Blocks
  BY FreeSpaceAssumption DEF IInv, TypeOK, InFile, Blocks
<1>2. size' \in Nat /\ size' > size /\ size' # 0
  BY <1>1, FreeSpaceAssumption DEF TakeGrown
<1>3. CASE data_size' = size'
  <2>1. got' = Block(next_addpos, n)
    BY <1>2, <1>3 DEF TakeGrown
  <2>2. got' # NoBlock
    BY <2>1, <1>1, BlockType
  <2> QED BY <2>2, <1>3 DEF Mapped
<1>4. CASE data_size' = 0 /\ mapFails' = mapFails + 1
  <2>1. got' = NoBlock /\ mapFails' # 0
    BY <1>1, <1>4 DEF TakeGrown
  <2> QED BY <2>1 DEF Mapped
<1>5. size' # data_size
  BY <1>1, <1>2
<1> QED BY <1>3, <1>4, <1>5 DEF TakeGrown, Remap

(* No step takes the mapping from under what it was looked up in.          *)
LEMMA StepIsMapped == IInv /\ Mapped /\ [Next]_vars => Mapped'
<1> SUFFICES ASSUME IInv, Mapped, [Next]_vars PROVE Mapped'
  OBVIOUS
<1>0. mapFails \in Nat /\ next_addpos \in Nat /\ NoBlock \notin Blocks
  BY FreeSpaceAssumption DEF IInv, TypeOK, Blocks
<1>1. ASSUME NEW k \in Sizes, GetSpace(k) PROVE Mapped'
  <2>0. got = NoBlock /\ data_size = size /\ UNCHANGED chan
    BY <1>1 DEF GetSpace
  <2>1. RoundUp(k) \in Nat
    BY RoundUpEnough
  <2>2. CASE TakeFree(RoundUp(k))
    BY <2>0, <2>2 DEF TakeFree, Mapped
  <2>3. CASE TakeRoom(RoundUp(k))
    BY <2>0, <2>3 DEF TakeRoom, Mapped
  <2>4. CASE TakeGrown(RoundUp(k))
    BY <2>0, <2>1, <2>4, GrownIsMapped
  <2>5. CASE TakeNothing(RoundUp(k))
    BY <2>5, <2>0 DEF TakeNothing, Mapped
  <2> QED BY <1>1, <2>2, <2>3, <2>4, <2>5 DEF GetSpace
<1>2. CASE Link
  BY <1>2 DEF Link, Mapped
<1>3. CASE GiveBack
  BY <1>3 DEF GiveBack, Mapped
<1>4. ASSUME NEW b \in records, UnlinkRecord(b) PROVE Mapped'
  BY <1>4 DEF UnlinkRecord, Mapped
<1>5. CASE MapAgain
  <2>1. ~ chan \/ mapFails # 0
    BY <1>5 DEF MapAgain, Mapped
  <2>2. mapFails # 0 => mapFails' # 0
    BY <1>0, <1>5 DEF MapAgain, Remap
  <2> QED BY <1>5, <2>1, <2>2 DEF MapAgain, Mapped
<1>6. CASE FindChannel
  BY <1>6 DEF FindChannel, fileVars, Mapped
<1>7. CASE ReleaseChannel
  BY <1>7 DEF ReleaseChannel, fileVars, Mapped
<1>8. CASE Crash
  BY <1>8 DEF Crash, Mapped
<1>9. CASE UNCHANGED vars
  BY <1>9 DEF vars, fileVars, Mapped
<1> QED BY <1>1, <1>2, <1>3, <1>4, <1>5, <1>6, <1>7, <1>8, <1>9 DEF Next

(* A record is only set up in space the mapping reaches (_chanfixdb_check, *)
(* _chanfixdb_get_space), and a caller's pointer to its channel is into    *)
(* the mapping of now whenever a call is over, however often the file has  *)
(* grown, unless a mapping failed.                                         *)
THEOREM PointersStayFresh == Spec => []PointersFresh
<1>1. Init => Mapped
  BY DEF Init, Mapped
<1>2. IInv /\ Mapped => PointersFresh
  <2> SUFFICES ASSUME IInv, Mapped PROVE PointersFresh
    OBVIOUS
  <2>1. ASSUME got # NoBlock PROVE got.pos + got.size <= data_size
    <3>1. <<"held", got>> \in Claims
      BY <2>1 DEF Claims, Held
    <3>2. /\ got.pos + got.size <= next_addpos /\ next_addpos <= size
      BY <3>1 DEF IInv, InFile
    <3>3. /\ got.pos \in Nat /\ got.size \in Nat /\ next_addpos \in Nat
          /\ size \in Nat /\ data_size = size
      BY <2>1 DEF IInv, TypeOK, Blocks, Mapped
    <3> QED BY <3>2, <3>3
  <2> QED BY <2>1 DEF Mapped, PointersFresh
<1> QED BY <1>1, <1>2, StepIsMapped, InitIInv, NextIInv, PTL DEF Spec
-----------------------------------------------------------------------------
(* The books: what claims there are adds up to the used part of the file,  *)
(* the free ones to cfi_freelist_size, and all is aligned to 8 bytes.      *)
ClaimSize == [x \in Uses \X Blocks |-> x[2].size]
BlockSize == [b \in Blocks |-> b.size]

Aligned(b) == b.pos % 8 = 0 /\ b.size % 8 = 0

Books ==
  /\ IsFiniteSet(Claims) /\ IsFiniteSet(Elements(freelist))
  /\ next_addpos - Base = SumFunctionOnSet(ClaimSize, Claims)
  /\ freelist_size = SumFunctionOnSet(BlockSize, Elements(freelist))
  /\ \A x \in Claims : Aligned(x[2])
  /\ next_addpos % 8 = 0

(* Multiples of 8.                                                         *)
LEMMA MultiplesOf8 ==
  /\ \A a, b \in Nat : a % 8 = 0 /\ b % 8 = 0 => (a + b) % 8 = 0
  /\ \A a, b \in Nat : a % 8 = 0 /\ b % 8 = 0 /\ a >= b => (a - b) % 8 = 0
  /\ \A n \in Nat : RoundUp(n) % 8 = 0
<1>1. \A a, b \in Nat : a % 8 = 0 /\ b % 8 = 0 => (a + b) % 8 = 0
  OBVIOUS
<1>2. \A a, b \in Nat : a % 8 = 0 /\ b % 8 = 0 /\ a >= b => (a - b) % 8 = 0
  OBVIOUS
<1>3. \A n \in Nat : RoundUp(n) % 8 = 0
  BY DEF RoundUp
<1> QED BY <1>1, <1>2, <1>3

(* One claim takes the place of another, or joins the others.              *)
LEMMA ClaimSum ==
  ASSUME NEW S \in SUBSET (Uses \X Blocks), IsFiniteSet(S), NEW y \in Uses \X Blocks
  PROVE  /\ SumFunctionOnSet(ClaimSize, S) \in Int
         /\ y \notin S => /\ IsFiniteSet(S \cup {y})
                         /\ SumFunctionOnSet(ClaimSize, S \cup {y})
                              = SumFunctionOnSet(ClaimSize, S) + y[2].size
         /\ y \in S => /\ IsFiniteSet(S \ {y})
                       /\ SumFunctionOnSet(ClaimSize, S \ {y})
                            = SumFunctionOnSet(ClaimSize, S) - y[2].size
<1>1. \A x \in Uses \X Blocks : ClaimSize[x] = x[2].size /\ ClaimSize[x] \in Int
  BY DEF ClaimSize, Blocks
<1>2. IsFiniteSet(S \cup {y}) /\ IsFiniteSet(S \ {y})
  BY FS_AddElement, FS_RemoveElement
<1>3. /\ SumFunctionOnSet(ClaimSize, S) \in Int
      /\ SumFunctionOnSet(ClaimSize, S \ {y}) \in Int
  BY <1>1, <1>2, SumWithout
<1>4. ASSUME y \notin S
      PROVE  SumFunctionOnSet(ClaimSize, S \cup {y}) = ClaimSize[y] + SumFunctionOnSet(ClaimSize, S)
  <2>1. \A x \in S \cup {y} : ClaimSize[x] \in Int
    BY <1>1
  <2> QED BY <2>1, <1>4, SumWith
<1>5. ASSUME y \in S
      PROVE  SumFunctionOnSet(ClaimSize, S) = ClaimSize[y] + SumFunctionOnSet(ClaimSize, S \ {y})
  BY <1>1, <1>5, SumWithout
<1> QED BY <1>1, <1>2, <1>3, <1>4, <1>5

(* The same for the blocks of the free list.                               *)
LEMMA FreeSum ==
  ASSUME NEW S \in SUBSET Blocks, IsFiniteSet(S), NEW b \in Blocks
  PROVE  /\ SumFunctionOnSet(BlockSize, S) \in Int
         /\ b \notin S => /\ IsFiniteSet(S \cup {b})
                         /\ SumFunctionOnSet(BlockSize, S \cup {b})
                              = SumFunctionOnSet(BlockSize, S) + b.size
         /\ b \in S => /\ IsFiniteSet(S \ {b})
                       /\ SumFunctionOnSet(BlockSize, S \ {b})
                            = SumFunctionOnSet(BlockSize, S) - b.size
<1>1. \A x \in Blocks : BlockSize[x] = x.size /\ BlockSize[x] \in Int
  BY DEF BlockSize, Blocks
<1>2. IsFiniteSet(S \cup {b}) /\ IsFiniteSet(S \ {b})
  BY FS_AddElement, FS_RemoveElement
<1>3. /\ SumFunctionOnSet(BlockSize, S) \in Int
      /\ SumFunctionOnSet(BlockSize, S \ {b}) \in Int
  BY <1>1, <1>2, SumWithout
<1>4. ASSUME b \notin S
      PROVE  SumFunctionOnSet(BlockSize, S \cup {b}) = BlockSize[b] + SumFunctionOnSet(BlockSize, S)
  <2>1. \A x \in S \cup {b} : BlockSize[x] \in Int
    BY <1>1
  <2> QED BY <2>1, <1>4, SumWith
<1>5. ASSUME b \in S
      PROVE  SumFunctionOnSet(BlockSize, S) = BlockSize[b] + SumFunctionOnSet(BlockSize, S \ {b})
  BY <1>1, <1>5, SumWithout
<1> QED BY <1>1, <1>2, <1>3, <1>4, <1>5

LEMMA InitBooks == Init => Books
<1> SUFFICES ASSUME Init PROVE Books
  OBVIOUS
<1>1. Elements(freelist) = {} /\ Claims = {}
  BY EmptySeq DEF Init, Claims, Held, Elements
<1>2. next_addpos - Base = 0 /\ next_addpos % 8 = 0 /\ freelist_size = 0
  BY FreeSpaceAssumption DEF Init
<1> QED BY <1>1, <1>2, FS_EmptySet, SumEmpty DEF Books

(* What no claim sees.                                                     *)
LEMMA SameBooks ==
  ASSUME Books, UNCHANGED <<freelist, freelist_size, records, lost, got, next_addpos>>
  PROVE  Books'
<1>1. Claims' = Claims
  BY DEF Claims, Held
<1> QED BY <1>1 DEF Books

(* A block changes its use.                                                *)
LEMMA NewUseBooks ==
  ASSUME IInv, Books, NEW x \in Claims, NEW r \in Uses, r # x[1],
         Claims' = (Claims \ {x}) \cup {<<r, x[2]>>}, UNCHANGED next_addpos,
         \/ UNCHANGED <<freelist, freelist_size>>
         \/ /\ Elements(freelist') = Elements(freelist) \cup {x[2]}
            /\ x[2] \notin Elements(freelist)
            /\ freelist_size' = freelist_size + x[2].size
         \/ /\ Elements(freelist') = Elements(freelist) \ {x[2]}
            /\ x[2] \in Elements(freelist)
            /\ freelist_size' = freelist_size - x[2].size
  PROVE  Books'
<1> DEFINE y == <<r, x[2]>>
           C == Claims
<1>1. C \in SUBSET (Uses \X Blocks) /\ Elements(freelist) \in SUBSET Blocks
  BY ClaimsType DEF IInv
<1>2. x[2] \in Blocks /\ y \in Uses \X Blocks /\ y[2] = x[2] /\ y # x
  BY <1>1
<1>3. y \notin C
  BY <1>2, OneUse
<1>4. /\ IsFiniteSet(C \ {x}) /\ C \ {x} \in SUBSET (Uses \X Blocks)
      /\ SumFunctionOnSet(ClaimSize, C \ {x})
           = SumFunctionOnSet(ClaimSize, C) - x[2].size
  BY <1>1, ClaimSum DEF Books
<1>5. /\ IsFiniteSet(Claims')
      /\ SumFunctionOnSet(ClaimSize, Claims')
           = SumFunctionOnSet(ClaimSize, C \ {x}) + y[2].size
  <2> HIDE DEF y
  <2> QED BY <1>2, <1>3, <1>4, ClaimSum DEF y
<1>6. SumFunctionOnSet(ClaimSize, C) \in Int /\ x[2].size \in Int
  <2>1. x[2].size \in Int
    BY <1>2 DEF Blocks
  <2>2. IsFiniteSet(C)
    BY DEF Books
  <2> QED BY <2>1, <2>2, <1>1, <1>2, ClaimSum
<1>7. next_addpos' - Base = SumFunctionOnSet(ClaimSize, Claims')
  <2> HIDE DEF y, C
  <2> QED BY <1>2, <1>4, <1>5, <1>6 DEF Books, C
<1>8. /\ IsFiniteSet(Elements(freelist'))
      /\ freelist_size' = SumFunctionOnSet(BlockSize, Elements(freelist'))
  BY <1>1, <1>2, FreeSum DEF Books
<1>9. \A z \in Claims' : Aligned(z[2])
  BY <1>2 DEF Books
<1> QED BY <1>5, <1>7, <1>8, <1>9 DEF Books

(* New space at the end of the used part.                                  *)
LEMMA TakeRoomBooks ==
  ASSUME IInv, Books, got = NoBlock, NEW n \in Nat, n % 8 = 0,
         got' = Block(next_addpos, n), next_addpos' = next_addpos + n,
         UNCHANGED <<freelist, freelist_size, records, lost>>
  PROVE  Books'
<1> DEFINE y == <<"held", got'>>
<1>1. /\ Claims \in SUBSET (Uses \X Blocks)
      /\ next_addpos \in Nat /\ Base \in Nat /\ NoBlock \notin Blocks
  BY ClaimsType, FreeSpaceAssumption DEF IInv, TypeOK, Blocks
<1>2. /\ got' \in Blocks /\ got'.pos = next_addpos /\ got'.size = n /\ got' # NoBlock
  BY <1>1, BlockType
<1>3. Claims' = Claims \cup {y} /\ y \notin Claims /\ y \in Uses \X Blocks
  BY <1>2 DEF Claims, Held, Uses
<1>4. /\ IsFiniteSet(Claims')
      /\ SumFunctionOnSet(ClaimSize, Claims') = SumFunctionOnSet(ClaimSize, Claims) + n
  <2>1. y[2].size = n /\ IsFiniteSet(Claims)
    BY <1>2 DEF Books
  <2> HIDE DEF y
  <2> QED BY <1>1, <1>3, <2>1, ClaimSum
<1>5. next_addpos' - Base = SumFunctionOnSet(ClaimSize, Claims')
  BY <1>1, <1>4 DEF Books
<1>6. next_addpos % 8 = 0 /\ next_addpos' % 8 = 0
  BY <1>1, MultiplesOf8 DEF Books
<1>7. \A z \in Claims' : Aligned(z[2])
  BY <1>2, <1>3, <1>6 DEF Books, Aligned
<1> QED BY <1>4, <1>5, <1>6, <1>7 DEF Books

(* The first fitting free block, whole or in part.                         *)
LEMMA TakeFreeBooks ==
  ASSUME IInv, Books, got = NoBlock, NEW n \in Nat, n >= Header, n % 8 = 0, TakeFree(n),
         UNCHANGED <<records, lost>>
  PROVE  Books'
<1>1. PICK i \in 1 .. Len(freelist) :
        /\ Fits(freelist[i], n)
        /\ got' = Block(freelist[i].pos, n)
        /\ freelist' = IF freelist[i].size = n THEN Unlink(freelist, i)
                       ELSE PushFront(Block(freelist[i].pos + n, freelist[i].size - n),
                                      Unlink(freelist, i))
        /\ freelist_size' = freelist_size - freelist[i].size + (freelist[i].size - n)
  BY DEF TakeFree
<1> DEFINE b == freelist[i]
           x == <<"free", b>>
           rest == Unlink(freelist, i)
           left == Block(b.pos + n, b.size - n)
           C == Claims
           E == Elements(freelist)
<1>2. /\ C \in SUBSET (Uses \X Blocks) /\ E \in SUBSET Blocks
      /\ freelist \in Seq(Blocks) /\ NoTwice(freelist)
      /\ x \in C /\ b \in Blocks /\ b \in E /\ UNCHANGED next_addpos
  BY ClaimsType DEF IInv, TypeOK, NoOverlap, Elements, TakeFree
<1>3. rest \in Seq(Blocks) /\ NoTwice(rest) /\ Elements(rest) = E \ {b}
  BY <1>2, UnlinkKeeps
<1>4. /\ b.pos \in Nat /\ b.size \in Nat /\ b.pos % 8 = 0 /\ b.size % 8 = 0
      /\ freelist_size \in Int /\ NoBlock \notin Blocks
      /\ Header \in Nat /\ Header > 0
  BY <1>2, FreeSpaceAssumption, SMTT(30) DEF IInv, TypeOK, Blocks, Books, Aligned
<1>5. got' \in Blocks /\ got'.pos = b.pos /\ got'.size = n /\ got' # NoBlock
  BY <1>1, <1>4, BlockType
<1>6. CASE b.size = n
  <2>1. freelist' = rest /\ got' = b /\ freelist_size' = freelist_size - b.size
    BY <1>1, <1>2, <1>4, <1>6 DEF Block, Blocks
  <2>2. Claims' = (C \ {x}) \cup {<<"held", b>>}
    BY <1>2, <1>3, <1>5, <2>1 DEF Claims, Held
  <2>3. "held" \in Uses /\ "held" # x[1] /\ x[2] = b
    BY DEF Uses
  <2> HIDE DEF b, x, rest
  <2> QED BY <1>2, <1>3, <2>1, <2>2, <2>3, NewUseBooks
<1>7. CASE b.size # n
  <2>1. /\ freelist' = PushFront(left, rest)
        /\ left \in Blocks /\ left.pos = b.pos + n /\ left.size = b.size - n
        /\ left.size >= Header /\ b.size >= n
        /\ freelist_size' = freelist_size - b.size + left.size
    <3>1. b.size > n /\ b.size - n >= Header /\ freelist' = PushFront(left, rest)
      BY <1>1, <1>7 DEF Fits
    <3>2. b.pos + n \in Nat /\ b.size - n \in Nat
      BY <1>4, <3>1
    <3>3. left \in Blocks /\ left.pos = b.pos + n /\ left.size = b.size - n
      BY <3>2, BlockType
    <3>4. freelist_size' = freelist_size - b.size + (b.size - n)
      BY <1>1
    <3>5. b.size >= n
      BY <1>4, <3>1
    <3> HIDE DEF left, rest
    <3> QED BY <3>1, <3>3, <3>4, <3>5
  <2>2. left \notin Elements(rest)
    <3>1. SUFFICES ASSUME left \in Elements(rest) PROVE FALSE
      OBVIOUS
    <3>2. <<"free", left>> \in C /\ <<"free", left>> # x
      BY <1>3, <3>1 DEF Claims
    <3>3. Apart(left, b)
      BY <1>2, <3>2 DEF IInv, NoOverlap, AllApart
    <3>4. /\ b.pos \in Nat /\ b.size \in Nat /\ Header \in Nat /\ Header > 0
          /\ left.pos = b.pos + n /\ left.size = b.size - n /\ left.size >= Header
      BY <1>4, <2>1
    <3> HIDE DEF left, b
    <3> QED BY <3>3, <3>4, SMTT(30) DEF Apart
  <2>3. Elements(freelist') = (E \ {b}) \cup {left}
    BY <1>3, <2>1, <2>2, PushFree
  <2> DEFINE D == C \ {x}
             h == <<"held", got'>>
             f == <<"free", left>>
  <2>4. Claims' = (D \cup {h}) \cup {f}
    BY <1>2, <1>5, <2>3 DEF Claims, Held, TakeFree
  <2>5. /\ h \notin D /\ f \notin D \cup {h}
        /\ h \in Uses \X Blocks /\ f \in Uses \X Blocks /\ h[2] = got' /\ f[2] = left
        /\ x[2] = b /\ D \in SUBSET (Uses \X Blocks) /\ D \cup {h} \in SUBSET (Uses \X Blocks)
    BY <1>2, <1>3, <1>5, <2>1, <2>2 DEF Claims, Held, Uses
  <2>6. \A z \in Claims' : Aligned(z[2])
    <3>1. (b.pos + n) % 8 = 0 /\ (b.size - n) % 8 = 0
      BY <1>4, <2>1, MultiplesOf8
    <3>2. Aligned(got') /\ Aligned(left)
      BY <1>4, <1>5, <2>1, <3>1 DEF Aligned
    <3>3. \A z \in Claims' : z \in C \/ z[2] = got' \/ z[2] = left
      BY <2>4
    <3> QED BY <3>2, <3>3 DEF Books
  <2>7. IsFiniteSet(C) /\ IsFiniteSet(E)
    BY DEF Books
  <2>i. b.size \in Int /\ left.size = b.size - n
    BY <1>4, <2>1
  <2> HIDE DEF h, f, D, left, rest, x, b, C, E
  <2>8. /\ IsFiniteSet(D)
        /\ SumFunctionOnSet(ClaimSize, D) = SumFunctionOnSet(ClaimSize, C) - b.size
        /\ SumFunctionOnSet(ClaimSize, C) \in Int
    BY <1>2, <2>5, <2>7, ClaimSum DEF D
  <2>9. /\ IsFiniteSet(D \cup {h})
        /\ SumFunctionOnSet(ClaimSize, D \cup {h}) = SumFunctionOnSet(ClaimSize, D) + n
    BY <2>5, <2>8, <1>5, ClaimSum
  <2>10. /\ IsFiniteSet(Claims')
         /\ SumFunctionOnSet(ClaimSize, Claims')
              = SumFunctionOnSet(ClaimSize, D \cup {h}) + left.size
    BY <2>4, <2>5, <2>9, ClaimSum
  <2>11. SumFunctionOnSet(ClaimSize, Claims') = SumFunctionOnSet(ClaimSize, C)
    BY <2>8, <2>9, <2>10, <2>i
  <2>12. /\ IsFiniteSet(E \ {b}) /\ E \ {b} \in SUBSET Blocks /\ left \notin E \ {b}
         /\ SumFunctionOnSet(BlockSize, E \ {b}) = SumFunctionOnSet(BlockSize, E) - b.size
    BY <1>2, <1>3, <2>2, <2>7, FreeSum
  <2>13. /\ IsFiniteSet(Elements(freelist'))
         /\ SumFunctionOnSet(BlockSize, Elements(freelist'))
              = SumFunctionOnSet(BlockSize, E \ {b}) + left.size
    BY <2>1, <2>3, <2>12, FreeSum
  <2>14. freelist_size' = SumFunctionOnSet(BlockSize, Elements(freelist'))
    BY <2>1, <2>12, <2>13 DEF Books, E
  <2> QED BY <1>2, <2>6, <2>10, <2>11, <2>13, <2>14 DEF Books, C
<1> QED BY <1>6, <1>7

(* Every step keeps the books.                                             *)
LEMMA StepBooks == IInv /\ Books /\ [Next]_vars => Books'
<1> SUFFICES ASSUME IInv, Books, [Next]_vars PROVE Books'
  OBVIOUS
<1>1. TypeOK /\ NoOverlap /\ NoBlock \notin Blocks
  BY FreeSpaceAssumption DEF IInv, Blocks
<1>2. ASSUME NEW k \in Sizes, GetSpace(k) PROVE Books'
  <2> DEFINE n == RoundUp(k)
  <2>1. n \in Nat /\ n >= Header /\ n % 8 = 0
    BY RoundUpEnough, MultiplesOf8, FreeSpaceAssumption
  <2> HIDE DEF n
  <2>2. got = NoBlock /\ UNCHANGED <<records, lost>>
    BY <1>2 DEF GetSpace
  <2>3. CASE TakeFree(n)
    BY <2>1, <2>2, <2>3, TakeFreeBooks
  <2>4. CASE TakeRoom(n)
    BY <2>1, <2>2, <2>4, TakeRoomBooks DEF TakeRoom
  <2>5. CASE TakeGrown(n)
    <3>1. UNCHANGED <<freelist, freelist_size>>
      BY <2>5 DEF TakeGrown
    <3>2. CASE data_size' = 0
      BY <2>2, <2>5, <3>1, <3>2, SameBooks DEF TakeGrown
    <3>3. CASE data_size' # 0
      <4>1. next_addpos' = next_addpos + n /\ got' = Block(next_addpos, n)
        BY <2>5, <3>3 DEF TakeGrown
      <4> QED BY <2>1, <2>2, <3>1, <4>1, TakeRoomBooks
    <3> QED BY <3>2, <3>3
  <2>6. CASE TakeNothing(n)
    BY <2>2, <2>6, SameBooks DEF TakeNothing
  <2> QED BY <1>2, <2>3, <2>4, <2>5, <2>6 DEF GetSpace, n
<1>3. CASE Link
  <2>1. /\ got \in Blocks /\ <<"held", got>> \in Claims /\ "record" \in Uses
        /\ Claims' = (Claims \ {<<"held", got>>}) \cup {<<"record", got>>}
        /\ UNCHANGED <<next_addpos, freelist, freelist_size>>
    BY <1>1, <1>3 DEF Link, TypeOK, Claims, Held, Uses
  <2> QED BY <2>1, NewUseBooks
<1>4. CASE GiveBack
  <2>1. /\ got \in Blocks /\ <<"held", got>> \in Claims /\ "free" \in Uses
        /\ freelist \in Seq(Blocks) /\ NoTwice(freelist)
        /\ freelist' = PushFront(got, freelist)
        /\ freelist_size' = freelist_size + got.size
        /\ got' = NoBlock /\ UNCHANGED <<next_addpos, records, lost>>
    BY <1>1, <1>4 DEF GiveBack, DelSpace, TypeOK, Claims, Held, NoOverlap, Uses
  <2>2. got \notin Elements(freelist)
    <3>1. SUFFICES ASSUME got \in Elements(freelist) PROVE FALSE
      OBVIOUS
    <3>2. <<"free", got>> \in Claims
      BY <3>1 DEF Claims
    <3>3. <<"free", got>> = <<"held", got>>
      BY <2>1, <3>2, OneUse
    <3> QED BY <3>3
  <2>3. Elements(freelist') = Elements(freelist) \cup {got}
    BY <2>1, <2>2, PushFree
  <2>4. Claims' = (Claims \ {<<"held", got>>}) \cup {<<"free", got>>}
    BY <2>1, <2>3 DEF Claims, Held
  <2> QED BY <2>1, <2>2, <2>3, <2>4, NewUseBooks
<1>5. ASSUME NEW b \in records, UnlinkRecord(b) PROVE Books'
  <2>1. /\ b \in Blocks /\ <<"record", b>> \in Claims /\ "held" \in Uses
        /\ UNCHANGED <<next_addpos, freelist, freelist_size>>
    BY <1>1, <1>5 DEF TypeOK, Claims, Uses, UnlinkRecord
  <2>2. Claims' = (Claims \ {<<"record", b>>}) \cup {<<"held", b>>}
    BY <1>1, <1>5, <2>1 DEF Claims, Held, UnlinkRecord
  <2> QED BY <2>1, <2>2, NewUseBooks
<1>6. CASE Crash
  <2>1. UNCHANGED <<next_addpos, freelist, freelist_size, records>> /\ got' = NoBlock
    BY <1>6 DEF Crash
  <2>2. CASE got = NoBlock
    BY <1>6, <2>1, <2>2, SameBooks DEF Crash
  <2>3. CASE got # NoBlock
    <3>1. /\ got \in Blocks /\ <<"held", got>> \in Claims /\ "lost" \in Uses
          /\ lost' = lost \cup {got}
      BY <1>1, <1>6, <2>3 DEF Crash, TypeOK, Claims, Held, Uses
    <3>2. Claims' = (Claims \ {<<"held", got>>}) \cup {<<"lost", got>>}
      BY <2>1, <3>1 DEF Claims, Held
    <3> QED BY <2>1, <3>1, <3>2, NewUseBooks
  <2> QED BY <2>2, <2>3
<1>7. CASE MapAgain \/ FindChannel \/ ReleaseChannel \/ UNCHANGED vars
  <2>1. UNCHANGED <<freelist, freelist_size, records, lost, got, next_addpos>>
    BY <1>7 DEF MapAgain, FindChannel, ReleaseChannel, vars, fileVars
  <2> QED BY <2>1, SameBooks
<1> QED BY <1>2, <1>3, <1>4, <1>5, <1>6, <1>7 DEF Next

(* No byte of the used part of the file is forgotten unless a crash forgot *)
(* it, cfi_freelist_size is what is free, and every block can hold the     *)
(* header of a free one (_chanfixdb_get_space, _chanfixdb_del_space).      *)
THEOREM SpaceIsAccounted == Spec => []SpaceAccounted
<1>1. IInv /\ Books => SpaceAccounted
  <2> SUFFICES ASSUME IInv, Books
               PROVE  TypeOK /\ NothingLeaks /\ FreeSizeRight /\ HeadersFit
    BY DEF SpaceAccounted
  <2>1. Claims \in SUBSET (Uses \X Blocks) /\ Elements(freelist) \in SUBSET Blocks
    BY ClaimsType DEF IInv
  <2>2. NothingLeaks
    <3> DEFINE g == [x \in Claims |-> x[2].size]
    <3>1. \A x \in Claims : ClaimSize[x] \in Int /\ g[x] = ClaimSize[x]
      BY <2>1 DEF ClaimSize, Blocks
    <3>2. DOMAIN g = Claims /\ IsFiniteSet(Claims)
      BY DEF Books
    <3> HIDE DEF g
    <3>3. SumFunction(g) = SumFunctionOnSet(ClaimSize, Claims)
      BY <3>1, <3>2, SumOfFunction
    <3> QED BY <3>3 DEF Books, NothingLeaks, g
  <2>3. FreeSizeRight
    <3> DEFINE g == [b \in Elements(freelist) |-> b.size]
    <3>1. \A b \in Elements(freelist) : BlockSize[b] \in Int /\ g[b] = BlockSize[b]
      BY <2>1 DEF BlockSize, Blocks
    <3>2. DOMAIN g = Elements(freelist) /\ IsFiniteSet(Elements(freelist))
      BY DEF Books
    <3> HIDE DEF g
    <3>3. SumFunction(g) = SumFunctionOnSet(BlockSize, Elements(freelist))
      BY <3>1, <3>2, SumOfFunction
    <3> QED BY <3>3 DEF Books, FreeSizeRight, g
  <2>4. HeadersFit
    BY DEF IInv, BigEnough, Books, Aligned, HeadersFit
  <2> QED BY <2>2, <2>3, <2>4 DEF IInv
<1> QED BY <1>1, InitIInv, NextIInv, InitBooks, StepBooks, PTL DEF Spec

-----------------------------------------------------------------------------
(* The chain of a channel: places, and where the offsets lead.             *)

(* What a field of a record or of the channel may hold.                    *)
Offsets == Recs \cup {Nil}

(* The record at place k of the chain s, Nil when there is none.           *)
At(s, k) == IF k \in 1 .. Len(s) THEN s[k] ELSE Nil

(* The offsets next lead through the records of s, and from no other       *)
(* record to any.                                                          *)
Way(next, s) ==
  /\ next \in [Recs -> Offsets] /\ s \in Seq(Recs) /\ NoTwice(s)
  /\ \A k \in 1 .. Len(s) : next[s[k]] = At(s, k + 1)
  /\ \A x \in Recs \ Elements(s) : next[x] = Nil

-----------------------------------------------------------------------------
(* Some facts about where the offsets of a chain lead.                     *)
LEMMA WayFacts ==
  ASSUME NEW next, NEW s, Way(next, s)
  PROVE  /\ Len(s) \in Nat /\ Nil \notin Recs
         /\ \A k \in 1 .. Len(s) : s[k] \in Recs /\ s[k] \in Elements(s) /\ s[k] # Nil
         /\ \A k \in 1 .. Len(s) : k = Len(s) => next[s[k]] = Nil
         /\ \A k \in 1 .. Len(s) : k # Len(s) => k + 1 \in 1 .. Len(s) /\ next[s[k]] = s[k + 1]
         /\ \A x \in Elements(s) : \E k \in 1 .. Len(s) : x = s[k]
<1>1. Len(s) \in Nat /\ \A k \in 1 .. Len(s) : s[k] \in Recs
  BY LenProperties, ElementOfSeq DEF Way
<1>2. \A k \in 1 .. Len(s) : s[k] \in Elements(s)
  BY DEF Elements
<1>3. Nil \notin Recs
  BY ScoreLinksAssumption
<1>4. \A k \in 1 .. Len(s) : k = Len(s) => At(s, k + 1) = Nil
  BY <1>1 DEF At
<1>5. \A k \in 1 .. Len(s) : k # Len(s) => k + 1 \in 1 .. Len(s) /\ At(s, k + 1) = s[k + 1]
  BY <1>1 DEF At
<1>6. \A x \in Elements(s) : \E k \in 1 .. Len(s) : x = s[k]
  BY DEF Elements
<1> QED BY <1>1, <1>2, <1>3, <1>4, <1>5, <1>6 DEF Way

(* The first offset from place i on that is not one of over.               *)
StopsAt(s, over, i, j, c) ==
  /\ j \in i + 1 .. Len(s) + 1 /\ c = At(s, j) /\ c \notin over
  /\ \A k \in i + 1 .. j - 1 : s[k] \in over

Stops(next, over, g) ==
  g = [x \in Recs |-> IF next[x] \in over THEN g[next[x]] ELSE next[x]]

(* Whatever satisfies the equation of the loop stops where the loop does.  *)
LEMMA StopsThere ==
  ASSUME NEW next, NEW s, Way(next, s), NEW over \in SUBSET Recs,
         NEW g, Stops(next, over, g)
  PROVE  \A i \in 1 .. Len(s) : \E j \in Int : StopsAt(s, over, i, j, g[s[i]])
<1> DEFINE n == Len(s)
           A == {i \in 1 .. n : \E j \in Int : StopsAt(s, over, i, j, g[s[i]])}
<1>0. /\ n \in Nat /\ Nil \notin Recs
      /\ \A k \in 1 .. n : s[k] \in Recs
      /\ \A k \in 1 .. n : k = n => next[s[k]] = Nil
      /\ \A k \in 1 .. n : k # n => k + 1 \in 1 .. n /\ next[s[k]] = s[k + 1]
  <2>1. n \in Nat /\ Nil \notin Recs /\ \A k \in 1 .. n : s[k] \in Recs
    BY WayFacts
  <2>2. \A k \in 1 .. n : k = n => next[s[k]] = Nil
    BY WayFacts
  <2>3. \A k \in 1 .. n : k # n => k + 1 \in 1 .. n /\ next[s[k]] = s[k + 1]
    BY WayFacts
  <2> QED BY <2>1, <2>2, <2>3
<1>1. \A x \in Recs : g[x] = IF next[x] \in over THEN g[next[x]] ELSE next[x]
  BY DEF Stops
<1>2. ASSUME NEW k \in 1 .. n, k = n \/ k + 1 \in A PROVE k \in A
  <2>1. CASE next[s[k]] \notin over
    <3>1. g[s[k]] = next[s[k]]
      BY <1>0, <1>1, <2>1
    <3>2. next[s[k]] = At(s, k + 1) /\ k + 1 \in Int
      BY DEF Way
    <3>3. StopsAt(s, over, k, k + 1, g[s[k]])
      BY <1>0, <2>1, <3>1, <3>2 DEF StopsAt
    <3> QED BY <3>2, <3>3
  <2>2. CASE next[s[k]] \in over
    <3>1. k # n
      BY <1>0, <2>2
    <3>2. k + 1 \in 1 .. n /\ next[s[k]] = s[k + 1] /\ k + 1 \in A
      BY <1>0, <1>2, <3>1
    <3>3. g[s[k]] = g[s[k + 1]]
      BY <1>0, <1>1, <2>2, <3>2
    <3>4. PICK j \in Int : StopsAt(s, over, k + 1, j, g[s[k + 1]])
      BY <3>2
    <3>5. j \in (k + 1) + 1 .. n + 1 /\ g[s[k]] = At(s, j) /\ g[s[k]] \notin over
          /\ \A m \in (k + 1) + 1 .. j - 1 : s[m] \in over
      BY <3>3, <3>4 DEF StopsAt
    <3>6. \A m \in k + 1 .. j - 1 : m = k + 1 \/ m \in (k + 1) + 1 .. j - 1
      BY <3>2, <3>5
    <3>7. s[k + 1] \in over
      BY <2>2, <3>2
    <3>8. \A m \in k + 1 .. j - 1 : s[m] \in over
      BY <3>5, <3>6, <3>7
    <3>9. j \in k + 1 .. n + 1
      BY <1>0, <3>5
    <3>10. StopsAt(s, over, k, j, g[s[k]])
      BY <3>5, <3>8, <3>9 DEF StopsAt
    <3> QED BY <3>10
  <2> QED BY <2>1, <2>2
<1> HIDE DEF A
<1>3. \A k \in 1 .. n : k \in A
  BY <1>0, <1>2, DownFromLast
<1> QED BY <1>3 DEF A

(* The search loops stop, and where the chain does.                        *)
LEMMA FirstIsFound ==
  ASSUME NEW next, NEW s, Way(next, s), NEW over \in SUBSET Recs, NEW i \in 1 .. Len(s)
  PROVE  \E j \in Int : StopsAt(s, over, i, j, FirstNotOf(over, next, s[i]))
<1> DEFINE n == Len(s)
           good(k) == {j \in k + 1 .. n + 1 : At(s, j) \notin over}
           place(x) == CHOOSE k \in 1 .. n : s[k] = x
           g == [x \in Recs |-> IF x \in Elements(s) THEN At(s, Min(good(place(x)))) ELSE Nil]
           h == CHOOSE f : Stops(next, over, f)
<1>0. /\ n \in Nat /\ Nil \notin Recs
      /\ \A k \in 1 .. n : s[k] \in Recs /\ s[k] \in Elements(s)
      /\ \A k \in 1 .. n : k = n => next[s[k]] = Nil
      /\ \A k \in 1 .. n : k # n => k + 1 \in 1 .. n /\ next[s[k]] = s[k + 1]
  BY WayFacts
<1>11. \A x \in Elements(s) : \E k \in 1 .. n : x = s[k]
  BY DEF Elements
<1>1. \A k \in 1 .. n : place(s[k]) = k
  <2> SUFFICES ASSUME NEW k \in 1 .. n PROVE place(s[k]) = k
    OBVIOUS
  <2>1. place(s[k]) \in 1 .. n /\ s[place(s[k])] = s[k]
    OBVIOUS
  <2> QED BY <2>1 DEF Way, NoTwice
<1>2. \A k \in 1 .. n : g[s[k]] = At(s, Min(good(k)))
  BY <1>0, <1>1
<1>3. \A x \in Recs \ Elements(s) : g[x] = Nil
  OBVIOUS
<1>4. \A k \in 1 .. n : good(k) \subseteq Nat /\ n + 1 \in good(k)
  BY <1>0 DEF At
<1>5. \A k \in 1 .. n : Min(good(k)) \in good(k) /\ \A j \in good(k) : Min(good(k)) <= j
  BY <1>4, MinIsLeast
<1>6. \A x \in Recs : g[x] = IF next[x] \in over THEN g[next[x]] ELSE next[x]
  <2> SUFFICES ASSUME NEW x \in Recs
               PROVE  g[x] = IF next[x] \in over THEN g[next[x]] ELSE next[x]
    OBVIOUS
  <2> HIDE DEF g
  <2>1. CASE x \notin Elements(s)
    BY <1>0, <1>3, <2>1 DEF Way
  <2>2. CASE x \in Elements(s)
    <3>1. PICK k \in 1 .. n : x = s[k]
      BY <1>11, <2>2
    <3>2. next[x] = At(s, k + 1)
      BY <3>1 DEF Way
    <3>3. CASE next[x] \notin over
      <4>1. k + 1 \in good(k)
        BY <1>0, <3>2, <3>3
      <4>2. Min(good(k)) = k + 1
        <5> DEFINE m == Min(good(k))
        <5>1. m \in good(k) /\ m <= k + 1
          BY <1>5, <4>1
        <5>2. m \in k + 1 .. n + 1
          BY <5>1
        <5> HIDE DEF m
        <5>3. m = k + 1
          BY <1>0, <5>1, <5>2
        <5> QED BY <5>3 DEF m
      <4> QED BY <1>2, <3>1, <3>2, <3>3, <4>2
    <3>4. CASE next[x] \in over
      <4>1. k # n
        BY <1>0, <3>1, <3>4
      <4>2. k + 1 \in 1 .. n /\ next[x] = s[k + 1]
        BY <1>0, <3>1, <4>1
      <4>3. \A j \in good(k) : j \in good(k + 1)
        <5>1. At(s, k + 1) \in over
          BY <3>2, <3>4
        <5>2. \A j \in k + 1 .. n + 1 : j = k + 1 \/ j \in (k + 1) + 1 .. n + 1
          BY <1>0
        <5> QED BY <5>1, <5>2
      <4>4. \A j \in good(k + 1) : j \in good(k)
        BY <1>0, <4>2
      <4>5. good(k) = good(k + 1)
        BY <4>3, <4>4
      <4>6. g[s[k]] = g[s[k + 1]]
        BY <1>2, <4>2, <4>5
      <4> QED BY <3>1, <3>4, <4>2, <4>6
    <3> QED BY <3>3, <3>4
  <2> QED BY <2>1, <2>2
<1>7. g = [x \in Recs |-> g[x]]
  OBVIOUS
<1> HIDE DEF g
<1>8. Stops(next, over, g)
  BY <1>6, <1>7 DEF Stops
<1>9. Stops(next, over, h)
  BY <1>8
<1>10. FirstNotOf(over, next, s[i]) = h[s[i]]
  BY DEF FirstNotOf, Stops
<1> HIDE DEF h
<1> QED BY <1>9, <1>10, StopsThere

Walks(next, g) ==
  g = [x \in Recs \cup {Nil} |-> IF x = Nil THEN <<>> ELSE <<x>> \o g[next[x]]]

(* Whatever satisfies the equation of the walk reads the chain.            *)
LEMMA WalksThere ==
  ASSUME NEW next, NEW s, Way(next, s), NEW g, Walks(next, g)
  PROVE  g[Nil] = <<>> /\ \A k \in 1 .. Len(s) : g[s[k]] = Rest(s, k)
<1> DEFINE n == Len(s)
           A == {k \in 1 .. n : g[s[k]] = Rest(s, k)}
<1>0. /\ n \in Nat /\ s \in Seq(Recs)
      /\ \A k \in 1 .. n : s[k] \in Recs /\ s[k] # Nil
      /\ \A k \in 1 .. n : k = n => next[s[k]] = Nil
      /\ \A k \in 1 .. n : k # n => k + 1 \in 1 .. n /\ next[s[k]] = s[k + 1]
  BY WayFacts DEF Way
<1>1. g[Nil] = <<>> /\ \A x \in Recs : x # Nil => g[x] = <<x>> \o g[next[x]]
  BY DEF Walks
<1>2. Rest(s, n + 1) = <<>> /\ \A k \in 1 .. n : Rest(s, k) = <<s[k]>> \o Rest(s, k + 1)
  <2>1. s \in Seq(Recs)
    BY <1>0
  <2> QED BY <2>1, RestSteps
<1>3. ASSUME NEW k \in 1 .. n, k = n \/ k + 1 \in A PROVE k \in A
  <2>1. g[next[s[k]]] = Rest(s, k + 1)
    BY <1>0, <1>1, <1>2, <1>3
  <2>2. g[s[k]] = <<s[k]>> \o g[next[s[k]]]
    BY <1>0, <1>1
  <2> QED BY <1>2, <2>1, <2>2
<1> HIDE DEF A
<1>4. \A k \in 1 .. n : k \in A
  BY <1>0, <1>3, DownFromLast
<1> QED BY <1>1, <1>4 DEF A

(* Walking from the first record reads the chain.                          *)
LEMMA WalkReads ==
  ASSUME NEW next, NEW s, Way(next, s)
  PROVE  Walk(next, At(s, 1)) = s
<1> DEFINE n == Len(s)
           place(x) == CHOOSE k \in 1 .. n : s[k] = x
           g == [x \in Recs \cup {Nil} |-> IF x = Nil THEN <<>>
                                           ELSE IF x \in Elements(s) THEN Rest(s, place(x))
                                           ELSE <<x>>]
           h == CHOOSE f : Walks(next, f)
<1>0. /\ n \in Nat /\ s \in Seq(Recs) /\ Nil \notin Recs
      /\ \A k \in 1 .. n : s[k] \in Recs /\ s[k] \in Elements(s) /\ s[k] # Nil
      /\ \A k \in 1 .. n : k = n => next[s[k]] = Nil
      /\ \A k \in 1 .. n : k # n => k + 1 \in 1 .. n /\ next[s[k]] = s[k + 1]
  BY WayFacts DEF Way
<1>1. \A x \in Elements(s) : \E k \in 1 .. n : x = s[k]
  BY DEF Elements
<1>2. \A k \in 1 .. n : place(s[k]) = k
  <2> SUFFICES ASSUME NEW k \in 1 .. n PROVE place(s[k]) = k
    OBVIOUS
  <2>1. place(s[k]) \in 1 .. n /\ s[place(s[k])] = s[k]
    OBVIOUS
  <2> QED BY <2>1 DEF Way, NoTwice
<1>3. /\ \A k \in 1 .. n : g[s[k]] = Rest(s, k)
      /\ g[Nil] = <<>>
      /\ \A x \in Recs \ Elements(s) : g[x] = <<x>>
  BY <1>0, <1>2
<1>4. g = [x \in Recs \cup {Nil} |-> g[x]]
  OBVIOUS
<1> HIDE DEF g
<1>5. Rest(s, n + 1) = <<>> /\ \A k \in 1 .. n : Rest(s, k) = <<s[k]>> \o Rest(s, k + 1)
  <2>1. s \in Seq(Recs)
    BY <1>0
  <2> QED BY <2>1, RestSteps
<1>6. \A x \in Recs : g[x] = <<x>> \o g[next[x]]
  <2> SUFFICES ASSUME NEW x \in Recs PROVE g[x] = <<x>> \o g[next[x]]
    OBVIOUS
  <2>1. CASE x \notin Elements(s)
    <3>1. next[x] = Nil /\ g[x] = <<x>>
      BY <1>3, <2>1 DEF Way
    <3>2. <<x>> \o <<>> = <<x>>
      OBVIOUS
    <3> QED BY <1>3, <3>1, <3>2
  <2>2. CASE x \in Elements(s)
    <3>1. PICK k \in 1 .. n : x = s[k]
      BY <1>1, <2>2
    <3>2. g[next[s[k]]] = Rest(s, k + 1)
      BY <1>0, <1>3, <1>5
    <3> QED BY <1>3, <1>5, <3>1, <3>2
  <2> QED BY <2>1, <2>2
<1>7. Walks(next, g)
  BY <1>0, <1>3, <1>4, <1>6 DEF Walks
<1>8. Walks(next, h)
  BY <1>7
<1>9. Walk(next, At(s, 1)) = h[At(s, 1)]
  BY DEF Walk, Walks
<1> HIDE DEF h
<1>10. h[Nil] = <<>> /\ \A k \in 1 .. n : h[s[k]] = Rest(s, k)
  BY <1>8, WalksThere
<1>11. Rest(s, 1) = s
  BY <1>0, RestSteps
<1>12. CASE n = 0
  <2>1. At(s, 1) = Nil /\ Rest(s, 1) = <<>>
    BY <1>5, <1>12 DEF At
  <2> QED BY <1>9, <1>10, <1>11, <2>1
<1>13. CASE n # 0
  <2>1. 1 \in 1 .. n /\ At(s, 1) = s[1]
    BY <1>0, <1>13 DEF At
  <2> QED BY <1>9, <1>10, <1>11, <2>1
<1> QED BY <1>12, <1>13

-----------------------------------------------------------------------------
(* The type of what a channel keeps of its chain.                          *)
Links == [first : Offsets, last : Offsets, next : [Recs -> Offsets], prev : [Recs -> Offsets]]

(* The offsets L are those of the chain s.                                 *)
Shows(L, s) ==
  /\ L \in Links /\ s \in Seq(Recs) /\ NoTwice(s)
  /\ L.first = At(s, 1) /\ L.last = At(s, Len(s))
  /\ \A k \in 1 .. Len(s) : L.next[s[k]] = At(s, k + 1) /\ L.prev[s[k]] = At(s, k - 1)

(* The offsets M are L but for those of and to the record r, which is      *)
(* between places j - 1 and j of the chain s.                              *)
LinkedIn(L, M, s, r, j) ==
  /\ M \in Links
  /\ M.first = (IF j = 1 THEN r ELSE L.first)
  /\ M.last = (IF j = Len(s) + 1 THEN r ELSE L.last)
  /\ M.next[r] = At(s, j) /\ M.prev[r] = At(s, j - 1)
  /\ \A x \in Recs \ {r} : /\ M.next[x] = (IF x = At(s, j - 1) THEN r ELSE L.next[x])
                           /\ M.prev[x] = (IF x = At(s, j) THEN r ELSE L.prev[x])

(* The record r is put in at place j.                                      *)
Insert(s, r, j) ==
  [k \in 1 .. Len(s) + 1 |-> IF k < j THEN s[k] ELSE IF k = j THEN r ELSE s[k - 1]]

(* What is at the places of a chain.                                       *)
LEMMA AtFacts ==
  ASSUME NEW s \in Seq(Recs), NoTwice(s)
  PROVE  /\ Len(s) \in Nat /\ Nil \notin Recs
         /\ \A k \in 1 .. Len(s) : s[k] \in Recs /\ s[k] \in Elements(s) /\ At(s, k) = s[k]
         /\ \A k \in Int : k \notin 1 .. Len(s) => At(s, k) = Nil
         /\ \A k \in 1 .. Len(s) : \A j \in Int : s[k] = At(s, j) => k = j
         /\ \A k \in Int : At(s, k) \in Offsets
         /\ \A x \in Elements(s) : \E k \in 1 .. Len(s) : x = s[k]
<1>1. Len(s) \in Nat /\ \A k \in 1 .. Len(s) : s[k] \in Recs
  BY LenProperties, ElementOfSeq
<1>2. \A k \in 1 .. Len(s) : s[k] \in Elements(s)
  BY DEF Elements
<1>3. Nil \notin Recs
  BY ScoreLinksAssumption
<1>4. \A k \in 1 .. Len(s) : At(s, k) = s[k]
  BY DEF At
<1>5. \A k \in Int : k \notin 1 .. Len(s) => At(s, k) = Nil
  BY DEF At
<1>6. \A k \in 1 .. Len(s) : \A j \in Int : s[k] = At(s, j) => k = j
  <2> SUFFICES ASSUME NEW k \in 1 .. Len(s), NEW j \in Int, s[k] = At(s, j) PROVE k = j
    OBVIOUS
  <2>1. j \in 1 .. Len(s)
    BY <1>1, <1>3, <1>5
  <2> QED BY <1>4, <2>1 DEF NoTwice
<1>7. \A k \in Int : At(s, k) \in Offsets
  BY <1>1, <1>4, <1>5 DEF Offsets
<1>8. \A x \in Elements(s) : \E k \in 1 .. Len(s) : x = s[k]
  BY DEF Elements
<1> QED BY <1>1, <1>2, <1>3, <1>4, <1>5, <1>6, <1>7, <1>8

(* A record put in once keeps a chain a chain.                             *)
LEMMA InsertKeeps ==
  ASSUME NEW s \in Seq(Recs), NoTwice(s), NEW r \in Recs, r \notin Elements(s),
         NEW j \in 1 .. Len(s) + 1
  PROVE  LET u == Insert(s, r, j)
         IN  /\ u \in Seq(Recs) /\ Len(u) = Len(s) + 1 /\ NoTwice(u)
             /\ Elements(u) = Elements(s) \cup {r}
             /\ \A k \in Int : At(u, k) = IF k < j THEN At(s, k)
                                          ELSE IF k = j THEN r ELSE At(s, k - 1)
<1> DEFINE u == Insert(s, r, j)
           n == Len(s)
<1>0. /\ n \in Nat /\ \A k \in 1 .. n : s[k] \in Recs /\ s[k] \in Elements(s)
      /\ \A k \in 1 .. n : At(s, k) = s[k]
      /\ \A k \in Int : k \notin 1 .. n => At(s, k) = Nil
      /\ \A k \in 1 .. n : \A i \in 1 .. n : s[k] = s[i] => k = i
  BY AtFacts DEF NoTwice
<1>1. u = [k \in 1 .. n + 1 |-> IF k < j THEN s[k] ELSE IF k = j THEN r ELSE s[k - 1]]
  BY DEF Insert
<1>2. /\ \A k \in 1 .. n + 1 : k < j => k \in 1 .. n /\ u[k] = s[k]
      /\ u[j] = r
      /\ \A k \in 1 .. n + 1 : k > j => k - 1 \in 1 .. n /\ u[k] = s[k - 1]
  BY <1>0, <1>1
<1>3. u \in Seq(Recs) /\ Len(u) = n + 1
  <2>1. \A k \in 1 .. n + 1 : u[k] \in Recs
    <3> SUFFICES ASSUME NEW k \in 1 .. n + 1 PROVE u[k] \in Recs
      OBVIOUS
    <3>1. k < j \/ k = j \/ k > j
      BY <1>0
    <3> QED BY <1>0, <1>2, <3>1
  <2>2. u \in [1 .. n + 1 -> Recs]
    BY <1>1, <2>1
  <2> HIDE DEF u
  <2> QED BY <1>0, <2>2, SeqDef, LenProperties
<1> HIDE DEF u
<1>4. ASSUME NEW k \in Int
      PROVE  At(u, k) = IF k < j THEN At(s, k) ELSE IF k = j THEN r ELSE At(s, k - 1)
  <2>1. CASE k \notin 1 .. n + 1
    <3>1. At(u, k) = Nil
      BY <1>3, <2>1 DEF At
    <3>2. k \notin 1 .. n /\ k # j /\ (k > j => k - 1 \notin 1 .. n) /\ k - 1 \in Int
      BY <1>0, <2>1
    <3> QED BY <1>0, <3>1, <3>2
  <2>2. CASE k \in 1 .. n + 1
    <3>1. At(u, k) = u[k]
      BY <1>3, <2>2 DEF At
    <3>2. CASE k < j
      BY <1>0, <1>2, <2>2, <3>1, <3>2
    <3>3. CASE k = j
      BY <1>2, <3>1, <3>3
    <3>4. CASE k > j
      <4>1. k - 1 \in 1 .. n /\ u[k] = s[k - 1] /\ ~ (k < j) /\ k # j
        BY <1>2, <2>2, <3>4
      <4> QED BY <1>0, <3>1, <4>1
    <3> QED BY <3>2, <3>3, <3>4
  <2> QED BY <2>1, <2>2
<1>5. NoTwice(u)
  <2> SUFFICES ASSUME NEW k \in 1 .. n + 1, NEW i \in 1 .. n + 1, u[k] = u[i], k < i PROVE FALSE
    <3>1. \A k, i \in 1 .. n + 1 : u[k] = u[i] => ~ (k < i)
      OBVIOUS
    <3>2. \A k, i \in 1 .. n + 1 : u[k] = u[i] => k = i
      BY <1>0, <3>1
    <3> QED BY <1>3, <3>2 DEF NoTwice
  <2>1. CASE i < j
    BY <1>0, <1>2, <2>1
  <2>2. CASE i = j
    BY <1>0, <1>2, <2>2
  <2>3. CASE i > j
    <3>1. i - 1 \in 1 .. n /\ u[i] = s[i - 1]
      BY <1>2, <2>3
    <3>2. CASE k < j
      BY <1>0, <1>2, <2>3, <3>1, <3>2
    <3>3. CASE k = j
      BY <1>0, <1>2, <3>1, <3>3
    <3>4. CASE k > j
      <4>1. k - 1 \in 1 .. n /\ u[k] = s[k - 1]
        BY <1>2, <3>4
      <4>2. k - 1 = i - 1
        BY <1>0, <3>1, <4>1
      <4> QED BY <4>2
    <3> QED BY <3>2, <3>3, <3>4
  <2> QED BY <2>1, <2>2, <2>3
<1>6. Elements(u) = Elements(s) \cup {r}
  <2>1. \A k \in 1 .. n + 1 : u[k] \in Elements(s) \cup {r}
    <3> SUFFICES ASSUME NEW k \in 1 .. n + 1 PROVE u[k] \in Elements(s) \cup {r}
      OBVIOUS
    <3>1. k < j \/ k = j \/ k > j
      BY <1>0
    <3> QED BY <1>0, <1>2, <3>1
  <2>2. \A k \in 1 .. n : \E i \in 1 .. n + 1 : u[i] = s[k]
    <3> SUFFICES ASSUME NEW k \in 1 .. n PROVE \E i \in 1 .. n + 1 : u[i] = s[k]
      OBVIOUS
    <3>1. CASE k < j
      BY <1>0, <1>2, <3>1
    <3>2. CASE ~ (k < j)
      <4>1. k + 1 \in 1 .. n + 1 /\ k + 1 > j /\ (k + 1) - 1 = k
        BY <1>0, <3>2
      <4> QED BY <1>2, <4>1
    <3> QED BY <3>1, <3>2
  <2>3. Elements(u) = {u[k] : k \in 1 .. n + 1} /\ Elements(s) = {s[k] : k \in 1 .. n}
    BY <1>3 DEF Elements
  <2>4. Elements(u) \subseteq Elements(s) \cup {r}
    BY <2>1, <2>3
  <2>5. j \in 1 .. n + 1 /\ r \in Elements(u)
    BY <1>2, <2>3
  <2>6. Elements(s) \subseteq Elements(u)
    BY <2>2, <2>3
  <2> QED BY <2>4, <2>5, <2>6
<1> QED BY <1>3, <1>4, <1>5, <1>6 DEF u

(* Linking a record in at place j gives the offsets of the chain with it.  *)
LEMMA InsertShows ==
  ASSUME NEW L, NEW s, Shows(L, s), NEW r \in Recs, r \notin Elements(s),
         NEW j \in 1 .. Len(s) + 1, NEW M, LinkedIn(L, M, s, r, j)
  PROVE  Shows(M, Insert(s, r, j))
<1> DEFINE u == Insert(s, r, j)
           n == Len(s)
<1>0. s \in Seq(Recs) /\ NoTwice(s)
  BY DEF Shows
<1>1. /\ n \in Nat /\ \A k \in 1 .. n : s[k] \in Recs \ {r} /\ At(s, k) = s[k]
      /\ \A k \in Int : k \notin 1 .. n => At(s, k) = Nil
      /\ \A k \in 1 .. n : \A i \in Int : s[k] = At(s, i) => k = i
  BY <1>0, AtFacts
<1>2. /\ u \in Seq(Recs) /\ Len(u) = n + 1 /\ NoTwice(u)
      /\ \A k \in Int : At(u, k) = IF k < j THEN At(s, k) ELSE IF k = j THEN r ELSE At(s, k - 1)
  BY <1>0, InsertKeeps
<1>3. \A k \in 1 .. n + 1 : u[k] = At(u, k)
  BY <1>2 DEF At
<1> HIDE DEF u
<1>4. /\ M \in Links
      /\ M.first = (IF j = 1 THEN r ELSE At(s, 1))
      /\ M.last = (IF j = n + 1 THEN r ELSE At(s, n))
      /\ M.next[r] = At(s, j) /\ M.prev[r] = At(s, j - 1)
      /\ \A k \in 1 .. n :
           /\ M.next[s[k]] = IF s[k] = At(s, j - 1) THEN r ELSE At(s, k + 1)
           /\ M.prev[s[k]] = IF s[k] = At(s, j) THEN r ELSE At(s, k - 1)
  BY <1>1 DEF LinkedIn, Shows
<1>5. \A k \in 1 .. n : /\ M.next[s[k]] = IF k = j - 1 THEN r ELSE At(s, k + 1)
                        /\ M.prev[s[k]] = IF k = j THEN r ELSE At(s, k - 1)
  <2> SUFFICES ASSUME NEW k \in 1 .. n
               PROVE  /\ M.next[s[k]] = IF k = j - 1 THEN r ELSE At(s, k + 1)
                      /\ M.prev[s[k]] = IF k = j THEN r ELSE At(s, k - 1)
    OBVIOUS
  <2>1. s[k] = At(s, j - 1) <=> k = j - 1
    BY <1>1
  <2>2. s[k] = At(s, j) <=> k = j
    BY <1>1
  <2> QED BY <1>4, <2>1, <2>2
<1>6. M.first = At(u, 1)
  BY <1>1, <1>2, <1>4
<1>7. M.last = At(u, n + 1)
  BY <1>1, <1>2, <1>4
<1>8. ASSUME NEW k \in 1 .. n + 1
      PROVE  M.next[u[k]] = At(u, k + 1) /\ M.prev[u[k]] = At(u, k - 1)
  <2>0. k \in Int /\ k - 1 \in Int /\ k + 1 \in Int /\ u[k] = At(u, k)
    BY <1>1, <1>3
  <2>1. CASE k < j
    <3>1. k \in 1 .. n /\ u[k] = s[k] /\ k # j
      BY <1>1, <1>2, <2>0, <2>1
    <3>2. M.prev[u[k]] = At(s, k - 1) /\ At(u, k - 1) = At(s, k - 1)
      BY <1>2, <1>5, <2>0, <2>1, <3>1
    <3>3. CASE k = j - 1
      BY <1>2, <1>5, <2>0, <3>1, <3>2, <3>3
    <3>4. CASE k # j - 1
      <4>1. k + 1 < j
        BY <1>1, <2>1, <3>4
      <4> QED BY <1>2, <1>5, <2>0, <3>1, <3>2, <3>4, <4>1
    <3> QED BY <3>3, <3>4
  <2>2. CASE k = j
    <3>1. u[k] = r
      BY <1>2, <2>0, <2>2
    <3>2. ~ (k + 1 < j) /\ k + 1 # j /\ (k + 1) - 1 = j /\ k - 1 < j
      BY <1>1, <2>2
    <3>3. At(u, k + 1) = At(s, j) /\ At(u, k - 1) = At(s, j - 1)
      BY <1>2, <2>0, <2>2, <3>2
    <3> QED BY <1>4, <3>1, <3>3
  <2>3. CASE k > j
    <3>1. k - 1 \in 1 .. n /\ (k - 1) + 1 = k /\ k - 1 # j - 1 /\ ~ (k < j) /\ k # j
      BY <1>1, <2>3
    <3>2. u[k] = s[k - 1]
      BY <1>1, <1>2, <2>0, <3>1
    <3>3. M.next[u[k]] = At(s, k) /\ At(u, k + 1) = At(s, k)
      <4>1. ~ (k + 1 < j) /\ k + 1 # j /\ (k + 1) - 1 = k
        BY <1>1, <2>3
      <4> QED BY <1>2, <1>5, <2>0, <3>1, <3>2, <4>1
    <3>4. M.prev[u[k]] = At(u, k - 1)
      <4>1. CASE k - 1 = j
        BY <1>2, <1>5, <2>0, <3>1, <3>2, <4>1
      <4>2. CASE k - 1 # j
        <5>1. ~ (k - 1 < j)
          BY <1>1, <2>3
        <5> QED BY <1>2, <1>5, <2>0, <3>1, <3>2, <4>2, <5>1
      <4> QED BY <4>1, <4>2
    <3> QED BY <3>3, <3>4
  <2> QED BY <1>1, <2>0, <2>1, <2>2, <2>3
<1> QED BY <1>2, <1>4, <1>6, <1>7, <1>8 DEF Shows, u

(* The four places at which a record is put in.                            *)
LEMMA PutsLinkIn ==
  ASSUME NEW L, NEW s, Shows(L, s), NEW r \in Recs, r \notin Elements(s)
  PROVE  /\ LinkedIn(L, PutFirst(L, r), s, r, 1)
         /\ LinkedIn(L, PutLast(L, r), s, r, Len(s) + 1)
         /\ \A i \in 1 .. Len(s) : /\ LinkedIn(L, PutBefore(L, r, s[i]), s, r, i)
                                   /\ LinkedIn(L, PutAfter(L, r, s[i]), s, r, i + 1)
<1> DEFINE n == Len(s)
<1>0. s \in Seq(Recs) /\ NoTwice(s)
  BY DEF Shows
<1>1. /\ n \in Nat /\ Nil \notin Recs
      /\ \A k \in 1 .. n : s[k] \in Recs \ {r} /\ At(s, k) = s[k]
      /\ \A k \in Int : k \notin 1 .. n => At(s, k) = Nil
      /\ \A k \in Int : At(s, k) \in Offsets
  BY <1>0, AtFacts
<1>2. /\ L.next \in [Recs -> Offsets] /\ L.prev \in [Recs -> Offsets]
      /\ L.first \in Offsets /\ L.last \in Offsets
      /\ L.first = At(s, 1) /\ L.last = At(s, n)
      /\ \A k \in 1 .. n : L.next[s[k]] = At(s, k + 1) /\ L.prev[s[k]] = At(s, k - 1)
  BY DEF Shows, Links
<1>3. r \in Offsets /\ Nil \in Offsets
  BY DEF Offsets
<1>4. At(s, 0) = Nil /\ At(s, n + 1) = Nil
  BY <1>1
<1>5. L.first = Nil <=> n = 0
  BY <1>1, <1>2
<1>6. L.last = Nil <=> n = 0
  BY <1>1, <1>2
<1>7. LinkedIn(L, PutFirst(L, r), s, r, 1)
  <2> DEFINE M == PutFirst(L, r)
  <2>1. /\ M.first = r /\ M.last = (IF L.first = Nil THEN r ELSE L.last)
        /\ M.next = [L.next EXCEPT ![r] = L.first]
        /\ M.prev = [x \in Recs |-> IF x = r THEN Nil ELSE IF x = L.first THEN r ELSE L.prev[x]]
        /\ M = [first |-> M.first, last |-> M.last, next |-> M.next, prev |-> M.prev]
    BY DEF PutFirst
  <2> HIDE DEF M
  <2>2. M \in Links
    BY <1>2, <1>3, <2>1 DEF Links
  <2>3. M.next[r] = At(s, 1) /\ M.prev[r] = At(s, 1 - 1)
    BY <1>2, <1>4, <2>1
  <2>4. \A x \in Recs \ {r} : x # At(s, 1 - 1)
    BY <1>1, <1>4
  <2>5. \A x \in Recs \ {r} : /\ M.next[x] = (IF x = At(s, 1 - 1) THEN r ELSE L.next[x])
                              /\ M.prev[x] = (IF x = At(s, 1) THEN r ELSE L.prev[x])
    BY <1>2, <2>1, <2>4
  <2>6. M.last = (IF 1 = n + 1 THEN r ELSE L.last)
    BY <1>1, <1>5, <2>1
  <2> QED BY <2>1, <2>2, <2>3, <2>5, <2>6 DEF LinkedIn, M
<1>8. LinkedIn(L, PutLast(L, r), s, r, n + 1)
  <2> DEFINE M == PutLast(L, r)
  <2>1. /\ M.first = (IF L.last = Nil THEN r ELSE L.first) /\ M.last = r
        /\ M.next = [x \in Recs |-> IF x = r THEN Nil ELSE IF x = L.last THEN r ELSE L.next[x]]
        /\ M.prev = [L.prev EXCEPT ![r] = L.last]
        /\ M = [first |-> M.first, last |-> M.last, next |-> M.next, prev |-> M.prev]
    BY DEF PutLast
  <2> HIDE DEF M
  <2>2. M \in Links
    BY <1>2, <1>3, <2>1 DEF Links
  <2>0. (n + 1) - 1 = n
    BY <1>1
  <2>3. M.next[r] = At(s, n + 1) /\ M.prev[r] = At(s, (n + 1) - 1)
    BY <1>2, <1>4, <2>0, <2>1
  <2>4. \A x \in Recs \ {r} : x # At(s, n + 1)
    BY <1>1, <1>4
  <2>5. \A x \in Recs \ {r} : /\ M.next[x] = (IF x = At(s, (n + 1) - 1) THEN r ELSE L.next[x])
                              /\ M.prev[x] = (IF x = At(s, n + 1) THEN r ELSE L.prev[x])
    BY <1>2, <2>0, <2>1, <2>4
  <2>6. M.first = (IF n + 1 = 1 THEN r ELSE L.first)
    BY <1>1, <1>6, <2>1
  <2> QED BY <2>1, <2>2, <2>3, <2>5, <2>6 DEF LinkedIn, M
<1>9. ASSUME NEW i \in 1 .. n PROVE LinkedIn(L, PutBefore(L, r, s[i]), s, r, i)
  <2> DEFINE c == s[i]
             M == PutBefore(L, r, c)
  <2>0. c \in Recs \ {r} /\ c = At(s, i) /\ L.prev[c] = At(s, i - 1) /\ i # n + 1
    BY <1>1, <1>2
  <2>1. /\ M.first = (IF L.prev[c] = Nil THEN r ELSE L.first) /\ M.last = L.last
        /\ M.next = [x \in Recs |-> IF x = r THEN c ELSE IF x = L.prev[c] THEN r ELSE L.next[x]]
        /\ M.prev = [L.prev EXCEPT ![r] = L.prev[c], ![c] = r]
        /\ M = [first |-> M.first, last |-> M.last, next |-> M.next, prev |-> M.prev]
    BY DEF PutBefore
  <2> HIDE DEF M, c
  <2>2. M \in Links
    BY <1>2, <1>3, <2>0, <2>1 DEF Links, Offsets
  <2>3. M.next[r] = At(s, i) /\ M.prev[r] = At(s, i - 1)
    BY <1>2, <2>0, <2>1
  <2>5. \A x \in Recs \ {r} : /\ M.next[x] = (IF x = At(s, i - 1) THEN r ELSE L.next[x])
                              /\ M.prev[x] = (IF x = At(s, i) THEN r ELSE L.prev[x])
    BY <1>2, <2>0, <2>1
  <2>6. L.prev[c] = Nil <=> i = 1
    BY <1>1, <1>4, <2>0
  <2> QED BY <2>0, <2>1, <2>2, <2>3, <2>5, <2>6 DEF LinkedIn, M, c
<1>10. ASSUME NEW i \in 1 .. n PROVE LinkedIn(L, PutAfter(L, r, s[i]), s, r, i + 1)
  <2> DEFINE c == s[i]
             M == PutAfter(L, r, c)
  <2>0. c \in Recs \ {r} /\ c = At(s, (i + 1) - 1) /\ L.next[c] = At(s, i + 1) /\ i + 1 # 1
    BY <1>1, <1>2
  <2>1. /\ M.first = L.first /\ M.last = (IF L.next[c] = Nil THEN r ELSE L.last)
        /\ M.next = [L.next EXCEPT ![r] = L.next[c], ![c] = r]
        /\ M.prev = [x \in Recs |-> IF x = r THEN c ELSE IF x = L.next[c] THEN r ELSE L.prev[x]]
        /\ M = [first |-> M.first, last |-> M.last, next |-> M.next, prev |-> M.prev]
    BY DEF PutAfter
  <2> HIDE DEF M, c
  <2>2. M \in Links
    <3>1. c \in Recs /\ c \in Offsets /\ L.next[c] \in Offsets
      BY <1>2, <2>0 DEF Offsets
    <3>2. M.next \in [Recs -> Offsets]
      BY <1>2, <1>3, <2>1, <3>1
    <3>3. M.prev \in [Recs -> Offsets]
      BY <1>2, <1>3, <2>1, <3>1
    <3>4. M.first \in Offsets /\ M.last \in Offsets
      BY <1>2, <1>3, <2>1
    <3> QED BY <2>1, <3>2, <3>3, <3>4 DEF Links
  <2>3. M.next[r] = At(s, i + 1) /\ M.prev[r] = At(s, (i + 1) - 1)
    BY <1>2, <2>0, <2>1
  <2>5. \A x \in Recs \ {r} : /\ M.next[x] = (IF x = At(s, (i + 1) - 1) THEN r ELSE L.next[x])
                              /\ M.prev[x] = (IF x = At(s, i + 1) THEN r ELSE L.prev[x])
    BY <1>2, <2>0, <2>1
  <2>6. L.next[c] = Nil <=> i + 1 = n + 1
    BY <1>1, <1>4, <2>0
  <2> QED BY <2>0, <2>1, <2>2, <2>3, <2>5, <2>6 DEF LinkedIn, M, c
<1> QED BY <1>7, <1>8, <1>9, <1>10

(* What a chain has at its places without the record at place i.           *)
LEMMA AtUnlink ==
  ASSUME NEW s \in Seq(Recs), NoTwice(s), NEW i \in 1 .. Len(s)
  PROVE  LET u == Unlink(s, i)
         IN  /\ u \in Seq(Recs) /\ Len(u) = Len(s) - 1 /\ NoTwice(u)
             /\ Elements(u) = Elements(s) \ {s[i]}
             /\ \A k \in Int : At(u, k) = IF k < i THEN At(s, k) ELSE At(s, k + 1)
<1> DEFINE u == Unlink(s, i)
           n == Len(s)
<1>0. /\ n \in Nat
      /\ \A k \in 1 .. n : At(s, k) = s[k]
      /\ \A k \in Int : k \notin 1 .. n => At(s, k) = Nil
  BY AtFacts
<1>1. /\ u \in Seq(Recs) /\ Len(u) = n - 1 /\ NoTwice(u)
      /\ Elements(u) = Elements(s) \ {s[i]}
  BY UnlinkKeeps
<1>2. \A k \in 1 .. n - 1 : u[k] = IF k < i THEN s[k] ELSE s[k + 1]
  BY DEF Unlink
<1> HIDE DEF u
<1>3. ASSUME NEW k \in Int
      PROVE  At(u, k) = IF k < i THEN At(s, k) ELSE At(s, k + 1)
  <2>1. CASE k \in 1 .. n - 1
    <3>1. At(u, k) = u[k]
      BY <1>1, <2>1 DEF At
    <3>2. k \in 1 .. n /\ k + 1 \in 1 .. n
      BY <1>0, <2>1
    <3> QED BY <1>0, <1>2, <2>1, <3>1, <3>2
  <2>2. CASE k \notin 1 .. n - 1
    <3>1. At(u, k) = Nil
      BY <1>1, <2>2 DEF At
    <3>2. (k < i => k \notin 1 .. n) /\ (~ (k < i) => k + 1 \notin 1 .. n) /\ k + 1 \in Int
      BY <1>0, <2>2
    <3> QED BY <1>0, <3>1, <3>2
  <2> QED BY <2>1, <2>2
<1> QED BY <1>1, <1>3 DEF u

(* The offsets without the record at place i are those of the chain        *)
(* without it, and the others keep theirs.                                 *)
LEMMA RemovedShows ==
  ASSUME NEW L, NEW s, Shows(L, s), NEW i \in 1 .. Len(s)
  PROVE  /\ Shows(Removed(L, s[i]), Unlink(s, i))
         /\ \A x \in Recs \ Elements(s) : /\ Removed(L, s[i]).next[x] = L.next[x]
                                          /\ Removed(L, s[i]).prev[x] = L.prev[x]
<1> DEFINE n == Len(s)
           r == s[i]
           M == Removed(L, r)
           u == Unlink(s, i)
<1>0. s \in Seq(Recs) /\ NoTwice(s)
  BY DEF Shows
<1>1. /\ n \in Nat /\ Nil \notin Recs
      /\ \A k \in 1 .. n : s[k] \in Recs /\ s[k] \in Elements(s) /\ At(s, k) = s[k]
      /\ \A k \in Int : k \notin 1 .. n => At(s, k) = Nil
      /\ \A k \in 1 .. n : \A j \in Int : s[k] = At(s, j) => k = j
      /\ \A k \in Int : At(s, k) \in Offsets
  BY <1>0, AtFacts
<1>11. \A k \in Int : At(s, k) \in Elements(s) \cup {Nil}
  BY <1>1
<1>2. /\ L.next \in [Recs -> Offsets] /\ L.prev \in [Recs -> Offsets]
      /\ L.first \in Offsets /\ L.last \in Offsets
      /\ L.first = At(s, 1) /\ L.last = At(s, n)
      /\ \A k \in 1 .. n : L.next[s[k]] = At(s, k + 1) /\ L.prev[s[k]] = At(s, k - 1)
  BY DEF Shows, Links
<1>3. /\ u \in Seq(Recs) /\ Len(u) = n - 1 /\ NoTwice(u)
      /\ \A k \in Int : At(u, k) = IF k < i THEN At(s, k) ELSE At(s, k + 1)
  BY <1>0, AtUnlink
<1>4. L.next[r] = At(s, i + 1) /\ L.prev[r] = At(s, i - 1)
  BY <1>2
<1>5. /\ M.first = (IF At(s, i - 1) = Nil THEN At(s, i + 1) ELSE L.first)
      /\ M.last = (IF At(s, i + 1) = Nil THEN At(s, i - 1) ELSE L.last)
      /\ M.next = [x \in Recs |-> IF x = At(s, i - 1) THEN At(s, i + 1) ELSE L.next[x]]
      /\ M.prev = [x \in Recs |-> IF x = At(s, i + 1) THEN At(s, i - 1) ELSE L.prev[x]]
      /\ M = [first |-> M.first, last |-> M.last, next |-> M.next, prev |-> M.prev]
  BY <1>4 DEF Removed
<1>6. \A k \in 1 .. n - 1 : u[k] = At(u, k)
  BY <1>3 DEF At
<1> HIDE DEF M, r, u
<1>7. M \in Links
  <2>1. At(s, i - 1) \in Offsets /\ At(s, i + 1) \in Offsets
    BY <1>1
  <2> QED BY <1>2, <1>5, <2>1 DEF Links
<1>8. At(s, i - 1) = Nil <=> i = 1
  BY <1>1
<1>9. At(s, i + 1) = Nil <=> i = n
  BY <1>1
<1>10. M.first = At(u, 1)
  <2>1. CASE i = 1
    BY <1>3, <1>5, <1>8, <2>1
  <2>2. CASE i # 1
    BY <1>2, <1>3, <1>5, <1>8, <2>2
  <2> QED BY <2>1, <2>2
<1>12. M.last = At(u, n - 1)
  <2>1. CASE i = n
    BY <1>1, <1>3, <1>5, <1>9, <2>1
  <2>2. CASE i # n
    <3>1. ~ (n - 1 < i) /\ (n - 1) + 1 = n
      BY <1>1, <2>2
    <3>2. n - 1 \in Int /\ At(u, n - 1) = At(s, n)
      BY <1>1, <1>3, <3>1
    <3>3. M.last = L.last
      BY <1>5, <1>9, <2>2
    <3> QED BY <1>2, <3>2, <3>3
  <2> QED BY <2>1, <2>2
<1>13. \A k \in 1 .. n : /\ M.next[s[k]] = IF k = i - 1 THEN At(s, i + 1) ELSE At(s, k + 1)
                         /\ M.prev[s[k]] = IF k = i + 1 THEN At(s, i - 1) ELSE At(s, k - 1)
  <2> SUFFICES ASSUME NEW k \in 1 .. n
               PROVE  /\ M.next[s[k]] = IF k = i - 1 THEN At(s, i + 1) ELSE At(s, k + 1)
                      /\ M.prev[s[k]] = IF k = i + 1 THEN At(s, i - 1) ELSE At(s, k - 1)
    OBVIOUS
  <2>1. s[k] = At(s, i - 1) <=> k = i - 1
    BY <1>1
  <2>2. s[k] = At(s, i + 1) <=> k = i + 1
    BY <1>1
  <2>3. s[k] \in Recs /\ L.next[s[k]] = At(s, k + 1) /\ L.prev[s[k]] = At(s, k - 1)
    BY <1>1, <1>2
  <2> QED BY <1>5, <2>1, <2>2, <2>3
<1>14. ASSUME NEW k \in 1 .. n - 1
       PROVE  M.next[u[k]] = At(u, k + 1) /\ M.prev[u[k]] = At(u, k - 1)
  <2>0. k \in Int /\ k - 1 \in Int /\ k + 1 \in Int /\ u[k] = At(u, k)
    BY <1>1, <1>6
  <2>1. CASE k < i
    <3>0. k \in 1 .. n /\ k # i + 1 /\ k - 1 < i
      BY <1>1, <2>1
    <3>1. k \in 1 .. n /\ u[k] = s[k] /\ k # i + 1 /\ k - 1 < i
      BY <1>1, <1>3, <2>0, <2>1, <3>0
    <3>2. M.prev[u[k]] = At(u, k - 1)
      BY <1>3, <1>13, <2>0, <3>1
    <3>3. CASE k = i - 1
      <4>1. k + 1 = i /\ ~ (k + 1 < i)
        BY <1>1, <3>3
      <4> QED BY <1>3, <1>13, <2>0, <3>1, <3>2, <3>3, <4>1
    <3>4. CASE k # i - 1
      <4>1. k + 1 < i
        BY <1>1, <2>1, <3>4
      <4> QED BY <1>3, <1>13, <2>0, <3>1, <3>2, <3>4, <4>1
    <3> QED BY <3>3, <3>4
  <2>2. CASE ~ (k < i)
    <3>1. k + 1 \in 1 .. n /\ u[k] = s[k + 1] /\ k + 1 # i - 1 /\ ~ (k + 1 < i)
      BY <1>1, <1>3, <2>0, <2>2
    <3>2. M.next[u[k]] = At(u, k + 1)
      BY <1>3, <1>13, <2>0, <3>1
    <3>3. CASE k = i
      <4>1. k - 1 < i /\ k - 1 = i - 1 /\ k + 1 = i + 1
        BY <1>1, <3>3
      <4>2. M.prev[u[k]] = At(s, i - 1)
        BY <1>13, <3>1, <4>1
      <4> QED BY <1>3, <2>0, <3>2, <4>1, <4>2
    <3>4. CASE k # i
      <4>1. ~ (k - 1 < i) /\ k + 1 # i + 1 /\ (k + 1) - 1 = k /\ (k - 1) + 1 = k
        BY <1>1, <2>2, <3>4
      <4>2. M.prev[u[k]] = At(s, k)
        BY <1>13, <3>1, <4>1
      <4>3. At(u, k - 1) = At(s, k)
        BY <1>3, <2>0, <4>1
      <4> QED BY <3>2, <4>2, <4>3
    <3> QED BY <3>3, <3>4
  <2> QED BY <2>1, <2>2
<1>15. Shows(M, u)
  BY <1>3, <1>7, <1>10, <1>12, <1>14 DEF Shows
<1>16. ASSUME NEW x \in Recs \ Elements(s)
       PROVE  M.next[x] = L.next[x] /\ M.prev[x] = L.prev[x]
  <2>1. x # At(s, i - 1) /\ x # At(s, i + 1)
    BY <1>1, <1>11
  <2> QED BY <1>5, <2>1
<1> QED BY <1>15, <1>16 DEF M, u, r

-----------------------------------------------------------------------------
(* Records that lead nowhere.                                              *)
Loose(L, D) == \A x \in D : L.next[x] = Nil /\ L.prev[x] = Nil

Backwards(s) == [k \in DOMAIN s |-> s[Len(s) + 1 - k]]

(* The chain from its last record.                                         *)
LEMMA BackwardsKeeps ==
  ASSUME NEW s \in Seq(Recs), NoTwice(s)
  PROVE  /\ Backwards(s) \in Seq(Recs) /\ Len(Backwards(s)) = Len(s)
         /\ NoTwice(Backwards(s)) /\ Elements(Backwards(s)) = Elements(s)
         /\ \A k \in Int : At(Backwards(s), k) = At(s, Len(s) + 1 - k)
         /\ \A k \in 1 .. Len(s) : Backwards(s)[k] = s[Len(s) + 1 - k]
<1> DEFINE n == Len(s)
           b == Backwards(s)
<1>0. n \in Nat /\ DOMAIN s = 1 .. n /\ \A k \in 1 .. n : s[k] \in Recs
  BY LenProperties, ElementOfSeq
<1>1. \A k \in 1 .. n : n + 1 - k \in 1 .. n /\ n + 1 - (n + 1 - k) = k
  BY <1>0
<1>2. b = [k \in 1 .. n |-> s[n + 1 - k]]
  BY <1>0 DEF Backwards
<1> HIDE DEF b
<1>3. \A k \in 1 .. n : b[k] = s[n + 1 - k]
  BY <1>2
<1>4. b \in Seq(Recs) /\ Len(b) = n
  <2> HIDE DEF n
  <2>1. b \in [1 .. n -> Recs]
    BY <1>0, <1>1, <1>2
  <2> QED BY <1>0, <2>1, SeqDef, LenProperties
<1>5. NoTwice(b)
  <2> SUFFICES ASSUME NEW i \in 1 .. n, NEW j \in 1 .. n, b[i] = b[j] PROVE i = j
    BY <1>4 DEF NoTwice
  <2>1. n + 1 - i = n + 1 - j
    <3>1. s[n + 1 - i] = s[n + 1 - j]
      BY <1>3
    <3> QED BY <1>1, <3>1 DEF NoTwice
  <2> QED BY <1>0, <2>1
<1>6. Elements(b) = Elements(s)
  <2>1. Elements(b) = {b[k] : k \in 1 .. n} /\ Elements(s) = {s[k] : k \in 1 .. n}
    BY <1>4 DEF Elements
  <2> HIDE DEF n
  <2>2. \A k \in 1 .. n : b[k] \in Elements(s)
    BY <1>1, <1>3, <2>1
  <2>3. \A k \in 1 .. n : b[n + 1 - k] = s[k]
    BY <1>1, <1>3
  <2>4. \A k \in 1 .. n : s[k] \in Elements(b)
    BY <1>1, <2>1, <2>3
  <2> QED BY <2>1, <2>2, <2>4
<1>7. ASSUME NEW k \in Int PROVE At(b, k) = At(s, n + 1 - k)
  <2>1. k \in 1 .. n <=> n + 1 - k \in 1 .. n
    BY <1>0
  <2> HIDE DEF n
  <2> QED BY <1>3, <1>4, <2>1 DEF At, n
<1> QED BY <1>3, <1>4, <1>5, <1>6, <1>7 DEF b

(* Both ways through the offsets of a chain.                               *)
LEMMA BothWays ==
  ASSUME NEW L, NEW s, Shows(L, s), Loose(L, Recs \ Elements(s))
  PROVE  Way(L.next, s) /\ Way(L.prev, Backwards(s))
<1> DEFINE n == Len(s)
           b == Backwards(s)
<1>0. s \in Seq(Recs) /\ NoTwice(s) /\ L \in Links
  BY DEF Shows
<1>1. Way(L.next, s)
  BY <1>0 DEF Shows, Links, Loose, Way
<1>2. /\ b \in Seq(Recs) /\ Len(b) = n /\ NoTwice(b) /\ Elements(b) = Elements(s)
      /\ \A k \in Int : At(b, k) = At(s, n + 1 - k)
      /\ \A k \in 1 .. n : b[k] = s[n + 1 - k]
  BY <1>0, BackwardsKeeps
<1>3. n \in Nat
  BY <1>0, LenProperties
<1> HIDE DEF b
<1>4. ASSUME NEW k \in 1 .. Len(b) PROVE L.prev[b[k]] = At(b, k + 1)
  <2>1. n + 1 - k \in 1 .. n /\ (n + 1 - k) - 1 = n + 1 - (k + 1) /\ k + 1 \in Int /\ k \in 1 .. n
    BY <1>2, <1>3
  <2>2. L.prev[s[n + 1 - k]] = At(s, (n + 1 - k) - 1)
    BY <2>1 DEF Shows
  <2> QED BY <1>2, <2>1, <2>2
<1>5. L.prev \in [Recs -> Offsets] /\ \A x \in Recs \ Elements(b) : L.prev[x] = Nil
  BY <1>0, <1>2 DEF Links, Loose
<1>6. Way(L.prev, b)
  BY <1>2, <1>4, <1>5 DEF Way
<1> QED BY <1>1, <1>6 DEF b

(* A record that is taken out and put in again has moved.                  *)
LEMMA MoveIsInsert ==
  ASSUME NEW s \in Seq(Recs), NEW i \in 1 .. Len(s), NEW j \in 1 .. Len(s)
  PROVE  Insert(Unlink(s, i), s[i], j) = Move(s, i, j)
<1> DEFINE n == Len(s)
           u == Unlink(s, i)
<1>0. n \in Nat
  BY LenProperties
<1>1. u = [k \in 1 .. n - 1 |-> IF k < i THEN s[k] ELSE s[k + 1]]
  BY DEF Unlink
<1>2. Len(u) = n - 1
  <2>1. n - 1 \in Nat
    BY <1>0
  <2>2. DOMAIN u = 1 .. n - 1
    BY <1>1
  <2>3. \A k \in 1 .. n : s[k] \in Recs
    BY ElementOfSeq
  <2>4. \A k \in 1 .. n - 1 : k \in 1 .. n /\ k + 1 \in 1 .. n
    BY <1>0
  <2>5. u \in [1 .. n - 1 -> Recs]
    BY <1>1, <2>3, <2>4
  <2> HIDE DEF u
  <2> QED BY <2>1, <2>5, SeqDef, LenProperties
<1> HIDE DEF u
<1>3. (n - 1) + 1 = n
  BY <1>0
<1>4. Insert(u, s[i], j) = [k \in 1 .. n |-> IF k < j THEN u[k] ELSE IF k = j THEN s[i] ELSE u[k - 1]]
  BY <1>2, <1>3 DEF Insert
<1>5. ASSUME NEW k \in 1 .. n
      PROVE  Insert(u, s[i], j)[k] = Move(s, i, j)[k]
  <2>1. Move(s, i, j)[k] = CASE k = j                -> s[i]
                             [] i <= k /\ k < j      -> s[k + 1]
                             [] j < k /\ k <= i      -> s[k - 1]
                             [] OTHER                -> s[k]
    BY DEF Move
  <2>2. Insert(u, s[i], j)[k] = IF k < j THEN u[k] ELSE IF k = j THEN s[i] ELSE u[k - 1]
    BY <1>4
  <2>3. CASE k < j
    <3>1. k \in 1 .. n - 1
      BY <1>0, <2>3
    <3>2. u[k] = IF k < i THEN s[k] ELSE s[k + 1]
      BY <1>1, <3>1
    <3> QED BY <1>0, <2>1, <2>2, <2>3, <3>2
  <2>4. CASE k = j
    BY <1>0, <2>1, <2>2, <2>4
  <2>5. CASE k > j
    <3>1. k - 1 \in 1 .. n - 1 /\ (k - 1) + 1 = k
      BY <1>0, <2>5
    <3>2. u[k - 1] = IF k - 1 < i THEN s[k - 1] ELSE s[k]
      BY <1>1, <3>1
    <3> QED BY <1>0, <2>1, <2>2, <2>5, <3>2
  <2> QED BY <1>0, <2>3, <2>4, <2>5
<1>6. DOMAIN Move(s, i, j) = 1 .. n /\ DOMAIN Insert(u, s[i], j) = 1 .. n
  BY <1>4 DEF Move
<1> QED BY <1>4, <1>5, <1>6 DEF Move, u

(* The end of a sort: the record at place i is put in again at place j.    *)
LEMMA PutBack ==
  ASSUME NEW L, NEW s, Shows(L, s), Loose(L, Recs \ Elements(s)),
         NEW i \in 1 .. Len(s), NEW j \in 1 .. Len(s), NEW M,
         LinkedIn(Removed(L, s[i]), M, Unlink(s, i), s[i], j)
  PROVE  Shows(M, Move(s, i, j)) /\ Loose(M, Recs \ Elements(s))
<1> DEFINE n == Len(s)
           r == s[i]
           R == Removed(L, r)
           u == Unlink(s, i)
<1>0. s \in Seq(Recs) /\ NoTwice(s)
  BY DEF Shows
<1>1. n \in Nat /\ r \in Recs /\ r \in Elements(s) /\ Nil \notin Recs
  BY <1>0, AtFacts
<1>2. Len(u) = n - 1 /\ Elements(u) = Elements(s) \ {r} /\ u \in Seq(Recs) /\ NoTwice(u)
  BY <1>0, AtUnlink
<1>3. Shows(R, u) /\ \A x \in Recs \ Elements(s) : R.next[x] = L.next[x] /\ R.prev[x] = L.prev[x]
  BY RemovedShows
<1>4. Insert(u, r, j) = Move(s, i, j)
  BY <1>0, MoveIsInsert
<1>5. LinkedIn(R, M, u, r, j)
  OBVIOUS
<1> HIDE DEF R, u, r
<1>6. j \in 1 .. Len(u) + 1 /\ r \notin Elements(u)
  BY <1>1, <1>2
<1>7. Shows(M, Insert(u, r, j))
  BY <1>1, <1>3, <1>5, <1>6, InsertShows
<1>8. \A k \in Int : At(u, k) \in Elements(u) \cup {Nil}
  BY <1>2, AtFacts
<1>9. ASSUME NEW x \in Recs \ Elements(s) PROVE M.next[x] = Nil /\ M.prev[x] = Nil
  <2>1. x \in Recs \ {r} /\ x # At(u, j - 1) /\ x # At(u, j)
    BY <1>1, <1>2, <1>8
  <2>2. M.next[x] = R.next[x] /\ M.prev[x] = R.prev[x]
    BY <1>5, <2>1 DEF LinkedIn
  <2> QED BY <1>3, <2>2 DEF Loose
<1> QED BY <1>4, <1>7, <1>9 DEF Loose

(* The forward search and the surgery after it are the move to the place   *)
(* before the first record that is not lower.                              *)
LEMMA ForwardShows ==
  ASSUME NEW L, NEW s, Shows(L, s), Loose(L, Recs \ Elements(s)),
         NEW t \in [Recs -> Int], NEW i \in 1 .. Len(s), GoesForward(s, t, i)
  PROVE  \E j \in 1 .. Len(s) :
            /\ StopsForward(s, t, i, j)
            /\ Shows(SortForward(L, t, s[i]), Move(s, i, j))
            /\ Loose(SortForward(L, t, s[i]), Recs \ Elements(s))
<1> DEFINE n == Len(s)
           r == s[i]
           over == {x \in Recs : t[r] > t[x]}
           cu == FirstNotOf(over, L.next, s[i + 1])
           R == Removed(L, r)
           u == Unlink(s, i)
           M == SortForward(L, t, r)
<1>0. s \in Seq(Recs) /\ NoTwice(s)
  BY DEF Shows
<1>1. /\ n \in Nat /\ Nil \notin Recs /\ r \in Recs /\ r \in Elements(s)
      /\ \A k \in 1 .. n : s[k] \in Recs /\ At(s, k) = s[k]
      /\ \A k \in Int : k \notin 1 .. n => At(s, k) = Nil
  BY <1>0, AtFacts
<1>2. i + 1 \in 1 .. n /\ t[r] > t[s[i + 1]]
  BY <1>1 DEF GoesForward
<1>3. L.next[r] = s[i + 1]
  <2>1. L.next[r] = At(s, i + 1)
    BY DEF Shows
  <2> QED BY <1>1, <1>2, <2>1
<1>4. Way(L.next, s)
  BY BothWays
<1>5. PICK q \in Int : StopsAt(s, over, i + 1, q, cu)
  <2> HIDE DEF over
  <2>1. over \in SUBSET Recs
    BY DEF over
  <2> QED BY <1>2, <1>4, <2>1, FirstIsFound
<1>6. /\ q \in i + 2 .. n + 1 /\ cu = At(s, q) /\ cu \notin over
      /\ \A k \in i + 2 .. q - 1 : s[k] \in over
  <2>1. (i + 1) + 1 = i + 2
    OBVIOUS
  <2> QED BY <1>5, <2>1 DEF StopsAt
<1> DEFINE j == q - 1
<1>7. M = IF cu = Nil THEN PutLast(R, r) ELSE PutBefore(R, r, cu)
  BY <1>3 DEF SortForward, NotLowerAfter
<1>8. Shows(R, u)
  BY RemovedShows
<1>9. /\ u \in Seq(Recs) /\ Len(u) = n - 1 /\ Elements(u) = Elements(s) \ {r}
      /\ \A k \in Int : At(u, k) = IF k < i THEN At(s, k) ELSE At(s, k + 1)
  BY <1>0, AtUnlink
<1>10. \A k \in 1 .. n - 1 : u[k] = At(u, k)
  BY <1>9 DEF At
<1> HIDE DEF M, R, u, cu
<1>11. j \in 1 .. n /\ i < j /\ j + 1 = q
  BY <1>1, <1>6
<1>12. StopsForward(s, t, i, j)
  <2>1. ASSUME NEW k \in i + 1 .. j PROVE t[s[k]] < t[s[i]]
    <3>1. CASE k = i + 1
      BY <1>1, <1>2, <3>1
    <3>2. CASE k # i + 1
      <4>1. k \in i + 2 .. q - 1 /\ k \in 1 .. n
        BY <1>1, <1>11, <3>2
      <4>2. t[r] > t[s[k]]
        BY <1>6, <4>1
      <4> QED BY <1>1, <4>1, <4>2
    <3> QED BY <3>1, <3>2
  <2>2. ASSUME j < n PROVE t[s[j + 1]] >= t[s[i]]
    <3>1. q \in 1 .. n
      BY <1>1, <1>11, <2>2
    <3>2. cu = s[q] /\ s[q] \in Recs
      BY <1>1, <1>6, <3>1
    <3>3. ~ (t[r] > t[s[q]])
      BY <1>6, <3>2
    <3> QED BY <1>1, <1>11, <3>2, <3>3
  <2> HIDE DEF j
  <2> QED BY <1>11, <2>1, <2>2 DEF StopsForward
<1>13. LinkedIn(R, M, u, r, j)
  <2>0. r \notin Elements(u)
    BY <1>9
  <2>1. CASE q = n + 1
    <3>1. cu = Nil /\ j = Len(u) + 1
      BY <1>1, <1>6, <1>9, <2>1
    <3>2. LinkedIn(R, PutLast(R, r), u, r, Len(u) + 1)
      BY <1>1, <1>8, <2>0, PutsLinkIn
    <3> QED BY <1>7, <3>1, <3>2
  <2>2. CASE q # n + 1
    <3>1. q \in 1 .. n /\ j \in 1 .. n - 1 /\ ~ (j < i)
      BY <1>1, <1>6, <1>11, <2>2
    <3>2. cu = s[q] /\ cu # Nil
      BY <1>1, <1>6, <3>1
    <3>3. u[j] = cu
      <4> HIDE DEF j
      <4>1. At(u, j) = At(s, q)
        BY <1>9, <1>11, <3>1
      <4> QED BY <1>6, <1>10, <3>1, <4>1
    <3>4. LinkedIn(R, PutBefore(R, r, u[j]), u, r, j)
      BY <1>1, <1>8, <1>9, <2>0, <3>1, PutsLinkIn
    <3> QED BY <1>7, <3>2, <3>3, <3>4
  <2> QED BY <2>1, <2>2
<1>14. Shows(M, Move(s, i, j)) /\ Loose(M, Recs \ Elements(s))
  BY <1>11, <1>13, PutBack DEF R, u
<1> HIDE DEF j
<1> QED BY <1>11, <1>12, <1>14 DEF M

(* The same for the backward search, which stops after the first record    *)
(* that is not higher.                                                     *)
LEMMA BackwardShows ==
  ASSUME NEW L, NEW s, Shows(L, s), Loose(L, Recs \ Elements(s)),
         NEW t \in [Recs -> Int], NEW i \in 1 .. Len(s), GoesBackward(s, t, i)
  PROVE  \E j \in 1 .. Len(s) :
            /\ StopsBackward(s, t, i, j)
            /\ Shows(SortBackward(L, t, s[i]), Move(s, i, j))
            /\ Loose(SortBackward(L, t, s[i]), Recs \ Elements(s))
<1> DEFINE n == Len(s)
           r == s[i]
           b == Backwards(s)
           p == n + 2 - i
           over == {x \in Recs : t[r] < t[x]}
           cu == FirstNotOf(over, L.prev, s[i - 1])
           R == Removed(L, r)
           u == Unlink(s, i)
           M == SortBackward(L, t, r)
<1>0. s \in Seq(Recs) /\ NoTwice(s)
  BY DEF Shows
<1>1. /\ n \in Nat /\ Nil \notin Recs /\ r \in Recs /\ r \in Elements(s)
      /\ \A k \in 1 .. n : s[k] \in Recs /\ At(s, k) = s[k]
      /\ \A k \in Int : k \notin 1 .. n => At(s, k) = Nil
  BY <1>0, AtFacts
<1>2. i - 1 \in 1 .. n /\ t[r] < t[s[i - 1]]
  BY <1>1 DEF GoesBackward
<1>3. L.prev[r] = s[i - 1]
  <2>1. L.prev[r] = At(s, i - 1)
    BY DEF Shows
  <2> QED BY <1>1, <1>2, <2>1
<1>4. /\ Way(L.prev, b) /\ Len(b) = n
      /\ \A k \in Int : At(b, k) = At(s, n + 1 - k)
      /\ \A k \in 1 .. n : b[k] = s[n + 1 - k]
  BY <1>0, BothWays, BackwardsKeeps
<1>5. p \in 1 .. n /\ b[p] = s[i - 1]
  <2>1. p \in 1 .. n /\ n + 1 - p = i - 1
    BY <1>1, <1>2
  <2> HIDE DEF p, b
  <2> QED BY <1>4, <2>1
<1>6. PICK q \in Int : StopsAt(b, over, p, q, cu)
  <2> HIDE DEF over, p, b
  <2>1. over \in SUBSET Recs
    BY DEF over
  <2>2. \E q \in Int : StopsAt(b, over, p, q, FirstNotOf(over, L.prev, b[p]))
    BY <1>4, <1>5, <2>1, FirstIsFound
  <2> QED BY <1>5, <2>2
<1> DEFINE o == n + 1 - q
           j == o + 1
<1> HIDE DEF cu, b
<1>7. /\ q \in p + 1 .. n + 1 /\ cu = At(b, q) /\ cu \notin over
      /\ \A k \in p + 1 .. q - 1 : b[k] \in over
  BY <1>4, <1>6 DEF StopsAt
<1>8. o \in 0 .. i - 2 /\ o \in Int
  BY <1>1, <1>7
<1>9. cu = At(s, o)
  BY <1>4, <1>7
<1>10. ASSUME NEW k \in o + 1 .. i - 2 PROVE s[k] \in over
  <2>1. n + 1 - k \in p + 1 .. q - 1 /\ n + 1 - k \in 1 .. n /\ n + 1 - (n + 1 - k) = k
    BY <1>1, <1>8
  <2>2. b[n + 1 - k] \in over
    BY <1>7, <2>1
  <2> QED BY <1>4, <2>1, <2>2
<1> HIDE DEF o
<1>11. M = IF cu = Nil THEN PutFirst(R, r) ELSE PutAfter(R, r, cu)
  BY <1>3 DEF SortBackward, NotHigherBefore, cu
<1>12. Shows(R, u)
  BY RemovedShows
<1>13. /\ u \in Seq(Recs) /\ Len(u) = n - 1 /\ Elements(u) = Elements(s) \ {r}
       /\ \A k \in Int : At(u, k) = IF k < i THEN At(s, k) ELSE At(s, k + 1)
  BY <1>0, AtUnlink
<1>14. \A k \in 1 .. n - 1 : u[k] = At(u, k)
  BY <1>13 DEF At
<1> HIDE DEF M, R, u
<1>15. j \in 1 .. n /\ j < i /\ j - 1 = o
  BY <1>1, <1>8
<1>16. StopsBackward(s, t, i, j)
  <2>1. ASSUME NEW k \in j .. i - 1 PROVE t[s[k]] > t[s[i]]
    <3>1. CASE k = i - 1
      BY <1>1, <1>2, <3>1
    <3>2. CASE k # i - 1
      <4>1. k \in o + 1 .. i - 2 /\ k \in 1 .. n
        BY <1>1, <1>8, <3>2
      <4>2. t[r] < t[s[k]]
        BY <1>10, <4>1
      <4> QED BY <1>1, <4>1, <4>2
    <3> QED BY <3>1, <3>2
  <2>2. ASSUME j > 1 PROVE t[s[j - 1]] <= t[s[i]]
    <3>1. o \in 1 .. n
      BY <1>1, <1>8, <1>15, <2>2
    <3>2. cu = s[o] /\ s[o] \in Recs
      BY <1>1, <1>9, <3>1
    <3>3. ~ (t[r] < t[s[o]])
      BY <1>7, <3>2
    <3> QED BY <1>1, <1>15, <3>2, <3>3
  <2> HIDE DEF j
  <2> QED BY <1>15, <2>1, <2>2 DEF StopsBackward
<1>17. LinkedIn(R, M, u, r, j)
  <2>0. r \notin Elements(u)
    BY <1>13
  <2>1. CASE o = 0
    <3>1. cu = Nil /\ j = 1
      BY <1>1, <1>9, <2>1
    <3>2. LinkedIn(R, PutFirst(R, r), u, r, 1)
      BY <1>1, <1>12, <2>0, PutsLinkIn
    <3> QED BY <1>11, <3>1, <3>2
  <2>2. CASE o # 0
    <3>1. o \in 1 .. n /\ o \in 1 .. n - 1 /\ o < i
      BY <1>1, <1>8, <2>2
    <3>2. cu = s[o] /\ cu # Nil
      BY <1>1, <1>9, <3>1
    <3>3. u[o] = cu
      BY <1>9, <1>13, <1>14, <1>8, <3>1
    <3>4. LinkedIn(R, PutAfter(R, r, u[o]), u, r, o + 1)
      BY <1>1, <1>12, <1>13, <2>0, <3>1, PutsLinkIn
    <3> QED BY <1>11, <3>2, <3>3, <3>4
  <2> QED BY <2>1, <2>2
<1>18. Shows(M, Move(s, i, j)) /\ Loose(M, Recs \ Elements(s))
  BY <1>15, <1>17, PutBack DEF R, u
<1> HIDE DEF j
<1> QED BY <1>15, <1>16, <1>18 DEF M

(* chanfixdb_chanuser_sort on the record at place i: the offsets become    *)
(* those of the chain in which that record has moved where its search      *)
(* lands.                                                                  *)
LEMMA SortShows ==
  ASSUME NEW L, NEW s, Shows(L, s), Loose(L, Recs \ Elements(s)),
         NEW t \in [Recs -> Int], NEW i \in 1 .. Len(s)
  PROVE  \E j \in 1 .. Len(s) :
            /\ Lands(s, t, i, j)
            /\ Shows(Sorted(L, t, s[i]), Move(s, i, j))
            /\ Loose(Sorted(L, t, s[i]), Recs \ Elements(s))
<1> DEFINE n == Len(s)
           r == s[i]
           M == Sorted(L, t, r)
<1>0. s \in Seq(Recs) /\ NoTwice(s)
  BY DEF Shows
<1>1. /\ n \in Nat /\ Nil \notin Recs /\ r \in Recs
      /\ \A k \in 1 .. n : s[k] \in Recs /\ At(s, k) = s[k]
      /\ \A k \in Int : k \notin 1 .. n => At(s, k) = Nil
  BY <1>0, AtFacts
<1>2. L.next[r] = At(s, i + 1) /\ L.prev[r] = At(s, i - 1)
  BY DEF Shows
<1>3. L.next[r] # Nil /\ t[r] > t[L.next[r]] <=> GoesForward(s, t, i)
  <2>1. CASE i < n
    <3>1. i + 1 \in 1 .. n
      BY <1>1, <2>1
    <3>2. L.next[r] = s[i + 1] /\ L.next[r] # Nil
      BY <1>1, <1>2, <3>1
    <3> QED BY <2>1, <3>2 DEF GoesForward
  <2>2. CASE ~ (i < n)
    <3>1. i + 1 \notin 1 .. n /\ i + 1 \in Int
      BY <1>1, <2>2
    <3> QED BY <1>1, <1>2, <2>2, <3>1 DEF GoesForward
  <2> QED BY <2>1, <2>2
<1>4. ASSUME ~ GoesForward(s, t, i)
      PROVE  ~ (L.prev[r] = Nil \/ t[r] >= t[L.prev[r]]) <=> GoesBackward(s, t, i)
  <2>1. CASE i > 1
    <3>1. i - 1 \in 1 .. n
      BY <1>1, <2>1
    <3>2. L.prev[r] = s[i - 1] /\ L.prev[r] # Nil /\ s[i - 1] \in Recs
      BY <1>1, <1>2, <3>1
    <3>3. t[r] \in Int /\ t[s[i - 1]] \in Int
      BY <1>1, <3>2
    <3>4. GoesBackward(s, t, i) <=> t[r] < t[s[i - 1]]
      BY <1>4, <2>1 DEF GoesBackward
    <3>5. t[r] < t[s[i - 1]] <=> ~ (t[r] >= t[s[i - 1]])
      BY <3>3
    <3> QED BY <3>2, <3>4, <3>5
  <2>2. CASE ~ (i > 1)
    <3>1. i - 1 \notin 1 .. n /\ i - 1 \in Int
      BY <1>1, <2>2
    <3> QED BY <1>1, <1>2, <2>2, <3>1 DEF GoesBackward
  <2> QED BY <2>1, <2>2
<1>5. M = IF L.next[r] # Nil /\ t[r] > t[L.next[r]] THEN SortForward(L, t, r)
          ELSE IF L.prev[r] = Nil \/ t[r] >= t[L.prev[r]] THEN L
          ELSE SortBackward(L, t, r)
  BY DEF Sorted
<1> HIDE DEF M
<1>6. CASE GoesForward(s, t, i)
  <2>1. M = SortForward(L, t, r)
    BY <1>3, <1>5, <1>6
  <2>2. PICK j \in 1 .. n : /\ StopsForward(s, t, i, j)
                            /\ Shows(SortForward(L, t, r), Move(s, i, j))
                            /\ Loose(SortForward(L, t, r), Recs \ Elements(s))
    BY <1>6, ForwardShows
  <2>3. Lands(s, t, i, j)
    BY <1>6, <2>2 DEF Lands
  <2> QED BY <2>1, <2>2, <2>3 DEF M
<1>7. CASE GoesBackward(s, t, i)
  <2>0. ~ GoesForward(s, t, i)
    BY <1>7 DEF GoesBackward
  <2>1. M = SortBackward(L, t, r)
    BY <1>3, <1>4, <1>5, <1>7, <2>0
  <2>2. PICK j \in 1 .. n : /\ StopsBackward(s, t, i, j)
                            /\ Shows(SortBackward(L, t, r), Move(s, i, j))
                            /\ Loose(SortBackward(L, t, r), Recs \ Elements(s))
    BY <1>7, BackwardShows
  <2>3. Lands(s, t, i, j)
    BY <1>7, <2>2 DEF Lands
  <2> QED BY <2>1, <2>2, <2>3 DEF M
<1>8. CASE ~ GoesForward(s, t, i) /\ ~ GoesBackward(s, t, i)
  <2>1. M = L
    BY <1>3, <1>4, <1>5, <1>8
  <2>2. Lands(s, t, i, i)
    BY <1>8 DEF Lands
  <2>3. Move(s, i, i) = s
    <3>1. \A k \in 1 .. n : Move(s, i, i)[k] = s[k]
      BY <1>1 DEF Move
    <3>2. Move(s, i, i) = [k \in 1 .. n |-> Move(s, i, i)[k]]
      BY DEF Move
    <3>3. s = [k \in 1 .. n |-> s[k]]
      BY <1>0, LenProperties
    <3> QED BY <3>1, <3>2, <3>3
  <2> QED BY <2>1, <2>2, <2>3 DEF M
<1> QED BY <1>6, <1>7, <1>8

-----------------------------------------------------------------------------
(* The inductive invariant: the offsets are those of the chain that the    *)
(* walk from the first record reads, and all other records lead nowhere.   *)
LinksHold ==
  /\ LinksTypeOK
  /\ Shows(links, Chain)
  /\ Loose(links, Recs \ Elements(Chain))

(* Both walks read the chain whose offsets these are.                      *)
LEMMA ChainIsRead ==
  ASSUME NEW L, NEW s, Shows(L, s), Loose(L, Recs \ Elements(s))
  PROVE  /\ L \in Links
         /\ Walk(L.next, L.first) = s
         /\ Walk(L.prev, L.last) = Backwards(s)
<1> DEFINE b == Backwards(s)
<1>0. s \in Seq(Recs) /\ NoTwice(s) /\ L \in Links /\ L.first = At(s, 1) /\ L.last = At(s, Len(s))
  BY DEF Shows
<1>1. Way(L.next, s) /\ Way(L.prev, b)
  BY BothWays
<1>2. \A k \in Int : At(b, k) = At(s, Len(s) + 1 - k)
  BY <1>0, BackwardsKeeps
<1>3. At(b, 1) = At(s, Len(s))
  <2>1. Len(s) + 1 - 1 = Len(s)
    BY <1>0, LenProperties
  <2> HIDE DEF b
  <2> QED BY <1>2, <2>1
<1>4. Walk(L.next, At(s, 1)) = s /\ Walk(L.prev, At(b, 1)) = b
  BY <1>1, WalkReads
<1> QED BY <1>0, <1>3, <1>4

(* The invariant implies what the run checks.                              *)
LEMMA HoldIsSound == LinksHold => LinksSound
<1> SUFFICES ASSUME LinksHold PROVE LinksSound
  OBVIOUS
<1>1. Walk(links.prev, links.last) = Backwards(Chain)
  BY ChainIsRead DEF LinksHold
<1> QED BY <1>1 DEF LinksHold, LinksSound, BothWaysAgree, Backwards

(* A channel that was just created has an empty chain.                     *)
LEMMA HoldsAtInit == LinksInit => LinksHold /\ Chain = <<>>
<1> SUFFICES ASSUME LinksInit PROVE LinksHold /\ Chain = <<>>
  OBVIOUS
<1> DEFINE s == <<>>
<1>1. /\ links.first = Nil /\ links.last = Nil
      /\ links.next = [r \in Recs |-> Nil] /\ links.prev = [r \in Recs |-> Nil]
      /\ links \in Links
  BY DEF LinksInit, Links, Offsets
<1>2. s \in Seq(Recs) /\ Len(s) = 0 /\ 1 .. 0 = {}
  OBVIOUS
<1>3. NoTwice(s) /\ Elements(s) = {} /\ At(s, 1) = Nil /\ At(s, Len(s)) = Nil
  <2>1. \A k \in 1 .. Len(s) : FALSE
    OBVIOUS
  <2>2. 1 \notin 1 .. Len(s) /\ Len(s) \notin 1 .. Len(s)
    OBVIOUS
  <2> HIDE DEF s
  <2> QED BY <2>1, <2>2 DEF NoTwice, Elements, At
<1>4. Shows(links, s)
  <2>1. \A k \in 1 .. Len(s) : FALSE
    OBVIOUS
  <2> HIDE DEF s
  <2> QED BY <1>1, <1>2, <1>3, <2>1 DEF Shows
<1>5. Loose(links, Recs \ Elements(s))
  BY <1>1 DEF Loose
<1> HIDE DEF s
<1>6. Chain = s
  BY <1>4, <1>5, ChainIsRead DEF Chain
<1>7. LinksTypeOK
  <2>1. total \in [Recs -> 0 .. MaxScore]
    BY ScoreLinksAssumption DEF LinksInit
  <2> QED BY <1>1, <2>1 DEF LinksTypeOK, Links, Offsets
<1> QED BY <1>4, <1>5, <1>6, <1>7 DEF LinksHold, s

(* What is known of the chain in every state.                              *)
LEMMA HoldFacts ==
  ASSUME LinksHold
  PROVE  /\ Chain \in Seq(Recs) /\ NoTwice(Chain) /\ Len(Chain) \in Nat
         /\ total \in [Recs -> 0 .. MaxScore] /\ total \in [Recs -> Int]
         /\ \A r \in Recs : Linked(r) <=> r \in Elements(Chain)
<1>1. Chain \in Seq(Recs) /\ NoTwice(Chain) /\ total \in [Recs -> 0 .. MaxScore]
  BY DEF LinksHold, Shows, LinksTypeOK
<1>2. Len(Chain) \in Nat
  BY <1>1, LenProperties
<1>3. total \in [Recs -> Int]
  BY <1>1
<1>4. \A r \in Recs : Linked(r) <=> r \in Elements(Chain)
  BY DEF Linked, Elements
<1> QED BY <1>1, <1>2, <1>3, <1>4

(* A new chain and what the walk in the next state reads.                  *)
LEMMA HoldsNext ==
  ASSUME NEW s, Shows(links', s), Loose(links', Recs \ Elements(s)),
         total' \in [Recs -> 0 .. MaxScore]
  PROVE  LinksHold' /\ Chain' = s
<1>1. Chain' = s /\ links' \in Links
  BY ChainIsRead DEF Chain
<1>2. LinksTypeOK'
  BY <1>1 DEF LinksTypeOK, Links, Offsets
<1> QED BY <1>1, <1>2 DEF LinksHold

(* chanfixdb_chanuser_create on the offsets and on the chain.              *)
LEMMA CreateSteps ==
  ASSUME LinksHold, NEW r \in Recs, Create(r)
  PROVE  /\ LinksHold'
         /\ r \notin Elements(Chain) /\ Chain' = PushFront(r, Chain)
<1> DEFINE s == Chain
           M == PutFirst(links, r)
           u == Insert(s, r, 1)
<1>0. /\ s \in Seq(Recs) /\ NoTwice(s) /\ Len(s) \in Nat
      /\ total \in [Recs -> 0 .. MaxScore]
      /\ r \notin Elements(s)
  BY HoldFacts DEF Create
<1>1. Shows(links, s) /\ Loose(links, Recs \ Elements(s)) /\ links' = M
  BY DEF LinksHold, Create
<1> HIDE DEF s, M
<1>2. LinkedIn(links, M, s, r, 1)
  BY <1>0, <1>1, PutsLinkIn DEF M
<1>3. 1 \in 1 .. Len(s) + 1
  BY <1>0
<1>4. Shows(M, u) /\ Elements(u) = Elements(s) \cup {r}
  BY <1>0, <1>1, <1>2, <1>3, InsertShows, InsertKeeps
<1>5. u = PushFront(r, s)
  BY <1>0 DEF Insert, PushFront
<1> HIDE DEF u
<1>6. \A k \in Int : At(s, k) \in Elements(s) \cup {Nil}
  BY <1>0, AtFacts
<1>7. Nil \notin Recs
  BY ScoreLinksAssumption
<1>8. Loose(M, Recs \ Elements(u))
  <2> SUFFICES ASSUME NEW x \in Recs \ Elements(u) PROVE M.next[x] = Nil /\ M.prev[x] = Nil
    BY DEF Loose
  <2>0. x \in Recs /\ x \notin Elements(s) /\ x # r /\ x # Nil
    BY <1>4, <1>7
  <2>1. x # At(s, 1 - 1) /\ x # At(s, 1)
    <3>1. 1 - 1 \in Int
      OBVIOUS
    <3> QED BY <1>6, <2>0, <3>1
  <2>2. M.next[x] = links.next[x] /\ M.prev[x] = links.prev[x]
    BY <1>2, <2>0, <2>1 DEF LinkedIn
  <2> QED BY <1>1, <2>0, <2>2 DEF Loose
<1>9. total' \in [Recs -> 0 .. MaxScore]
  BY <1>0, ScoreLinksAssumption DEF Create
<1>10. LinksHold' /\ Chain' = u
  BY <1>1, <1>4, <1>8, <1>9, HoldsNext
<1> QED BY <1>0, <1>5, <1>10 DEF s

(* A new total, without a sort.                                            *)
LEMMA RecountSteps ==
  ASSUME LinksHold, NEW r \in Recs, NEW n \in 0 .. MaxScore, Recount(r, n)
  PROVE  LinksHold' /\ r \in Elements(Chain) /\ Chain' = Chain
<1>0. total \in [Recs -> 0 .. MaxScore] /\ r \in Elements(Chain)
  BY HoldFacts DEF Recount
<1>1. links' = links /\ total' \in [Recs -> 0 .. MaxScore]
  BY <1>0 DEF Recount
<1>2. Shows(links', Chain) /\ Loose(links', Recs \ Elements(Chain))
  BY <1>1 DEF LinksHold
<1> QED BY <1>0, <1>1, <1>2, HoldsNext

(* chanfixdb_chanuser_sort on the offsets and on the chain.                *)
LEMMA SortSteps ==
  ASSUME LinksHold, NEW r \in Recs, Sort(r)
  PROVE  /\ LinksHold'
         /\ \E i, j \in 1 .. Len(Chain) :
              Chain[i] = r /\ Lands(Chain, total, i, j) /\ Chain' = Move(Chain, i, j)
<1> DEFINE s == Chain
<1>0. /\ s \in Seq(Recs) /\ NoTwice(s) /\ total \in [Recs -> Int]
      /\ total \in [Recs -> 0 .. MaxScore]
  BY HoldFacts
<1>1. Shows(links, s) /\ Loose(links, Recs \ Elements(s))
  BY DEF LinksHold
<1>2. PICK i \in 1 .. Len(s) : s[i] = r
  BY DEF Sort, Linked
<1>3. links' = Sorted(links, total, s[i]) /\ total' = total
  BY <1>2 DEF Sort
<1> HIDE DEF s
<1>4. PICK j \in 1 .. Len(s) :
         /\ Lands(s, total, i, j)
         /\ Shows(Sorted(links, total, s[i]), Move(s, i, j))
         /\ Loose(Sorted(links, total, s[i]), Recs \ Elements(s))
  BY <1>0, <1>1, SortShows
<1>5. Elements(Move(s, i, j)) = Elements(s)
  BY <1>0, MoveKeeps
<1>6. LinksHold' /\ Chain' = Move(s, i, j)
  BY <1>0, <1>3, <1>4, <1>5, HoldsNext
<1> QED BY <1>2, <1>4, <1>6 DEF s

(* chanfixdb_chanuser_remove on the offsets and on the chain.              *)
LEMMA RemoveSteps ==
  ASSUME LinksHold, NEW r \in Recs, Remove(r)
  PROVE  /\ LinksHold'
         /\ \E i \in 1 .. Len(Chain) : Chain[i] = r /\ Chain' = Unlink(Chain, i)
<1> DEFINE s == Chain
           R == Removed(links, r)
           M == links'
<1>0. s \in Seq(Recs) /\ NoTwice(s) /\ total \in [Recs -> 0 .. MaxScore] /\ Len(s) \in Nat
  BY HoldFacts
<1>1. Shows(links, s) /\ Loose(links, Recs \ Elements(s))
  BY DEF LinksHold
<1>2. PICK i \in 1 .. Len(s) : s[i] = r
  BY DEF Remove, Linked
<1> DEFINE u == Unlink(s, i)
<1>3. M = [R EXCEPT !.next[r] = Nil, !.prev[r] = Nil]
  BY DEF Remove
<1> HIDE DEF s, R, M, u
<1>4. /\ Shows(R, u)
      /\ \A x \in Recs \ Elements(s) : /\ R.next[x] = links.next[x]
                                       /\ R.prev[x] = links.prev[x]
  BY <1>1, <1>2, RemovedShows DEF R, u
<1>5. u \in Seq(Recs) /\ NoTwice(u) /\ Elements(u) = Elements(s) \ {r}
  BY <1>0, <1>2, AtUnlink DEF u
<1>6. R \in Links
  BY <1>4 DEF Shows
<1>7. /\ M.first = R.first /\ M.last = R.last
      /\ M.next = [R.next EXCEPT ![r] = Nil] /\ M.prev = [R.prev EXCEPT ![r] = Nil]
      /\ M = [first |-> M.first, last |-> M.last, next |-> M.next, prev |-> M.prev]
  BY <1>3, <1>6 DEF Links
<1>8. /\ \A x \in Recs \ {r} : M.next[x] = R.next[x] /\ M.prev[x] = R.prev[x]
      /\ M.next[r] = Nil /\ M.prev[r] = Nil
  BY <1>6, <1>7 DEF Links
<1>9. M \in Links
  BY <1>6, <1>7 DEF Links, Offsets
<1>10. Shows(M, u)
  <2>1. \A k \in 1 .. Len(u) : u[k] \in Recs \ {r}
    <3>1. \A k \in 1 .. Len(u) : u[k] \in Recs /\ u[k] \in Elements(u)
      BY <1>5, AtFacts
    <3> QED BY <1>5, <3>1
  <2>2. \A k \in 1 .. Len(u) : M.next[u[k]] = At(u, k + 1) /\ M.prev[u[k]] = At(u, k - 1)
    BY <1>4, <1>8, <2>1 DEF Shows
  <2>3. M.first = At(u, 1) /\ M.last = At(u, Len(u))
    BY <1>4, <1>7 DEF Shows
  <2> QED BY <1>5, <1>9, <2>2, <2>3 DEF Shows
<1>11. Loose(M, Recs \ Elements(u))
  <2> SUFFICES ASSUME NEW x \in Recs \ Elements(u) PROVE M.next[x] = Nil /\ M.prev[x] = Nil
    BY DEF Loose
  <2>1. CASE x = r
    BY <1>8, <2>1
  <2>2. CASE x # r
    BY <1>1, <1>4, <1>5, <1>8, <2>2 DEF Loose
  <2> QED BY <2>1, <2>2
<1>12. total' \in [Recs -> 0 .. MaxScore]
  BY <1>0, ScoreLinksAssumption DEF Remove
<1>13. LinksHold' /\ Chain' = u
  BY <1>10, <1>11, <1>12, HoldsNext DEF M
<1> QED BY <1>2, <1>13 DEF s, u

(* Where nothing changes, nothing changes.                                 *)
LEMMA StutterSteps ==
  ASSUME LinksHold, UNCHANGED linksVars
  PROVE  LinksHold' /\ Chain' = Chain
<1>1. links' = links /\ total' = total
  BY DEF linksVars
<1> QED BY <1>1, HoldFacts, HoldsNext DEF LinksHold

(* The invariant is inductive.                                             *)
LEMMA HoldsAlways == LinksSpec => []LinksHold
<1>1. LinksInit => LinksHold
  BY HoldsAtInit
<1>2. LinksHold /\ [LinksNext]_linksVars => LinksHold'
  BY CreateSteps, RecountSteps, SortSteps, RemoveSteps, StutterSteps DEF LinksNext
<1> QED BY <1>1, <1>2, PTL DEF LinksSpec

(* Whatever is created, counted, sorted and removed, the offsets name      *)
(* records, and the walks from both ends of the chain read the same.       *)
THEOREM OffsetsAreSound == LinksSpec => []LinksSound
BY HoldsAlways, HoldIsSound, PTL

-----------------------------------------------------------------------------
(* The operators of the abstract module are those of the lists.            *)
LEMMA PromisedIs ==
  /\ \A s : Promised!Elements(s) = Elements(s)
  /\ \A r, s : Promised!PushFront(r, s) = PushFront(r, s)
  /\ \A s, i : Promised!Unlink(s, i) = Unlink(s, i)
  /\ \A s, i, j : Promised!Move(s, i, j) = Move(s, i, j)
  /\ \A s, t, i, j : Promised!Lands(s, t, i, j) <=> Lands(s, t, i, j)
<1>1. \A s : Promised!Elements(s) = Elements(s)
  BY DEF Promised!Elements, Elements
<1>2. \A r, s : Promised!PushFront(r, s) = PushFront(r, s)
  BY DEF Promised!PushFront, PushFront
<1>3. \A s, i : Promised!Unlink(s, i) = Unlink(s, i)
  BY DEF Promised!Unlink, Unlink
<1>4. \A s, i, j : Promised!Move(s, i, j) = Move(s, i, j)
  BY DEF Promised!Move, Move
<1>5. \A s, t, i, j : Promised!Lands(s, t, i, j) <=> Lands(s, t, i, j)
  BY DEF Promised!Lands, Promised!GoesForward, Promised!GoesBackward,
         Promised!StopsForward, Promised!StopsBackward,
         Lands, GoesForward, GoesBackward, StopsForward, StopsBackward
<1> QED BY <1>1, <1>2, <1>3, <1>4, <1>5

(* Every surgery on the offsets is the step on the sequence of records it  *)
(* stands for, for any number of records.                                  *)
THEOREM OffsetsImplementChain == LinksSpec => ImplementsScoreChain
<1>1. LinksInit => Promised!ChainInit
  BY HoldsAtInit DEF LinksInit, Promised!ChainInit
<1>2. LinksHold /\ [LinksNext]_linksVars => [Promised!ChainNext]_(Promised!chainVars)
  <2> SUFFICES ASSUME LinksHold, [LinksNext]_linksVars
               PROVE  [Promised!ChainNext]_(Promised!chainVars)
    OBVIOUS
  <2>1. ASSUME NEW r \in Recs, Create(r) PROVE Promised!ChainCreate(r)
    BY <2>1, CreateSteps, PromisedIs DEF Create, Promised!ChainCreate
  <2>2. ASSUME NEW r \in Recs, NEW n \in 0 .. MaxScore, Recount(r, n)
        PROVE  Promised!ChainRecount(r, n)
    BY <2>2, RecountSteps, PromisedIs DEF Recount, Promised!ChainRecount
  <2>3. ASSUME NEW r \in Recs, Sort(r) PROVE Promised!ChainSort(r)
    BY <2>3, SortSteps, PromisedIs DEF Sort, Promised!ChainSort
  <2>4. ASSUME NEW r \in Recs, Remove(r) PROVE Promised!ChainRemove(r)
    BY <2>4, RemoveSteps, PromisedIs DEF Remove, Promised!ChainRemove
  <2>5. CASE UNCHANGED linksVars
    BY <2>5, StutterSteps DEF linksVars, Promised!chainVars
  <2> QED BY <2>1, <2>2, <2>3, <2>4, <2>5 DEF LinksNext, Promised!ChainNext
<1> QED BY <1>1, <1>2, HoldsAlways, PTL DEF LinksSpec, ImplementsScoreChain, Promised!ChainSpec

(* Also in a chain that is in no order, a sort that changes the chain      *)
(* leaves fewer pairs of records the wrong way round.                      *)
THEOREM SortsNeverHarm == LinksSpec => SortNeverHarms
<1> DEFINE Better == total' = total /\ Chain' # Chain /\ DOMAIN Chain' = DOMAIN Chain
                       => Cardinality(Inversions') < Cardinality(Inversions)
<1>1. LinksHold /\ [LinksNext]_linksVars => Better
  <2> SUFFICES ASSUME LinksHold, [LinksNext]_linksVars,
                      total' = total, Chain' # Chain, DOMAIN Chain' = DOMAIN Chain
               PROVE  Cardinality(Inversions') < Cardinality(Inversions)
    OBVIOUS
  <2>0. Chain \in Seq(Recs) /\ Len(Chain) \in Nat /\ NoTwice(Chain) /\ total \in [Recs -> Int]
    BY HoldFacts
  <2>1. ASSUME NEW r \in Recs, Create(r) PROVE FALSE
    <3>1. Chain' = PushFront(r, Chain)
      BY <2>1, CreateSteps
    <3>2. DOMAIN Chain' = 1 .. Len(Chain) + 1
      BY <3>1 DEF PushFront
    <3>3. DOMAIN Chain = 1 .. Len(Chain)
      BY <2>0, LenProperties
    <3>4. Len(Chain) + 1 \in 1 .. Len(Chain) + 1 /\ Len(Chain) + 1 \notin 1 .. Len(Chain)
      BY <2>0
    <3> QED BY <3>2, <3>3, <3>4
  <2>2. ASSUME NEW r \in Recs, NEW n \in 0 .. MaxScore, Recount(r, n) PROVE FALSE
    BY <2>2, RecountSteps
  <2>3. ASSUME NEW r \in Recs, Sort(r)
        PROVE  Cardinality(Inversions') < Cardinality(Inversions)
    <3> DEFINE s == Chain
    <3>1. PICK i, j \in 1 .. Len(s) : Lands(s, total, i, j) /\ Chain' = Move(s, i, j)
      BY <2>3, SortSteps
    <3> DEFINE m == Move(s, i, j)
    <3>2. Len(m) = Len(s) /\ m \in Seq(Recs)
      BY <2>0, MoveIsSeq
    <3>3. DOMAIN s = 1 .. Len(s) /\ DOMAIN m = 1 .. Len(m)
      BY <2>0, <3>2, LenProperties
    <3>4. Inversions = WrongPairs(s, total)
      BY <3>3 DEF Inversions, WrongPairs
    <3>5. Inversions' = {p \in (DOMAIN m) \X (DOMAIN m) :
                           p[1] < p[2] /\ total[m[p[1]]] > total[m[p[2]]]}
      BY <3>1 DEF Inversions
    <3> HIDE DEF s, m
    <3>6. Inversions' = WrongPairs(m, total)
      BY <3>3, <3>5 DEF WrongPairs
    <3>7. i # j
      <4>1. ASSUME i = j PROVE m = s
        <5>1. \A k \in 1 .. Len(s) : Move(s, i, i)[k] = s[k]
          BY <2>0 DEF Move, s
        <5>2. Move(s, i, i) = [k \in 1 .. Len(s) |-> Move(s, i, i)[k]]
          BY DEF Move
        <5>3. s = [k \in 1 .. Len(s) |-> s[k]]
          BY <2>0, LenProperties DEF s
        <5> QED BY <4>1, <5>1, <5>2, <5>3 DEF m
      <4> QED BY <3>1, <4>1 DEF s, m
    <3>8. s \in Seq(Recs)
      BY <2>0 DEF s
    <3>9. Cardinality(WrongPairs(m, total)) < Cardinality(WrongPairs(s, total))
      BY <2>0, <3>1, <3>7, <3>8, MoveHelps DEF m
    <3> QED BY <3>4, <3>6, <3>9 DEF s
  <2>4. ASSUME NEW r \in Recs, Remove(r) PROVE FALSE
    <3>1. PICK i \in 1 .. Len(Chain) : Chain' = Unlink(Chain, i)
      BY <2>4, RemoveSteps
    <3>2. DOMAIN Chain' = 1 .. Len(Chain) - 1
      BY <3>1 DEF Unlink
    <3>3. DOMAIN Chain = 1 .. Len(Chain)
      BY <2>0, LenProperties
    <3>4. Len(Chain) \notin DOMAIN Chain' /\ Len(Chain) \in DOMAIN Chain
      BY <2>0, <3>1, <3>2, <3>3
    <3> QED BY <3>4
  <2>5. CASE UNCHANGED linksVars
    BY <2>5, StutterSteps
  <2> QED BY <2>1, <2>2, <2>3, <2>4, <2>5 DEF LinksNext
<1>2. LinksHold /\ [LinksNext]_linksVars => [Better]_linksVars
  BY <1>1
<1> QED BY <1>2, HoldsAlways, PTL DEF LinksSpec, SortNeverHarms

-----------------------------------------------------------------------------
Slot == [modes : Modes, tot : Int, scores : [1 .. Days -> Int]]

SlotsOK == /\ slots \in [Chans -> [1 .. Slots -> Slot]]
           /\ isave \in 0 .. Slots

RightSlots == SlotsOK /\ OneSlotPerModes

-----------------------------------------------------------------------------
(* Of the first n totals one is the least.                                 *)
LEMMA LeastTotal ==
  ASSUME NEW n \in Nat \ {0}, NEW f, \A k \in 1 .. n : f[k].tot \in Int
  PROVE  \E i \in 1 .. n : \A k \in 1 .. n : f[i].tot <= f[k].tot
<1> DEFINE has(m) == \E i \in 1 .. m : \A k \in 1 .. m : f[i].tot <= f[k].tot
           T == {m \in 1 .. n : ~ has(m)}
<1>0. /\ T \subseteq 1 .. n /\ T \subseteq Nat
      /\ \A j \in 1 .. n : j \in T <=> ~ has(j)
  OBVIOUS
<1> HIDE DEF T
<1>1. SUFFICES ASSUME ~ has(n) PROVE FALSE
  OBVIOUS
<1> DEFINE m == Min(T)
<1>2. m \in T /\ \A j \in T : m <= j
  <2>1. T # {}
    BY <1>0, <1>1
  <2> QED BY <2>1, <1>0, MinIsLeast
<1> HIDE DEF m, has
<1>3. m \in 1 .. n /\ ~ has(m) /\ \A j \in 1 .. n : j < m => has(j)
  BY <1>0, <1>2
<1>4. CASE m = 1
  <2>1. has(1)
    <3>1. \A k \in 1 .. 1 : f[1].tot <= f[k].tot
      BY <1>3, <1>4
    <3> QED BY <3>1 DEF has
  <2> QED BY <2>1, <1>3, <1>4
<1>5. CASE m # 1
  <2>1. m - 1 \in 1 .. n /\ has(m - 1)
    BY <1>3, <1>5
  <2>2. PICK i \in 1 .. m - 1 : \A k \in 1 .. m - 1 : f[i].tot <= f[k].tot
    BY <2>1 DEF has
  <2>0. \A k \in 1 .. m : f[k].tot \in Int /\ (k \in 1 .. m - 1 \/ k = m)
    BY <1>3
  <2>3. CASE f[i].tot <= f[m].tot
    <3>1. \A k \in 1 .. m : f[i].tot <= f[k].tot
      BY <2>0, <2>2, <2>3
    <3> QED BY <3>1, <1>3 DEF has
  <2>4. CASE ~ f[i].tot <= f[m].tot
    <3>1. \A k \in 1 .. m : f[m].tot <= f[k].tot
      <4>1. f[i].tot \in Int /\ f[m].tot \in Int /\ f[m].tot <= f[i].tot
        BY <2>0, <2>2, <2>4, <1>3
      <4> QED BY <4>1, <2>0, <2>2
    <3> QED BY <3>1, <1>3 DEF has
  <2> QED BY <2>3, <2>4
<1> QED BY <1>4, <1>5

-----------------------------------------------------------------------------
(* Where the scan ends up: at a slot, and at one with the least total when *)
(* it came by every slot, although it may have begun anywhere.             *)
LEMMA WeakestIsWeak ==
  ASSUME SlotsOK, NEW c \in Chans, NEW m \in Modes
  PROVE  /\ Weakest(c, m) \in 0 .. Slots
         /\ Matching(c, m) # {} => /\ Min(Matching(c, m)) \in 1 .. Slots
                                   /\ slots[c][Min(Matching(c, m))].modes = m
         /\ Matching(c, m) = {} =>
              /\ Weakest(c, m) \in 1 .. Slots
              /\ \A k \in 1 .. Slots : slots[c][Weakest(c, m)].tot <= slots[c][k].tot
<1> DEFINE w == Weakest(c, m)
           S == Scanned(c, m)
           least == {i \in S : \A k \in S : slots[c][i].tot <= slots[c][k].tot}
<1>0. /\ Slots \in Nat \ {0} /\ isave \in 0 .. Slots
      /\ \A k \in 1 .. Slots : slots[c][k].tot \in Int
  BY ModeSlotsAssumption DEF SlotsOK, Slot
<1>1. /\ Matching(c, m) \subseteq 1 .. Slots
      /\ \A i \in Matching(c, m) : slots[c][i].modes = m
  BY DEF Matching
<1>2. Matching(c, m) # {} => Min(Matching(c, m)) \in Matching(c, m)
  BY <1>0, <1>1, MinIsLeast
<1>3. PICK n \in 0 .. Slots : S = 1 .. n /\ (Matching(c, m) = {} => n = Slots)
  <2>1. CASE Matching(c, m) = {}
    BY <2>1, <1>0 DEF Scanned
  <2>2. CASE Matching(c, m) # {}
    <3>1. Min(Matching(c, m)) - 1 \in 0 .. Slots
      BY <2>2, <1>0, <1>1, <1>2
    <3> QED BY <2>2, <3>1 DEF Scanned
  <2> QED BY <2>1, <2>2
<1> HIDE DEF S
<1>4. w = IF S = {} THEN isave
          ELSE IF isave # 0 /\ slots[c][isave].tot <= slots[c][Min(least)].tot
          THEN isave ELSE Min(least)
  BY DEF Weakest, S
<1> HIDE DEF w
<1>5. CASE S = {}
  <2>1. n = 0
    BY <1>3, <1>5
  <2> QED BY <2>1, <1>0, <1>1, <1>2, <1>3, <1>4, <1>5 DEF w
<1>6. CASE S # {}
  <2>1. n \in Nat \ {0} /\ \A k \in 1 .. n : slots[c][k].tot \in Int
    BY <1>0, <1>3, <1>6
  <2>2. least # {}
    BY <2>1, <1>3, LeastTotal
  <2>3. least \subseteq 1 .. n /\ least \subseteq Nat
    BY <1>3
  <2>4. Min(least) \in least
    BY <2>2, <2>3, MinIsLeast
  <2> DEFINE l == Min(least)
  <2>5. l \in 1 .. n /\ \A k \in 1 .. n : slots[c][l].tot <= slots[c][k].tot
    BY <2>4, <1>3
  <2> HIDE DEF l
  <2>6. w \in 0 .. Slots
    BY <2>5, <1>0, <1>3, <1>4, <1>6 DEF l
  <2>7. ASSUME Matching(c, m) = {}
        PROVE  w \in 1 .. Slots /\ \A k \in 1 .. Slots : slots[c][w].tot <= slots[c][k].tot
    <3>1. n = Slots
      BY <1>3, <2>7
    <3>2. CASE w = l
      BY <3>1, <3>2, <2>5
    <3>3. CASE w = isave /\ isave # 0 /\ slots[c][isave].tot <= slots[c][l].tot
      <4>1. isave \in 1 .. Slots /\ l \in 1 .. Slots
        BY <3>1, <3>3, <2>5, <1>0
      <4>2. ASSUME NEW k \in 1 .. Slots PROVE slots[c][isave].tot <= slots[c][k].tot
        <5>1. slots[c][l].tot <= slots[c][k].tot
          BY <3>1, <2>5
        <5>2. /\ slots[c][l].tot \in Int /\ slots[c][k].tot \in Int
              /\ slots[c][isave].tot \in Int
          BY <4>1, <1>0
        <5> QED BY <5>1, <5>2, <3>3
      <4> QED BY <4>1, <4>2, <3>3
    <3> QED BY <3>2, <3>3, <1>4, <1>6 DEF l
  <2> QED BY <2>6, <2>7, <1>1, <1>2 DEF w
<1> QED BY <1>5, <1>6

(* What a check makes of one channel: the slots but one stay what they     *)
(* were, the first has moved to that one's place, and the one that is      *)
(* first now has the modes that the channel has.                           *)
LEMMA ScoredSlots ==
  ASSUME SlotsOK, NEW c \in Chans, NEW m \in Modes, ScoreModes(c, m)
  PROVE  \E i \in 1 .. Slots :
           /\ IF Matching(c, m) # {} THEN slots[c][i].modes = m
              ELSE /\ \A k \in 1 .. Slots : slots[c][k].modes # m
                   /\ \A k \in 1 .. Slots : slots[c][i].tot <= slots[c][k].tot
           /\ slots' \in [Chans -> [1 .. Slots -> Slot]]
           /\ slots'[c][1].modes = m
           /\ i # 1 => slots'[c][i] = slots[c][1]
           /\ \A k \in (2 .. Slots) \ {i} : slots'[c][k] = slots[c][k]
           /\ \A d \in Chans \ {c} : slots'[d] = slots[d]
           /\ slots'[c][1] \in {Scored(slots[c][i]), Scored([Unused EXCEPT !.modes = m])}
<1> DEFINE w == Weakest(c, m)
           M == Matching(c, m)
           i == IF M # {} THEN Min(M) ELSE w
           cur == IF M # {} THEN slots[c][i] ELSE [Unused EXCEPT !.modes = m]
<1>1. /\ slots' = [slots EXCEPT ![c] =
                     [[slots[c] EXCEPT ![i] = slots[c][1]] EXCEPT ![1] = Scored(cur)]]
  BY DEF ScoreModes, SlotsOK
<1>2. i \in 1 .. Slots
  BY WeakestIsWeak
<1>3. IF M # {} THEN slots[c][i].modes = m
      ELSE /\ \A k \in 1 .. Slots : slots[c][k].modes # m
           /\ \A k \in 1 .. Slots : slots[c][i].tot <= slots[c][k].tot
  <2>1. M = {} => \A k \in 1 .. Slots : slots[c][k].modes # m
    BY DEF Matching
  <2> QED BY <2>1, WeakestIsWeak
<1>4. slots[c] \in [1 .. Slots -> Slot] /\ slots \in [Chans -> [1 .. Slots -> Slot]]
      /\ Slots \in Nat \ {0} /\ Days \in Nat \ {0}
  BY ModeSlotsAssumption DEF SlotsOK
<1> HIDE DEF i
<1>5. cur \in Slot /\ cur.modes = m
  <2>1. [Unused EXCEPT !.modes = m] \in Slot /\ [Unused EXCEPT !.modes = m].modes = m
    BY DEF Unused, NoScores, Slot
  <2> QED BY <2>1, <1>2, <1>3, <1>4
<1>c. cur \in {slots[c][i], [Unused EXCEPT !.modes = m]}
  OBVIOUS
<1> HIDE DEF cur, M, w
<1>6. Scored(cur) \in Slot /\ Scored(cur).modes = m
  <2>1. 1 \in 1 .. Days /\ cur.scores \in [1 .. Days -> Int] /\ cur.tot \in Int
    BY <1>4, <1>5 DEF Slot
  <2>2. \A g \in [1 .. Days -> Int] : [g EXCEPT ![1] = @ + 1] \in [1 .. Days -> Int]
    BY <2>1
  <2> DEFINE g == [cur.scores EXCEPT ![1] = @ + 1]
             j == cur.tot + 1
  <2>3. g \in [1 .. Days -> Int] /\ j \in Int
    BY <2>1, <2>2
  <2>4. Scored(cur) = [[cur EXCEPT !.scores = g] EXCEPT !.tot = j]
    BY <1>5 DEF Scored, Slot
  <2> HIDE DEF g, j
  <2> QED BY <2>3, <2>4, <1>5 DEF Slot
<1> DEFINE t == [[slots[c] EXCEPT ![i] = slots[c][1]] EXCEPT ![1] = Scored(cur)]
<1>7. /\ t \in [1 .. Slots -> Slot] /\ t[1] = Scored(cur)
      /\ i # 1 => t[i] = slots[c][1]
      /\ \A k \in (2 .. Slots) \ {i} : t[k] = slots[c][k]
  BY <1>2, <1>4, <1>6
<1> HIDE DEF t
<1>8. slots' \in [Chans -> [1 .. Slots -> Slot]] /\ slots'[c] = t
      /\ \A d \in Chans \ {c} : slots'[d] = slots[d]
  BY <1>1, <1>4, <1>7 DEF t
<1>9. slots'[c][1] \in {Scored(slots[c][i]), Scored([Unused EXCEPT !.modes = m])}
  BY <1>c, <1>7, <1>8
<1> QED BY <1>2, <1>3, <1>6, <1>7, <1>8, <1>9 DEF M

-----------------------------------------------------------------------------
(* A slot that has grown a day older has the modes it had.                 *)
LEMMA RolledSlot ==
  ASSUME NEW s \in Slot
  PROVE  Rolled(s) \in Slot /\ Rolled(s).modes = s.modes
<1>1. /\ Slots \in Nat \ {0} /\ Days \in Nat /\ Slots \in 1 .. Days
      /\ s.scores \in [1 .. Days -> Int] /\ s.tot \in Int
  BY ModeSlotsAssumption DEF Slot
<1>2. [d \in 1 .. Days |-> IF d = 1 THEN 0 ELSE s.scores[d - 1]] \in [1 .. Days -> Int]
  BY <1>1
<1>3. s.tot - s.scores[Slots] \in Int
  BY <1>1
<1> QED BY <1>2, <1>3 DEF Rolled, Slot

(* A check that begins moves no modes to another slot.                     *)
LEMMA BeginKeepsModes ==
  ASSUME SlotsOK, NEW present \in SUBSET Chans, CheckBegin(present)
  PROVE  /\ SlotsOK'
         /\ \A c \in Chans : \A i \in 1 .. Slots : slots'[c][i].modes = slots[c][i].modes
<1>1. isave' = 0 /\ 0 \in 0 .. Slots
  BY ModeSlotsAssumption DEF CheckBegin
<1>2. CASE slots' = slots
  BY <1>1, <1>2 DEF SlotsOK
<1>3. CASE slots' = [c \in Chans |-> [i \in 1 .. Slots |-> Rolled(slots[c][i])]]
  <2>1. \A c \in Chans : \A i \in 1 .. Slots :
          Rolled(slots[c][i]) \in Slot /\ Rolled(slots[c][i]).modes = slots[c][i].modes
    BY RolledSlot DEF SlotsOK
  <2> QED BY <1>1, <1>3, <2>1 DEF SlotsOK
<1> QED BY <1>2, <1>3 DEF CheckBegin

(* All slots are unused in the beginning, which is why "no modes" may have *)
(* several.                                                                *)
LEMMA InitIsRight == SlotsInit => RightSlots
<1> SUFFICES ASSUME SlotsInit PROVE RightSlots
  OBVIOUS
<1>1. Unused \in Slot /\ Unused.modes = NoModes
  BY ModeSlotsAssumption DEF Unused, NoScores, Slot
<1>2. SlotsOK
  BY <1>1, ModeSlotsAssumption DEF SlotsInit, SlotsOK
<1> QED BY <1>1, <1>2 DEF SlotsInit, RightSlots, OneSlotPerModes

(* Every step keeps the slots apart.                                       *)
LEMMA StepIsRight == RightSlots /\ [SlotsNext]_slotVars => RightSlots'
<1> SUFFICES ASSUME RightSlots, [SlotsNext]_slotVars PROVE RightSlots'
  OBVIOUS
<1>0. SlotsOK /\ OneSlotPerModes
  BY DEF RightSlots
<1>1. ASSUME NEW present \in SUBSET Chans, CheckBegin(present) PROVE RightSlots'
  BY <1>0, <1>1, BeginKeepsModes DEF RightSlots, OneSlotPerModes
<1>2. ASSUME NEW c \in Chans, NEW m \in Modes, ScoreModes(c, m) PROVE RightSlots'
  <2>1. PICK i \in 1 .. Slots :
           /\ IF Matching(c, m) # {} THEN slots[c][i].modes = m
              ELSE /\ \A k \in 1 .. Slots : slots[c][k].modes # m
                   /\ \A k \in 1 .. Slots : slots[c][i].tot <= slots[c][k].tot
           /\ slots' \in [Chans -> [1 .. Slots -> Slot]]
           /\ slots'[c][1].modes = m
           /\ i # 1 => slots'[c][i] = slots[c][1]
           /\ \A k \in (2 .. Slots) \ {i} : slots'[c][k] = slots[c][k]
           /\ \A d \in Chans \ {c} : slots'[d] = slots[d]
           /\ slots'[c][1] \in {Scored(slots[c][i]), Scored([Unused EXCEPT !.modes = m])}
    BY <1>0, <1>2, ScoredSlots, Zenon
  <2>2. isave' \in 0 .. Slots
    BY <1>0, <1>2, WeakestIsWeak DEF ScoreModes
  <2>3. ASSUME NEW a \in 1 .. Slots, NEW b \in 1 .. Slots,
               slots'[c][a].modes = slots'[c][b].modes, a # b
        PROVE  slots'[c][a].modes = NoModes
    <3> DEFINE was(k) == IF k = 1 THEN i ELSE IF k = i THEN 1 ELSE k
    <3>1. Slots \in Nat \ {0} /\ 1 \in 1 .. Slots
      BY ModeSlotsAssumption
    <3>2. \A j, k \in 1 .. Slots :
            slots[c][j].modes = slots[c][k].modes => j = k \/ slots[c][j].modes = NoModes
      BY <1>0 DEF OneSlotPerModes
    <3>3. \A k \in 1 .. Slots : was(k) \in 1 .. Slots /\ (k # 1 =>
            slots'[c][k] = slots[c][was(k)])
      BY <2>1, <3>1
    <3>4. was(a) # was(b)
      BY <2>3
    <3>5. CASE a # 1 /\ b # 1
      BY <3>2, <3>3, <3>4, <3>5, <2>3
    <3>6. CASE a = 1 \/ b = 1
      <4>1. PICK k \in {a, b} : k # 1 /\ slots[c][was(k)].modes = m
        BY <3>3, <3>6, <2>1, <2>3
      <4>2. was(1) = i /\ was(k) # i /\ was(k) \in 1 .. Slots
        BY <4>1, <3>3
      <4>3. slots[c][i].modes = m
        BY <4>1, <4>2, <2>1
      <4>4. m = NoModes
        BY <4>1, <4>2, <4>3, <3>2
      <4> QED BY <4>4, <3>6, <2>1, <2>3
    <3> QED BY <3>5, <3>6
  <2>4. OneSlotPerModes'
    <3>1. ASSUME NEW d \in Chans, d # c, NEW a \in 1 .. Slots, NEW b \in 1 .. Slots,
                 slots'[d][a].modes = slots'[d][b].modes
          PROVE  a = b \/ slots'[d][a].modes = NoModes
      BY <3>1, <2>1, <1>0 DEF OneSlotPerModes
    <3> QED BY <3>1, <2>3 DEF OneSlotPerModes
  <2> QED BY <2>1, <2>2, <2>4 DEF RightSlots, SlotsOK
<1>3. CASE UNCHANGED slotVars
  BY <1>0, <1>3 DEF slotVars, RightSlots, SlotsOK, OneSlotPerModes
<1> QED BY <1>1, <1>2, <1>3 DEF SlotsNext

(* The score of modes that a channel has is kept in one slot and never     *)
(* split over two (_chanfix_check), through scans, evictions and swaps.    *)
THEOREM ModesHaveOneSlot == SlotsSpec => []OneSlotPerModes
<1>1. RightSlots => OneSlotPerModes
  BY DEF RightSlots
<1> QED BY <1>1, InitIsRight, StepIsRight, PTL DEF SlotsSpec

(* A step forgets modes of the least total only.                           *)
LEMMA StepForgetsTheWeakest ==
  ASSUME RightSlots, [SlotsNext]_slotVars
  PROVE  [\A c \in Chans : \A i \in 1 .. Slots :
            (\A k \in 1 .. Slots : slots'[c][k].modes # slots[c][i].modes)
              => \A k \in 1 .. Slots : slots[c][i].tot <= slots[c][k].tot]_slotVars
<1> SUFFICES ASSUME NEW d \in Chans, NEW j \in 1 .. Slots, ~ UNCHANGED slotVars,
                    \A k \in 1 .. Slots : slots'[d][k].modes # slots[d][j].modes
             PROVE  \A k \in 1 .. Slots : slots[d][j].tot <= slots[d][k].tot
  OBVIOUS
<1>0. SlotsOK /\ Slots \in Nat \ {0}
  BY ModeSlotsAssumption DEF RightSlots
<1>1. ASSUME NEW present \in SUBSET Chans, CheckBegin(present) PROVE FALSE
  BY <1>0, <1>1, BeginKeepsModes
<1>2. ASSUME NEW c \in Chans, NEW m \in Modes, ScoreModes(c, m)
      PROVE  \A k \in 1 .. Slots : slots[d][j].tot <= slots[d][k].tot
  <2>1. PICK i \in 1 .. Slots :
           /\ IF Matching(c, m) # {} THEN slots[c][i].modes = m
              ELSE /\ \A k \in 1 .. Slots : slots[c][k].modes # m
                   /\ \A k \in 1 .. Slots : slots[c][i].tot <= slots[c][k].tot
           /\ slots' \in [Chans -> [1 .. Slots -> Slot]]
           /\ slots'[c][1].modes = m
           /\ i # 1 => slots'[c][i] = slots[c][1]
           /\ \A k \in (2 .. Slots) \ {i} : slots'[c][k] = slots[c][k]
           /\ \A e \in Chans \ {c} : slots'[e] = slots[e]
           /\ slots'[c][1] \in {Scored(slots[c][i]), Scored([Unused EXCEPT !.modes = m])}
    BY <1>0, <1>2, ScoredSlots, Zenon
  <2>2. d = c
    BY <2>1
  <2>3. j = i
    <3>1. CASE j = 1 /\ i # 1
      BY <3>1, <2>1, <2>2
    <3>2. CASE j # 1 /\ j # i
      BY <3>2, <2>1, <2>2, <1>0
    <3> QED BY <3>1, <3>2
  <2>4. Matching(c, m) = {}
    BY <2>1, <2>2, <2>3, <1>0
  <2> QED BY <2>1, <2>2, <2>3, <2>4
<1> QED BY <1>1, <1>2 DEF SlotsNext

(* Modes that are forgotten had the least total of their channel           *)
(* (_chanfix_check), even when the scan of another channel left the        *)
(* candidate behind from which this one's began.                           *)
THEOREM WeakestIsForgotten == SlotsSpec => ForgetsTheWeakest
<1>1. RightSlots /\ [SlotsNext]_slotVars =>
        [\A c \in Chans : \A i \in 1 .. Slots :
            (\A k \in 1 .. Slots : slots'[c][k].modes # slots[c][i].modes)
              => \A k \in 1 .. Slots : slots[c][i].tot <= slots[c][k].tot]_slotVars
  BY StepForgetsTheWeakest
<1> QED BY <1>1, InitIsRight, StepIsRight, PTL DEF SlotsSpec, ForgetsTheWeakest
-----------------------------------------------------------------------------
(* A slot's total is the sum of its first days, and nothing in it is above *)
(* n, the number of checks that have scored the channel.                   *)
Counts(s, n) ==
  /\ s.scores \in [1 .. Days -> 0 .. n]
  /\ s.tot \in 0 .. n
  /\ s.tot = SumFunctionOnSet(s.scores, 1 .. Slots)

(* The checks that have scored channel c.                                  *)
Passes(c) == IF c \in pending THEN checks - 1 ELSE checks

CountInv ==
  /\ pending \subseteq Chans
  /\ checks \in 0 .. MaxChecks
  /\ pending # {} => checks > 0
  /\ \A c \in Chans : \A i \in 1 .. Slots : Counts(slots[c][i], Passes(c))

LEMMA Days1 ==
  /\ Slots \in Nat \ {0} /\ Days \in Nat \ {0}
  /\ IsFiniteSet(1 .. Slots) /\ 1 .. Slots \subseteq 1 .. Days /\ 1 \in 1 .. Slots
  /\ Slots - 1 \in Nat /\ (Slots - 1) + 1 = Slots
<1>1. /\ Slots \in Nat \ {0} /\ Days \in Nat \ {0} /\ 1 .. Slots \subseteq 1 .. Days
      /\ 1 \in 1 .. Slots /\ Slots - 1 \in Nat /\ (Slots - 1) + 1 = Slots
  BY ModeSlotsAssumption
<1>2. IsFiniteSet(1 .. Slots)
  BY <1>1, FS_Interval
<1> QED BY <1>1, <1>2

(* An unused slot counts nothing.                                          *)
LEMMA UnusedCounts ==
  ASSUME NEW m, NEW n \in Nat
  PROVE  Counts([Unused EXCEPT !.modes = m], n)
<1> DEFINE s == [Unused EXCEPT !.modes = m]
<1>1. s.scores = NoScores /\ s.tot = 0
  BY DEF Unused
<1> HIDE DEF s
<1>2. \A d \in 1 .. Slots : NoScores[d] = 0
  BY Days1 DEF NoScores
<1>3. SumFunctionOnSet(NoScores, 1 .. Slots) = 0
  BY <1>2, Days1, SumOfZeros
<1>4. NoScores \in [1 .. Days -> 0 .. n] /\ 0 \in 0 .. n
  BY DEF NoScores
<1>5. Counts(s, n)
  BY <1>1, <1>3, <1>4 DEF Counts
<1> QED BY <1>5 DEF s

(* A slot that grows a day older loses the count of its last counted day.  *)
LEMMA RolledCounts ==
  ASSUME NEW s \in Slot, NEW n \in Nat, Counts(s, n)
  PROVE  Counts(Rolled(s), n)
<1> DEFINE f == s.scores
           g == [d \in 1 .. Days |-> IF d = 1 THEN 0 ELSE f[d - 1]]
           sum == SumFunctionOnSet(f, 1 .. Slots)
<1>1. f \in [1 .. Days -> 0 .. n] /\ s.tot = sum /\ s.tot \in 0 .. n
  BY DEF Counts
<1>2. Rolled(s).scores = g /\ Rolled(s).tot = s.tot - f[Slots]
  BY DEF Rolled, Slot
<1> HIDE DEF f
<1>3. g \in [1 .. Days -> 0 .. n]
  <2> SUFFICES ASSUME NEW d \in 1 .. Days
               PROVE  (IF d = 1 THEN 0 ELSE f[d - 1]) \in 0 .. n
    OBVIOUS
  <2>1. CASE d = 1
    BY <2>1
  <2>2. CASE d # 1
    <3>1. d - 1 \in 1 .. Days
      BY <2>2, Days1
    <3> QED BY <3>1, <2>2, <1>1
  <2> QED BY <2>1, <2>2
<1>4. \A d \in 1 .. Slots : f[d] \in Nat /\ f[d] \in Int
  BY <1>1, Days1
<1>5. g[1] = 0 /\ \A d \in 2 .. Slots : g[d] = f[d - 1]
  BY Days1
<1>6. SumFunctionOnSet(g, 1 .. Slots) = sum - f[Slots]
  <2> HIDE DEF g, sum
  <2>1. \A m \in Nat : m + 1 = Slots => SumFunctionOnSet(g, 1 .. m + 1)
                       = SumFunctionOnSet(f, 1 .. m + 1) - f[m + 1]
    BY <1>4, <1>5, SumShift
  <2> QED BY <2>1, Days1 DEF sum
<1>7. f[Slots] \in Nat /\ f[Slots] <= sum
  BY <1>4, Days1, SumOfNats
<1> HIDE DEF g, sum
<1>8. s.tot - f[Slots] \in 0 .. n
  BY <1>1, <1>7
<1> QED BY <1>1, <1>2, <1>3, <1>6, <1>8 DEF Counts

(* A point is a point for the day and for the total.                       *)
LEMMA ScoredCounts ==
  ASSUME NEW s \in Slot, NEW n \in Nat, Counts(s, n)
  PROVE  Counts(Scored(s), n + 1)
<1> DEFINE f == s.scores
           g == [f EXCEPT ![1] = @ + 1]
<1>1. /\ f \in [1 .. Days -> 0 .. n] /\ s.tot \in 0 .. n
      /\ s.tot = SumFunctionOnSet(f, 1 .. Slots)
  BY DEF Counts
<1>2. Scored(s).scores = g /\ Scored(s).tot = s.tot + 1
  BY DEF Scored, Slot
<1> HIDE DEF f
<1>3. /\ g \in [1 .. Days -> 0 .. n + 1] /\ g[1] = f[1] + 1
      /\ \A d \in 2 .. Days : g[d] = f[d]
  BY <1>1, Days1
<1> HIDE DEF g
<1>4. \A d \in 1 .. Slots : f[d] \in Int /\ g[d] \in Int
  BY <1>1, <1>3, Days1
<1>5. SumFunctionOnSet(g, 1 .. Slots) = SumFunctionOnSet(f, 1 .. Slots) - f[1] + g[1]
  <2>1. \A d \in (1 .. Slots) \ {1} : g[d] = f[d]
    BY <1>3, Days1
  <2> DEFINE S == 1 .. Slots
  <2>2. /\ IsFiniteSet(S) /\ 1 \in S /\ \A d \in S : f[d] \in Int /\ g[d] \in Int
        /\ \A d \in S \ {1} : g[d] = f[d]
    BY <2>1, <1>4, Days1
  <2> HIDE DEF S
  <2>3. SumFunctionOnSet(g, S) = SumFunctionOnSet(f, S) - f[1] + g[1]
    BY <2>2, SumExcept
  <2> QED BY <2>3 DEF S
<1>6. SumFunctionOnSet(g, 1 .. Slots) = s.tot + 1
  BY <1>1, <1>3, <1>4, <1>5, Days1
<1> QED BY <1>1, <1>2, <1>3, <1>6 DEF Counts

LEMMA CountsMore ==
  ASSUME NEW s, NEW n \in Nat, NEW k \in Nat, n <= k, Counts(s, n)
  PROVE  Counts(s, k)
BY DEF Counts

(* Every step keeps the counts right.                                      *)
LEMMA StepCounts == RightSlots /\ CountInv /\ [SlotsNext]_slotVars => CountInv'
<1> SUFFICES ASSUME RightSlots, CountInv, [SlotsNext]_slotVars PROVE CountInv'
  OBVIOUS
<1>0. /\ SlotsOK /\ checks \in Nat /\ MaxChecks \in Nat
      /\ \A c \in Chans : Passes(c) \in Nat /\ \A i \in 1 .. Slots : slots[c][i] \in Slot
  BY ModeSlotsAssumption DEF RightSlots, SlotsOK, CountInv, Passes
<1>1. ASSUME NEW present \in SUBSET Chans, CheckBegin(present) PROVE CountInv'
  <2>1. /\ pending = {} /\ pending' = present /\ checks' = checks + 1
        /\ checks' \in 0 .. MaxChecks
    BY <1>0, <1>1 DEF CheckBegin
  <2>2. \A c \in Chans : Passes(c) = checks /\ Passes(c)' \in Nat /\ checks <= Passes(c)'
    BY <2>1, <1>0 DEF Passes
  <2>3. ASSUME NEW c \in Chans, NEW i \in 1 .. Slots
        PROVE  Counts(slots'[c][i], Passes(c)')
    <3>1. slots[c][i] \in Slot /\ Counts(slots[c][i], checks)
      BY <1>0, <2>2 DEF CountInv
    <3>2. slots'[c][i] \in {slots[c][i], Rolled(slots[c][i])}
      BY <1>1 DEF CheckBegin
    <3>3. Counts(slots'[c][i], checks)
      BY <3>1, <3>2, <1>0, RolledCounts
    <3> QED BY <3>3, <2>2, <1>0, CountsMore
  <2> QED BY <2>1, <2>3, <1>0 DEF CountInv
<1>2. ASSUME NEW c \in Chans, NEW m \in Modes, ScoreModes(c, m) PROVE CountInv'
  <2>1. PICK i \in 1 .. Slots :
           /\ IF Matching(c, m) # {} THEN slots[c][i].modes = m
              ELSE /\ \A k \in 1 .. Slots : slots[c][k].modes # m
                   /\ \A k \in 1 .. Slots : slots[c][i].tot <= slots[c][k].tot
           /\ slots' \in [Chans -> [1 .. Slots -> Slot]]
           /\ slots'[c][1].modes = m
           /\ i # 1 => slots'[c][i] = slots[c][1]
           /\ \A k \in (2 .. Slots) \ {i} : slots'[c][k] = slots[c][k]
           /\ \A d \in Chans \ {c} : slots'[d] = slots[d]
           /\ slots'[c][1] \in {Scored(slots[c][i]), Scored([Unused EXCEPT !.modes = m])}
    BY <1>0, <1>2, ScoredSlots, Zenon
  <2>2. /\ c \in pending /\ pending' = pending \ {c} /\ checks' = checks
        /\ checks > 0
    BY <1>2 DEF ScoreModes, CountInv
  <2>3. /\ Passes(c) = checks - 1 /\ Passes(c)' = Passes(c) + 1 /\ Passes(c) \in Nat
        /\ \A d \in Chans \ {c} : Passes(d)' = Passes(d)
    BY <2>2, <1>0 DEF Passes
  <2>4. \A k \in 1 .. Slots : slots[c][k] \in Slot /\ Counts(slots[c][k], Passes(c))
    BY <1>0 DEF CountInv
  <2>5. [Unused EXCEPT !.modes = m] \in Slot
    BY Days1, SMTT(30) DEF Unused, NoScores, Slot
  <2>6. ASSUME NEW k \in 1 .. Slots PROVE Counts(slots'[c][k], Passes(c) + 1)
    <3>1. CASE k = 1
      <4>1. Counts(Scored(slots[c][i]), Passes(c) + 1)
        BY <2>1, <2>3, <2>4, ScoredCounts
      <4>2. Counts(Scored([Unused EXCEPT !.modes = m]), Passes(c) + 1)
        BY <2>3, <2>5, UnusedCounts, ScoredCounts
      <4> QED BY <4>1, <4>2, <3>1, <2>1
    <3>2. CASE k # 1
      <4>1. PICK l \in 1 .. Slots : slots'[c][k] = slots[c][l]
        <5>1. CASE k = i
          BY <5>1, <3>2, <2>1, Days1
        <5>2. CASE k # i
          BY <5>2, <3>2, <2>1, Days1
        <5> QED BY <5>1, <5>2
      <4>2. Passes(c) <= Passes(c) + 1 /\ Passes(c) + 1 \in Nat
        BY <2>3
      <4> QED BY <4>1, <4>2, <2>3, <2>4, CountsMore
    <3> QED BY <3>1, <3>2
  <2>7. \A d \in Chans : \A k \in 1 .. Slots : Counts(slots'[d][k], Passes(d)')
    BY <2>1, <2>3, <2>6 DEF CountInv
  <2> QED BY <2>2, <2>7, <1>0 DEF CountInv
<1>3. CASE UNCHANGED slotVars
  BY <1>3 DEF slotVars, CountInv, Passes
<1> QED BY <1>1, <1>2, <1>3 DEF SlotsNext

LEMMA InitCounts == SlotsInit => CountInv
<1> SUFFICES ASSUME SlotsInit PROVE CountInv
  OBVIOUS
<1>1. Unused = [Unused EXCEPT !.modes = NoModes]
  BY DEF Unused
<1>2. Counts(Unused, 0)
  BY <1>1, UnusedCounts
<1> QED BY <1>2, ModeSlotsAssumption DEF SlotsInit, CountInv, Passes

(* The remembered modes of every channel keep their shape through scans,   *)
(* evictions, swaps and rolls (_chanfix_check, chanfixdb_roll): the total  *)
(* of a slot is the sum of the days it counts and never underflows, and no *)
(* modes have two slots.                                                   *)
THEOREM SlotsAreSound == SlotsSpec => []SlotsSound
<1>1. RightSlots /\ CountInv => SlotsSound
  <2> SUFFICES ASSUME RightSlots, CountInv PROVE SlotsTypeOK /\ TotalIsRecent /\ OneSlotPerModes
    BY DEF SlotsSound
  <2>1. \A c \in Chans : Passes(c) \in 0 .. MaxChecks
    BY ModeSlotsAssumption DEF CountInv, Passes
  <2>2. ASSUME NEW c \in Chans, NEW i \in 1 .. Slots
        PROVE  slots[c][i] \in [modes : Modes, tot : 0 .. MaxChecks,
                                 scores : [1 .. Days -> 0 .. MaxChecks]]
    <3>1. slots[c][i] \in Slot /\ Counts(slots[c][i], Passes(c))
      BY DEF CountInv, RightSlots, SlotsOK
    <3>2. Counts(slots[c][i], MaxChecks)
      BY <3>1, <2>1, CountsMore, ModeSlotsAssumption
    <3> QED BY <3>1, <3>2 DEF Slot, Counts
  <2>3. slots \in [Chans -> [1 .. Slots -> [modes : Modes, tot : 0 .. MaxChecks,
                                 scores : [1 .. Days -> 0 .. MaxChecks]]]]
    BY <2>2 DEF RightSlots, SlotsOK
  <2>4. SlotsTypeOK
    BY <2>3 DEF RightSlots, SlotsOK, CountInv, SlotsTypeOK
  <2>5. TotalIsRecent
    BY DEF CountInv, Counts, TotalIsRecent
  <2> QED BY <2>4, <2>5 DEF RightSlots
<1> QED BY <1>1, InitIsRight, StepIsRight, InitCounts, StepCounts, PTL DEF SlotsSpec
=============================================================================
