------------------------------- MODULE FreeSpace -------------------------------
(***************************************************************************)
(* Space in the chanfix database file (modules/chanfixdb/chanfixdb.c):     *)
(* _chanfixdb_get_space hands out the first fitting block of the free list *)
(* or extends the used part of the file, _chanfixdb_del_space puts a block *)
(* back, _chanfixdb_check maps the file anew when it has grown.  Records   *)
(* are created and removed as the check, the roll and the offline tools    *)
(* do; the process may die between getting space and linking the record,   *)
(* and between unlinking it and giving the space back.                     *)
(*                                                                         *)
(* The mapping may move when the file grows, so the module also follows    *)
(* the pointer to the channel record that _chanfix_check keeps while it    *)
(* creates records for its users.                                          *)
(***************************************************************************)
EXTENDS Chains, FiniteSets, Functions

CONSTANTS
  Base,        \* cfi_next_addpos of a new file
  Sizes,       \* bytes a record may need
  Header,      \* sizeof(SI_CHANFIX_FREELIST): 12
  Slack,       \* what the file is extended by beyond need: 1024*1024
  Disk,        \* bound: largest file the disk holds
  NoBlock,     \* no space is being set up
  MaxRecords,  \* bound on records
  MaxCrashes,  \* bound on crashes
  MaxMapFails  \* bound on mmap calls that fail

ASSUME FreeSpaceAssumption ==
  /\ Base \in Nat /\ Base % 8 = 0
  /\ Sizes \subseteq Nat /\ \A n \in Sizes : n >= Header
  /\ Header \in Nat \ {0} /\ Slack \in Nat /\ Disk \in Nat
  /\ MaxRecords \in Nat /\ MaxCrashes \in Nat /\ MaxMapFails \in Nat
  /\ NoBlock \notin [pos : Nat, size : Nat]

VARIABLES
  freelist,       \* the list from cfi_freelist: blocks [pos, size]
  freelist_size,  \* cfi_freelist_size
  next_addpos,    \* cfi_next_addpos
  size,           \* cfi_size
  records,        \* blocks of linked channel and user records
  lost,           \* blocks a crash left unreachable
  got,            \* block a create or remove is holding, or NoBlock
  data_size,      \* cf_data_size; 0 when cf_data is (char *)-1
  moved,          \* the file was mapped anew since chan was last derived
  chan,           \* the caller holds a channel record pointer
  crashes, mapFails

fileVars == <<freelist, freelist_size, next_addpos, size, records, lost>>
vars == <<fileVars, got, data_size, moved, chan, crashes, mapFails>>

Block(p, n) == [pos |-> p, size |-> n]

(* (size + 7) & ~7                                                         *)
RoundUp(n) == ((n + 7) \div 8) * 8

(* Variant: the sizes are subtracted the wrong way round.                  *)
FitsSwapped(b, n) == b.size = n \/ n - b.size >= Header

(* Variant: what is left need not hold a header.                           *)
FitsAnyhow(b, n) == b.size >= n

(* A block serves a request if nothing is left of it, or enough for the    *)
(* header of a free block.                                                 *)
Fits(b, n) == b.size = n \/ (b.size > n /\ b.size - n >= Header)

Init ==
  /\ freelist = <<>>
  /\ freelist_size = 0
  /\ next_addpos = Base
  /\ size = Base + Slack
  /\ records = {}
  /\ lost = {}
  /\ got = NoBlock
  /\ data_size = size
  /\ moved = FALSE
  /\ chan = FALSE
  /\ crashes = 0
  /\ mapFails = 0

(* _chanfixdb_check, with n the size in the header: the file is mapped     *)
(* again, elsewhere as a rule, when that is not what is mapped.            *)
Remap(n) ==
  \/ /\ n = data_size
     /\ UNCHANGED <<data_size, moved, mapFails>>
  \/ /\ n # data_size
     /\ data_size' = n
     /\ moved' = TRUE
     /\ UNCHANGED mapFails
  \/ /\ n # data_size
     /\ mapFails < MaxMapFails
     /\ mapFails' = mapFails + 1
     /\ data_size' = 0
     /\ UNCHANGED moved

(* Variant: what is left of the block begins where the block began.        *)
TakeFreeAgain(n) ==
  /\ \E i \in 1 .. Len(freelist) :
       LET b == freelist[i]
           rest == Unlink(freelist, i)
       IN  /\ Fits(b, n)
           /\ \A k \in 1 .. i - 1 : ~ Fits(freelist[k], n)
           /\ got' = Block(b.pos, n)
           /\ freelist' = IF b.size = n THEN rest
                          ELSE PushFront(Block(b.pos, b.size - n), rest)
           /\ freelist_size' = freelist_size - b.size + (b.size - n)
  /\ UNCHANGED <<next_addpos, size, data_size, moved, mapFails>>

(* The first fitting block of the free list; what is left of it goes back  *)
(* to the front of the list.                                               *)
TakeFree(n) ==
  /\ \E i \in 1 .. Len(freelist) :
       LET b == freelist[i]
           rest == Unlink(freelist, i)
       IN  /\ Fits(b, n)
           /\ \A k \in 1 .. i - 1 : ~ Fits(freelist[k], n)
           /\ got' = Block(b.pos, n)
           /\ freelist' = IF b.size = n THEN rest
                          ELSE PushFront(Block(b.pos + n, b.size - n), rest)
           /\ freelist_size' = freelist_size - b.size + (b.size - n)
  /\ UNCHANGED <<next_addpos, size, data_size, moved, mapFails>>

NoneFits(n) == \A i \in 1 .. Len(freelist) : ~ Fits(freelist[i], n)

(* Variant: only the beginning of the record has to be in the file.        *)
TakeRoomBeyond(n) ==
  /\ NoneFits(n)
  /\ next_addpos < size
  /\ got' = Block(next_addpos, n)
  /\ next_addpos' = next_addpos + n
  /\ UNCHANGED <<freelist, freelist_size, size, data_size, moved, mapFails>>

(* No block fits, and the file has room behind the used part.              *)
TakeRoom(n) ==
  /\ NoneFits(n)
  /\ next_addpos + n <= size
  /\ got' = Block(next_addpos, n)
  /\ next_addpos' = next_addpos + n
  /\ UNCHANGED <<freelist, freelist_size, size, data_size, moved, mapFails>>

(* ... or has to grow, with slack if the disk allows it.  If the grown     *)
(* file cannot be mapped the request fails.                                *)
TakeGrown(n) ==
  /\ NoneFits(n)
  /\ next_addpos + n > size
  /\ next_addpos + n <= Disk
  /\ size' = IF next_addpos + n + Slack <= Disk THEN next_addpos + n + Slack
             ELSE next_addpos + n
  /\ Remap(size')
  /\ IF data_size' = 0
     THEN UNCHANGED <<next_addpos, got>>
     ELSE /\ next_addpos' = next_addpos + n
          /\ got' = Block(next_addpos, n)
  /\ UNCHANGED <<freelist, freelist_size>>

(* ... or fails because the disk is full.                                  *)
TakeNothing(n) ==
  /\ NoneFits(n)
  /\ next_addpos + n > size
  /\ next_addpos + n > Disk
  /\ UNCHANGED <<freelist, freelist_size, next_addpos, size, got, data_size,
                 moved, mapFails>>

(* The first half of chanfixdb_channel_create and _chanuser_create: map    *)
(* what there is, then get space.                                          *)
GetSpace(n) ==
  /\ got = NoBlock
  /\ data_size = size
  /\ Cardinality(records) < MaxRecords
  /\ \/ TakeFree(RoundUp(n))
     \/ TakeRoom(RoundUp(n))
     \/ TakeGrown(RoundUp(n))
     \/ TakeNothing(RoundUp(n))
  /\ UNCHANGED <<records, lost, chan, crashes>>

(* Variant: the caller's pointer is not derived anew.                      *)
LinkKeepsPointer ==
  /\ got # NoBlock
  /\ records' = records \cup {got}
  /\ got' = NoBlock
  /\ UNCHANGED <<freelist, freelist_size, next_addpos, size, lost, data_size,
                 moved, chan, crashes, mapFails>>

(* The second half links the record.  chanfixdb_channel_create returns the *)
(* new record; chanfixdb_chanuser_create derives the caller's channel      *)
(* pointer anew.                                                           *)
Link ==
  /\ got # NoBlock
  /\ records' = records \cup {got}
  /\ got' = NoBlock
  /\ chan' = TRUE
  /\ moved' = FALSE
  /\ UNCHANGED <<freelist, freelist_size, next_addpos, size, lost, data_size,
                 crashes, mapFails>>

(* Variant: cfi_freelist_size is left alone.                               *)
DelSpaceUncounted(b) ==
  /\ freelist' = PushFront(b, freelist)
  /\ UNCHANGED freelist_size

DelSpace(b) ==
  /\ freelist' = PushFront(b, freelist)
  /\ freelist_size' = freelist_size + b.size

(* Variant: EEXIST is returned without giving the space back.              *)
GiveNothingBack ==
  /\ got # NoBlock
  /\ got' = NoBlock
  /\ moved' = FALSE
  /\ UNCHANGED <<freelist, freelist_size, next_addpos, size, records, lost,
                 data_size, chan, crashes, mapFails>>

(* ... or finds that the record is there already (chanfixdb_import of a    *)
(* file with a line twice) and gives the space back: EEXIST.  The second   *)
(* half of chanfixdb_chanuser_remove does the same.                        *)
GiveBack ==
  /\ got # NoBlock
  /\ DelSpace(got)
  /\ got' = NoBlock
  /\ moved' = FALSE
  /\ UNCHANGED <<next_addpos, size, records, lost, data_size, chan, crashes,
                 mapFails>>

(* chanfixdb_chanuser_remove and _chanfixdb_channel_remove unlink a record.*)
UnlinkRecord(b) ==
  /\ got = NoBlock
  /\ data_size = size
  /\ b \in records
  /\ records' = records \ {b}
  /\ got' = b
  /\ UNCHANGED <<freelist, freelist_size, next_addpos, size, lost, data_size,
                 moved, chan, crashes, mapFails>>

(* Every public function begins with _chanfixdb_check; after a failed one  *)
(* the next call tries again.                                              *)
MapAgain ==
  /\ got = NoBlock
  /\ data_size # size
  /\ Remap(size)
  /\ UNCHANGED <<fileVars, got, chan, crashes>>

(* chanfixdb_channel_find: the caller gets a pointer into the mapping.     *)
FindChannel ==
  /\ got = NoBlock
  /\ data_size = size
  /\ records # {}
  /\ chan' = TRUE
  /\ moved' = FALSE
  /\ UNCHANGED <<fileVars, got, data_size, crashes, mapFails>>

(* The caller is through with the channel.                                 *)
ReleaseChannel ==
  /\ got = NoBlock
  /\ chan
  /\ chan' = FALSE
  /\ UNCHANGED <<fileVars, got, data_size, moved, crashes, mapFails>>

(* The process dies and is started again; chanfixdb_init maps the file as  *)
(* large as it is.                                                         *)
Crash ==
  /\ crashes < MaxCrashes
  /\ crashes' = crashes + 1
  /\ lost' = IF got = NoBlock THEN lost ELSE lost \cup {got}
  /\ got' = NoBlock
  /\ data_size' = size
  /\ moved' = FALSE
  /\ chan' = FALSE
  /\ UNCHANGED <<freelist, freelist_size, next_addpos, size, records, mapFails>>

Next ==
  \/ \E n \in Sizes : GetSpace(n)
  \/ Link
  \/ GiveBack
  \/ \E b \in records : UnlinkRecord(b)
  \/ MapAgain
  \/ FindChannel
  \/ ReleaseChannel
  \/ Crash

Spec == Init /\ [][Next]_vars
-----------------------------------------------------------------------------
Blocks == [pos : Nat, size : Nat]

(* Every variable has its type.                                            *)
TypeOK ==
  /\ freelist \in Seq(Blocks)
  /\ freelist_size \in Int
  /\ next_addpos \in Nat /\ size \in Nat /\ data_size \in Nat
  /\ records \subseteq Blocks /\ lost \subseteq Blocks
  /\ got \in Blocks \cup {NoBlock}
  /\ moved \in BOOLEAN /\ chan \in BOOLEAN
  /\ crashes \in 0 .. MaxCrashes /\ mapFails \in 0 .. MaxMapFails

(* What each part of the file is for.                                      *)
Held == {got} \ {NoBlock}
Claims ==
  ({"free"} \X Elements(freelist)) \cup ({"record"} \X records)
    \cup ({"lost"} \X lost) \cup ({"held"} \X Held)

Apart(a, b) == a.pos + a.size <= b.pos \/ b.pos + b.size <= a.pos
AllApart(S) == \A x, y \in S : x # y => Apart(x[2], y[2])

(* No byte of the file has two uses: no two records overlap, no free block *)
(* lies in a record, and none is in the free list twice.                   *)
NoOverlap ==
  /\ NoTwice(freelist)
  /\ AllApart(Claims)

(* Nothing is outside the used part of the file, and that part is within   *)
(* the file.                                                               *)
InFile ==
  /\ \A x \in Claims : Base <= x[2].pos /\ x[2].pos + x[2].size <= next_addpos
  /\ Base <= next_addpos /\ next_addpos <= size

(* No byte of the used part is forgotten unless a crash forgot it.         *)
NothingLeaks ==
  next_addpos - Base = SumFunction([x \in Claims |-> x[2].size])

(* cfi_freelist_size, which chanfixdb_info reports, is what is free.       *)
FreeSizeRight ==
  freelist_size = SumFunction([b \in Elements(freelist) |-> b.size])

(* Every block in the free list has room for the header written into it,   *)
(* and every block lies on an 8 byte boundary.                             *)
HeadersFit ==
  \A x \in Claims : x[2].size >= Header /\ x[2].pos % 8 = 0

(* The books of the file are right: every byte of the used part is a       *)
(* record, free or lost to a crash, cfi_freelist_size is what is free, and *)
(* no block is smaller than the header the free list writes into it        *)
(* (_chanfixdb_get_space, _chanfixdb_del_space).                           *)
SpaceAccounted == TypeOK /\ NothingLeaks /\ FreeSizeRight /\ HeadersFit

(* A record is only set up in space the mapping reaches, and unless a      *)
(* mapping failed the caller's pointer to its channel is into the mapping  *)
(* of now whenever a call is over, however often the file has grown.       *)
PointersFresh ==
  /\ got # NoBlock => got.pos + got.size <= data_size
  /\ chan /\ got = NoBlock /\ mapFails = 0 => ~ moved /\ data_size = size
=============================================================================
