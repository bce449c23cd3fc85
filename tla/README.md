# EFNet services: TLA+ verification project

EFNet services is an IRC services daemon: a single-threaded C program that links
to an IRC network as a server, keeps a copy of the network's state (servers,
clients, channels) and lets loadable modules act on it. Its main module,
chanfix, scores who holds ops in each channel and gives ops back to the best
scored users of a channel that has lost all of them.

This directory models the parts of it that have state worth checking, checks
them with TLC on small instances and proves the most important results with
TLAPS for every value of the constants. Paths are relative to the repository.

## 1. Inventory

| Component | Source | State it keeps | Operations |
|---|---|---|---|
| chanfix database: records | `modules/chanfixdb/chanfixdb.c` | memory-mapped file: channel records in hash buckets, user records in hash buckets and in a sorted doubly linked chain, 14 day counts and a total per record, 10 slots of channel modes | create, find, remove, sort, roll, repair |
| chanfix database: space | same file, 60-281 | a free list, `cfi_next_addpos`, `cfi_free_size`, the mapping | get space (reuse, split, extend), delete space, remap |
| chanfix offline tools | `modules/chanfixdb/chanfixdb_*.c` | none of their own | repair, sort, roll, import, dump, info |
| chanfix: the check | `modules/chanfix/mod_chanfix.c` 208-367 | number of checks, the timer | roll every `cfc_rollfreq` checks, count each op, record modes, start reops |
| chanfix: reop protocol | same file, 369-1195 and 1358-1400 | per channel: FIXING and MANUAL flags, time and passes of the fix | automatic and manual fix, one pass, callbacks when the last op goes |
| chanfix: opers' commands, configuration | same file, 1407-2184 | configuration, list of ignored channels | score, oplist, history, configuration lines |
| network state | `daemon/hash.c`, `daemon/commands.c` | servers and clients in a tree, channels with lists of ops and non-ops, modes, key, bans | SERVER, NICK, SJOIN, MODE, KICK, PART, QUIT, SQUIT, KILL |
| connections, poll loop | `daemon/conn.c`, `daemon/services.c` | the uplink, its state, last ping, autoconnect index and time | connect, register, parse, ping timeout, write, rehash on a signal |
| output queue | `daemon/queue.c` | list of buffers, size | add, delete from the front, free |
| timed callbacks | `daemon/timedcbs.c` | list of timers in order of expiry | add, delete, check |
| module loader | `daemon/module.c` | modules, the clients, commands and callbacks they registered | load, unload, reload, callbacks |
| configuration and rehash | `daemon/conf.c` | servers to connect to, modules | load, reload |
| memory pools | `daemon/mempool.c`, `misc.c` | counts, a magic number per block | alloc, free |
| server jupes | `modules/jupes/mod_jupes.c` | list of jupes, their votes, the module client of each active one, data file | jupe, unjupe, list, expire, load, save |
| oper accounts | `modules/admin`, `modules/admindb` | who is logged in, account file | login, logout, account commands |
| channel and userhost jupes, debug | `modules/chanjupe`, `uhjupe`, `debug`, `crc32` | a list of masks | KILL clients that match, print state |

How they interact. The poll loop (`_io_loop`) reads lines from the uplink and
passes them to the handlers in `commands.c`, which change the state in `hash.c`
and tell the modules through callbacks (`simodule_channel_clmode_changed`,
`simodule_channel_client_removed`, ...) *in the middle of the handler*. The same
loop runs the timers that have expired; one of them is the check of chanfix.
A callback or a timer may itself change the channel and send lines to the
uplink: a pass of chanfix does. Nothing runs concurrently inside the process;
interleaving happens between the steps of one fix (minutes apart), between the
handler and the callbacks it makes, and between the process and its mapped
file when the process dies.

What is hard here, and what makes each part correct:

* **Scores.** Sorting moves one record, so it is right only if all earlier
  operations kept the rest in order. Totals are kept incrementally. The reop reads
  its threshold from whichever end of the chain is nearer. The file is mapped shared, so
  a crash leaves what it interrupted, between two records or inside the update of one.
  *Correct*: chain sorted, chain = buckets, totals = sums, dead records gone at the next
  roll, threshold = k-th best, every op counted once per check; and a crash inside an update
  does no harm beyond its record and the order of its channel.
* **Space.** Records and free blocks never overlap, nothing is lost when the disk
  is full or the mapping fails, and a caller's pointer survives a remap.
* **Reop.** A fix spans passes at different times, while users, ops, opers and
  servers come and go. *Correct*: best users first, no more than the configured
  number, network and services agree, the fix ends and an opless channel is fixed.
* **Jupes.** Votes for a jupe of a server come in over minutes from opers on different
  servers; jupes expire, the process restarts, the data file is truncated before it is
  written. *Correct*: an active jupe has been earned and stays, a restart brings back
  exactly the active ones, each of them holds its name once.
* **Network state.** Names are taken, given up and taken again by servers, users and
  module clients, in any order; a line may name somebody whose memory is gone.
  *Correct*: nobody is left behind a lost server, the counts chanfix decides by are
  counts, the hash finds everyone, the uplink knows of every module client.
* **Callbacks in handlers.** SJOIN and MODE walk lists and hold pointers over a
  callback that changes those lists and frees that memory.
* **Connections.** The array for `poll` is walked over while entries move in it; attempts
  to connect are counted, timed and rotated over the servers. *Correct*: array and
  connections agree whoever is deleted during the walk, one attempt at a time, silent peers
  go, every server is tried.
* **Output.** Lines are cut into blocks and written in parts. *Correct*: bytes leave in
  order, once, and nothing overtakes what waits.
* **Modules and rehash.** Modules share clients and commands, load and unload in any
  state of failure. *Correct*: no function or name of a module that is gone is left with
  a client; after a rehash the modules are those of the file but for those that failed, its
  servers are known, and a name it dropped only where its address stayed.
* **Accounts.** Services and command-line tools change one mapped file under a lock that
  a signal can take away. *Correct*: a session is of whoever logged in, few wrong passwords
  in a minute, a handler writes to the account it found.

`PROJECT.json` lists every hazard with its line and the properties aimed at it.

## 2. Modules

| Module | Models | State and actions |
|---|---|---|
| `Chains` | insert, unlink, move in a doubly linked chain, as sequences; what is left of a list, a set in an order (`Keep`, `InOrder`) | operators |
| `ScoreList` | the searches of `chanfixdb_chanuser_sort`, the threshold walk of `_chanfix_channel_reop` | operators (predicates on where a search stops) |
| `ChanScores` | one `_chanfix_check` over the database, split at every record update | `CheckBegin`, `RollUser`, `RollDone`, `EnterChannel`, `SkipChannel`, `VisitOp`, `CheckDone`, `Crash`, `CutRoll`, `CutVisit` |
| `ScoreBoard` | what the scores promise: windows of days, one credit per op and check, one shift per roll | abstract: `NewCheck`, `Credit`, `CutShort`, `CutShortAt` |
| `ScoreLinks` | the same chain with its offsets `first`, `last`, `next`, `prev` | `Create`, `Recount`, `Sort`, `Remove` |
| `ScoreChain` | what the offsets promise: moves of a chain | abstract |
| `ModeSlots` | the slots in which a check records the channel's modes | `CheckBegin`, `ScoreModes` |
| `FreeSpace` | `_chanfixdb_get_space`, `_del_space`, `_check` and the calls that use them | `GetSpace`, `Link`, `GiveBack`, `UnlinkRecord`, `DelSpace`, `MapAgain`, `FindChannel`, `ReleaseChannel`, `Crash` |
| `Chanfix` | the reop protocol on a channel, with the network around it | `Tick`, `Check`, `Manual`, `Join`, `Op`, `Deop`, `Leave`, `SetModes`, `Servers` |
| `Jupes` | votes, doubly linked list, module clients and data file of the server jupes | `Tick`, `JupeNew`, `JupeAgain`, `Refused`, `Unjupe`, `List`, `Restart` |
| `Network` | servers, users, opers, channels, the hash, module clients, links to servers | `Connect`, `Register`, `RegisterRefused`, `DropUnknown`, `Lose`, `Squit`, `SquitServices`, `Introduce`, `UserIntroduces`, `NewNick`, `ChangeNick`, `Umode`, `JoinZero`, `Pong`, `Sjoin`, `Kicked`, `Kill`, `AddJupe`, `DelJupe`, `Restart` |
| `Modules` | declarations, clients, commands, ids of the modules; load and unload | operators and actions used by `Rehash` |
| `Rehash` | `siconf_parse` over `Modules`, listeners and servers | `Start`, `Hup`, `UnloadNext`, `TakeOver`, `LoadNext`, `LoadDone`, `RemoveOld`, `Running` |
| `Connections` | `siconn_add`, `_del`, `_poll`, autoconnect, listener, ping timeout, `_io_loop` | `Start`, `Hup`, `HupOfFreed`, `Restart`, `Attempt`, `Poll`, and per entry of the walk `Quiet`, `Accept`, `Waits`, `AcceptReturns`, `ReadReturns`, `Drop`, `WrongPassword`, `SquitOther`, `Serve` |
| `OutQueue` | `siconn_printfv`, `siconn_flush` over the blocks of `queue.c` | `Send`, `Flush`, `Close` |
| `ByteQueue` | what the blocks promise: bytes in order, none overtaken | abstract: `Give`, `Take`, `Close` |
| `Accounts` | the account file, its lock, the tools that change it | `ToolLocks`, `ToolEnds`, `CreateAccount`, `AddHost`, `RemoveHost`, `RemoveAccount`, `SetPassword`, `SetExpire` |
| `Admin` | login, passwd, logout and sessions over `Accounts` | `Arrive`, `Leave`, `Login`, `LoginEnds`, `Passwd`, `PasswdEnds`, `PasswdOfNobody`, `Logout`, `Reload`, `Tick`, `ToolRuns` |
| `DataProofs` | lemmas on lists, sets and sums that the other proofs cite | |
| `ChanScoresProofs`, `FileProofs` (of `FreeSpace`, `ScoreLinks` and `ModeSlots`), `ConnectionsProofs` (of `Connections` and `OutQueue`), `NetworkProofs` (of `Network` and `Admin`), `ChanfixProofs`, `JupesProofs`, `RehashProofs` (of `Rehash` and `Modules`) | theorems | |
| `MC...` | instances for TLC | |

`Rehash` extends `Modules` and `Admin` extends `Accounts`: the actions of the extended
module are steps of the extending one. `ScoreBoard`, `ScoreChain` and `ByteQueue` are
instantiated with a refinement mapping in `ChanScores`, `ScoreLinks` and `OutQueue`.

Correspondence with the code:

* `ChanScores` splits the check, which is one call, into one step per record,
  because a crash (`Crash`) finds the shared mapping in just that state. `pc`
  keeps the steps of a check together; without a crash no other step comes
  between. A crash inside the update of a record is `CutVisit` or `CutRoll`, with what
  had been stored by then: a record that was created and not counted, a total without its day
  or the day without the sort (`mod_chanfix.c:344-364`), a lowered total before, within or
  behind the move of the days and before the sort or the removal (`chanfixdb.c:946-957`). Only
  `chanuser_create`, `_sort`, `_remove` and the `memmove` are each taken whole. Two history
  variables say where such a crash fell: `torn` has the records whose total it parted from
  their days, until a roll removes them, `unsorted` the channels it kept from sorting a changed
  total. The properties hold for all others, whatever becomes of these, and
  `tot` counts modulo `TotLimit`, since a torn total may go below zero. Hash buckets are "any order", names are values. The loops of
  `chanfixdb_chanuser_sort` are given as the place where they stop (`Lands`).
* `FreeSpace` keeps positions as integers and the free list as a sequence. The
  crash is between calls; the stores of one call are not separated.
* `Chanfix` counts time in checks and treats a pass as one step, as it is one
  call. What the configuration says of the channel in `cfc_chanignores` is two more flags of
  `conf`. `ch.ops` and `ch.non_ops` are the two lists, in their order, because the
  order decides between equal scores. `net` is what a remote server makes of the
  messages a pass sends; it is external code and follows the TS rules the
  services themselves implement in `_command_sjoin`.
* `Jupes` has the list along `j_next` as a sequence of addresses, and `j_prev` as it is
  in each structure, as the two disagree. An address is not used again in the life of a
  process, so that a pointer to freed memory is seen; a handler that follows one makes
  the state `wild`, after which only `Restart` is possible. `expires` counts down in
  ticks, `Never` is the 0 of the code. The file is the sequence of the records in it;
  `Writes` lets a write fail at each of its lines. The parser of the file is a library
  outside the repository: it is taken to accept a file that ends early. What a file
  that was cut within a jupe may bring about is excluded from two properties,
  because the code takes no care of it.
* `Network` takes one line as one step. All names are in one bucket of the hash, which is
  the list it is in the code with its head and its links, and an address may be used
  again at once after it was freed. Who follows a pointer to free memory makes the state
  `wild`, after which only `Restart` is possible; `WildOnlyThen` says what can. Every line names a
  prefix from the side it came from, and nobody but services has the name of services (`SquitServices`
  is the SQUIT of it). Which of two
  sides survives a nick collision is left open, as timestamps are not kept.
* `Modules` loads and unloads a module in one step. A declaration stands for the
  memory it is in, so `OwnerAnswers` says that a client's name is not in a library that
  has been closed. `Rehash` splits `siconf_parse` at each module that it loads or unloads, since
  each may fail.
* `Connections` has `slot` for the `i` of `siconn_poll`, and one step per entry: what
  moves in the array while it is walked over is the hazard. `listener` is the connection `lc_con`
  names; a poll error frees it and leaves the name (`Freed`), and a reload that follows that is
  `wild` until the process is started anew. A command that deletes another connection is
  `SquitOther`: `i` stays, and when the entry the walk is at is the one that moves, the walk
  ends with it (phase `last`). Each server has an address of its own; what addresses
  decide is in `Rehash`. Its time is in units of the ping timeout, which
  is also the time between attempts. The guard of `Attempt` has the order of the loop:
  after poll and after a rehash.
* `OutQueue` knows a byte by its line and its place in it, so that lost, repeated or
  reordered bytes differ. A line that goes over two blocks, or is cut for want of memory, is
  `marred`: see section 5.
* `Admin` has two steps to a handler, at the lock and behind it. `granted` is
  a history of who logged in at an address; `guesses` one of the attempts of the last minute.
* Definitions introduced as *Variant* are wrong on purpose: each is what one
  property of a run must notice when it takes the place of the definition after it.
* Properties that belong together are conjoined: `NetworkSound`, `RecordsSound`,
  `ConnectionsSound` and so on name their parts, each with its own comment.

## 3. Runs

| Run | Question | Instance |
|---|---|---|
| `MCChanScores` | do chain, totals and counts survive counts, rolls, removals and a crash anywhere in them, and does the check credit each op once (`ImplementsBoard`)? | 1 channel, 3 userhosts, 2 clones, 2 days, roll every 2 checks, 1 crash |
| `ScoreLinks` | do the offsets implement the chain, in both directions, and does a sort ever harm a chain in no order? | 4 records, totals 0..3 |
| `MCModeSlots` | is the weakest slot replaced, are no modes held twice, does the total never underflow? | 2 channels, 3 modes + none, 3 slots, 4 days |
| `FreeSpace` | is space never shared, lost or outside the file, and is a pointer never stale? | 3 records of 3 sizes, a disk of 112, 1 crash, 1 failed mapping |
| `MCChanfix` | does a fix give ops to the best, not to too many, with the network agreeing; does it end, only when it is through, and is every opless channel fixed? | 3 clients, 2 recorded users who stay away, 3 score boards, 3 configurations, one with the channel ignored by the timer |
| `MCJupes` | is an active jupe earned, does it stay, does a restart bring it back, does it hold its name once? | 2 names, 3 opers (1 admin) on 2 servers, 2 votes needed, 3 jupes per process, 1 failed write |
| `MCNetwork` | is what the commands decide by what is there, is everyone found, do channels go with their last member, when is freed memory used? | 2 connections, 3 structures, 2 server names, 2 nicks, 1 channel, a server and a nick a module may take, 1 removal of a module client by the network |
| `MCRehash` | what is left of modules, clients, servers and ports after any rehashes with any failures? | 4 modules, 2 shared clients, 3 files, one with two listeners |
| `MCConnections` | does the array agree with the connections, whoever is deleted during the walk; do silent peers go, is every server tried? | 2 sockets, 2 servers, 3 files, with and without a listener |
| `OutQueue` | do the blocks implement a queue of bytes, is the peer sent every line, is all of it sent? | 3 lines of 1 to 3 bytes, blocks of 3, 2 blocks per `writev` |
| `MCAdmin` | whose is a session, how many guesses, which account does a handler write to? | 1 address, 2 hosts, 2 names, 1 cell that is used again, 5 edits, 2 failures allowed |
| `UnjupeIsSafe` | expected to fail: see section 5 | as `MCJupes` |

Why the bounds are enough. Sorting one record compares it with a contiguous
stretch on one side, so four records have every relation of a record to what is
before, in and after that stretch, ties included. Two days and a roll every
second check make a record gain points on both, lose the older, and die; more
days only repeat the same shift. The disk holds a header and a handful of the smallest records, so that reuse, splitting
above and below the header size, extension with and without slack, and failure all
happen. With `NicksToOp = 2` and three clients a pass can find too few, enough and
too many; the boards have ties, strangers, and absent users who hold the threshold
up; `WaitMin`, `WaitMax` and `TimeBetween` are small but different, so that the change
of rate and the pause are reached. Three jupes per process
are the fewest with one before and one after another, which is where the two pointers
of the list can disagree; two votes are needed, from an admin and an oper or from
two opers. Three structures are a server, what is behind it, and one that collides with
either. With two sockets the entry that moves is the one the walk is at, or the next it would
come to; with three it may also be a later one, which TLC leaves to the theorems `ConnectionsAreSound` and
`PollsAreSound`: they hold for any number of sockets. Three lines over blocks of three bytes are enough for a line over two blocks behind another,
and for a queue of more blocks than one `writev` takes. `TotLimit` stands for 2^32: any value larger than all sound totals
shows a total that went below zero. One cell is the worst case for an account that is removed and whose
space goes to another. The files of `MCRehash` add, drop and reorder modules, and give
a server's name another address. Every variant of section 2 is caught under these bounds.

Bounds in guards: `MaxCrashes`, `MaxClones`, `MaxJupes`, `MaxFailures`, `MaxStrikes` (removals of module
clients by the network), `MaxLines`, `MaxEdits` (changes by tools); counters that only
grow stop at the largest value they are compared with (`Horizon`, `ChecksNeeded`).

Fairness.

* `Chanfix`: `WF_due(due' = ~due)`. `due` changes when the
  period of the check is over and when the poll loop runs the timer, which re-arms
  itself (`timedcbs.c` with `repeat`). The loop waits in `poll` no longer than until the
  next timer (`services.c:239-253`), so neither can be put off for ever. Nothing is
  assumed of clients, opers or servers; the liveness properties say instead under
  which behaviour of theirs they hold (`LeftAlone`: opers stop restarting the fix).
* `Connections`: `WF_vars(Loop \/ Signals)`, the loop goes on, and strong fairness of a poll in which time
  passes: polls that return at once for ever would stop the clock. Nobody has to
  connect, say anything or send a signal; `accept` and `read` may wait for ever, and the properties say so.
* `OutQueue`: `WF_queueVars(Flush)`, as poll reports a connection that has room. `AllIsSent` asks it of every byte
  queued, so it does not rest on the bound that stops `Send`.

`CHECK_DEADLOCK FALSE` is set where a bound stops the model: `MCModeSlots` (number of
checks) and `OutQueue` (number of lines, and a closed connection).

## 4. Proofs

Proved with TLAPS, for every value of the constants allowed by the modules'
assumptions:

* `DataProofs`: moving, inserting and unlinking keep a sequence free of repetitions and
  change its set of elements as they should; `Keep` and `InOrder` list each element they are given once,
  in order. `SortSorts` is the heart of the scores: a chain that is in order but for
  one record is in order after that record's sort, wherever the walk stops. A sum over a set is a fold, of
  which the library proves nothing: `DataProofs` shows that the fold exists and how it changes when an element is
  added, taken out or given another value, with inductions that are written out as a least
  counterexample, a set of numbers, since the induction theorems take an operator.
* `ChanScoresProofs`: `TypeCorrect`, `ChainsSorted` (`SortedOK`), `ChainsComplete`
  (`ChainMatchesTable`). The inductive invariant `IInv` joins the three with what
  ties the running check to the database: a record still to be rolled exists, the
  channel being examined has a record. Sortedness alone is not inductive, because
  the sort of one record keeps a chain sorted only if that record is in the chain,
  once; and the removal of a record needs the chain and the table to agree. A channel in
  `unsorted` keeps all of it but the order (`Linked`).
  `RecordsAreSound` (`RecordsSound`) adds the sums (`RecInv`): that a day does not wrap needs
  a bound for every day, and as a roll moves days, one for the sum of the first *n* days, for
  every *n* (`Tallied`). `FewDead` counts the records without a score: each crash makes at most one, and those a
  running roll has not reached are still ahead of it. All of this is of records that are not `torn`; what a crash left
  of the others, and what rolls make of it, needs no bound. That the threshold is the *k*-th best follows from the
  order of the chain. `BoardIsImplemented` (`ImplementsBoard`) is the refinement of `ScoreBoard`, step by step: each
  action is a credit, a roll, a crash or nothing to the board, and a torn record has no window there.
* `FileProofs`, the space: `TypeCorrect`, `SpaceNotShared` (`NoOverlap`), `SpaceInFile`
  (`InFile`). The invariant speaks of all *claims* on space (records, free blocks, the
  block just handed out) at once: any two are apart and each lies between the
  header and the end of what has been handed out, which is within the file. A
  split, a free or a link only renames or divides claims. `SpaceIsAccounted` (`SpaceAccounted`) is about
  the sums of the same claims (`Books`): what is used, free, held or lost adds up to what was ever handed out, and the
  size in the header to the free blocks. `PointersStayFresh`
  (`PointersFresh`) rests on `Mapped`: whoever holds space has the whole file mapped, so
  that a mapping that moves is noticed by the same call.
* `FileProofs`, the chains: `OffsetsAreSound` (`LinksSound`), `OffsetsImplementChain` (`ImplementsScoreChain`)
  and `SortsNeverHarm` (`SortNeverHarms`). The invariant `LinksHold` says which sequence the offsets stand
  for (`Shows`) and that the records outside the chain lead nowhere (`Loose`): without that the walk, a recursive function over all
  records, need not be defined. The search loops and the walks are recursive functions too: `FirstIsFound` and
  `WalkReads` show that there is a function with the loop's equation, and that any such function stops where the chain
  says. `PutsLinkIn` and `RemovedShows` make each surgery the insertion or removal of one place, and
  `ForwardShows` and `BackwardShows` put the loop and the surgery of a sort together. `MoveHelps` counts the
  pairs the wrong way round before and after a move. TLC checked `LinksHold` first.
* `FileProofs`, the modes: `WeakestIsForgotten` (`ForgetsTheWeakest`) and `ModesHaveOneSlot`
  (`OneSlotPerModes`). `WeakestIsWeak` shows where the scan ends, wherever it began: a
  candidate left by another channel is kept only if it is as weak as the weakest slot of this one.
  `ScoredSlots` says what a step makes of the slots. `SlotsAreSound` (`SlotsSound`): a total is what
  the recent checks gave and never goes below zero, which needs the number of checks that have scored this
  channel (`CountInv`), as a check goes through the channels one after the other.
* `ConnectionsProofs`: `ConnectionsAreSound` (`ConnectionsSound`). That every connection is
  at its place is not inductive: when the last entry moves, it must be of a connection, and of only one
  that claims that place, wherever in the array the gap is. `Matched` says so in both directions, and that there are as many
  entries as connections follows at the end, from the bijection. With it go that at most one connection was
  started from here, which makes `outgoing = 0` right when that one ends, and that no
  listener is such a connection. `PollsAreSound` (`PollSound`): each entry asks for what its connection needs, also after it
  moved. The lemmas are about records like `Conns`, one for each
  operator the actions are built from, so that a step which reads, marks, queues and
  flushes is a chain of them.
* `ConnectionsProofs`, the output: `QueuesAreSound` (`QueueSound`) and `QueuesImplementBytes`
  (`ImplementsByteQueue`). `QueueSound` is inductive but for the last block, which may be used up only when it
  starts again at its beginning (`SoundBlocks`); otherwise a line would go behind an empty block. What waits is a
  concatenation over the blocks, a fold that is a recursive function: `FlattenSeqs` gives its equations,
  `HeldSplit` what waits before, in and behind one block. `QueuedIs`, `OfferedIs` and `TakenIs` say of the three
  calls what they add, offer and take, as sequences of bytes; the rest is where to put the parentheses.
* `NetworkProofs`, the network: `NetworkIsSound` (`NetworkSound`), `EveryoneIsKnown` (`EveryoneKnown`),
  `EmptyChannelsGo` (`GoneWhenEmpty`) and `WildOnlyWhenSaid` (`WildOnlyThen`). `NetworkInv` is inductive. Its
  first part, `SoundInv`, holds also of a state that is `wild`, which only `Restart` leaves: the
  structures are trees over the connections that servers have (`Trees`), two servers never have one connection, and
  the counts, opers and members are those of the structures. `Trees` has no paths: *every set with the roots and with
  whoever's parent it has is everybody*, from which `BehindFacts` gets that a link takes all who came over it.
  `FoundInv` says of the pointers of a bucket that there is a list they are of (`Linked`), with everyone in it and with
  no two of a name, but for a module client before somebody else (`NamesAre`), which is why `siclient_find` finds the
  right one. It holds until the network removes a module client. `FreedFrom` takes a set out one by one in whichever
  order (`UnlinksAll`), `Bucket` is a walk with a bound (`BucketOfLinked`), and `Struck`
  takes out one who stays in memory (`StruckStep`). The counts need only what `SameFace` keeps, so the proofs about
  them do not see the pointers. TLC checked `SoundInv` and `FoundInv` on the states of `MCNetwork` first.
* `NetworkProofs`, the logins: `SessionsAreSound` (`SessionsSound`) and `HandlersWriteTheirAccount`
  (`WritesItsAccount`). The second part of a handler is right because of what the first found and
  the lock has kept since: `HandlerOK` says that with the lock the cell is used and has that name, and the
  steps of the tools show that none of them happens while services have the lock.
  `GuessesAreFew` (`FewGuesses`): the guesses of the last minute are of at most two windows of the counter, of which
  only one is still counted. `GuessInv` says where the one ends and the other begins, and that neither has more
  than a window takes.
* `ChanfixProofs`: `NetworkAlwaysAgrees` (`NetworkAgrees`), `PassesAreFair` (`PassIsFair`) and
  `FixesAreThorough` (`FixIsThorough`), from what one pass makes of any legal channel (`PassIsGood`). That a
  fix ends only when it is through needs the passes to be counted: one under way has made fewer than there
  are recorded users, as each pass reaches one more of the best of them.
* `JupesProofs`: `JupesAreSound` (`JupesSound`), `ActiveOnesComeBack` (`ComesBack`) and
  `OneClientPerJupe` (`ClientPerJupe`). As a restart makes the list from the file, the file must be as good as the list, except in its
  last jupe when a write was cut, and hold a name once. As an unjupe writes through
  `j_prev`, that must name the jupe in front, nobody, or memory that was freed (`Linked`): then the list stays
  one without repetitions, whatever it loses. TLC checked this invariant on the instance of `MCJupes` first.
* `RehashProofs`: `RegistrationsAlwaysSound` (`RegistrationsSound`), `ListsAreComplete` (`EveryoneIsListed`),
  `FilesAreFollowed` (`FollowsTheFile`) and `OrderAndIdsAlwaysKept` (`OrderAndIdsKept`). Of the modules: `Agreed` says
  of clients and declarations, as a pair of tables, that both lists have the same registrations and no two
  declarations of a client share a command. It is kept by adding, dropping and deleting one declaration, hence by
  every loop over some (`Through`), wherever an init stops. That ids stay apart needs that they were given in order
  (`IdsFit`): the next one is the greatest and one more, and there are never more than modules. Of the
  rehash: the loop that unloads follows `mc_prev` while the list changes below it, so that *all modules that are up are
  at the pointer or ahead of it* (`CursorFits`) has to be kept, with *the order they were loaded in is the order of the
  list* (`ListsFit`), from which the newest goes first. At the start the list is the file's, and what
  is loaded is ahead of what is still to load (`BootFits`). `FileFits`, `ServersHold` and `PortsHold` say how
  far the loops over modules, servers and listeners have come with the file; TLC checked all of these on the states of
  `MCRehash` first.

Assumptions: those named `...Assumption` in the modules (constants are naturals, sentinels
are not members, a day's count does not wrap, there are finitely many sockets and modules, a file
names no module twice, which `_conf_module` sees to). Names of servers and addresses of listeners may come twice
in a file: what holds only without that says so in the property.

Only model-checked: liveness, which is out of the prover's reach (`FixEnds`, `OplessIsFixed`, `SilentOnesGo`,
`EveryServerIsTried`, `AllIsSent`). `UnjupeIsSafe` is false (section 5).

## 5. Findings

`UnjupeIsSafe`: an expired jupe leaves a back pointer to freed memory in its
successor, through which the successor's unjupe writes (`mod_jupes.c:264`, `825`, `775`);
`docs/BUGS:12` asks why the server cores shortly after an unjupe. The run shows it.

Seen while modelling, and part of the models where it concerns what they have as state:

* The list of jupes that a load builds has no back pointers (`mod_jupes.c:1332`), so an unjupe
  of one that is not the first drops those before it from the list, and their clients stay.
* A jupe that the network removes is taken out of the hash and introduced again, but not
  put back (`hash.c:255`, `263`); its second removal unlinks it twice. `strikes` and
  `WildOnlyThen` in `Network`. `docs/BUGS:16-18` wonders about the SQUIT of a jupe.
* A user who changes its nick to one that is taken can be freed within the line
  (`_command_nick`). A SERVER line from a user deletes the connection and goes on with it, and with the user it has
  just freed, for want of a `return` (`commands.c:1217-1226`). SQUIT of services' own name finds
  `SIMe` in the hash and frees it (`commands.c:1888`, `1922`). All three in `WildOnlyThen`.
* A crash between the store of a total and those of its days (`mod_chanfix.c:360-361`, `chanfixdb.c:946-950`) parts them for
  good: a total one too high never comes down to 0, and its record is never removed; one too low goes below 0 with a later roll, wraps to about 2^32, and the user is the best op of the
  channel. A crash before the sort leaves the chain out of order, which later sorts of other records mend or carry on (`SortNeverHarms`),
  and the threshold is off meanwhile. `torn` and `unsorted` in `ChanScores`.
* A fix that an oper starts on a channel the timer ignores gets one pass and never ends: `_chanfix_automatic_reop`
  returns at the ignore (`mod_chanfix.c:1075-1079`) with `FIXING` set, and a second command needs an override. It is in `Chanfix`;
  `FixEnds` excludes such channels by name.
* A server name that a file dropped stays known, with its old passwords, when a server of the file has its address,
  since `siconf_parse` keeps servers by address (`conf.c:856-864`): `FollowsTheFile` says where it may. A listener whose
  socket could not be opened is listed all the same, and not tried again (`conf.c:690-707`).
* A poll error deletes the connection of the listener like any other (`conn.c:435-442`) and leaves `lc_con` and `lc_fd`: nobody
  listens any more, a reload that keeps the listener does not open it, and one that drops it frees the connection twice
  (`services.c:105-108`). `Freed` and `HupOfFreed` of `Connections`.
* SQUIT of another link deletes its entry during the walk (`commands.c:1922`, `hash.c:237`) and `i` is not told: what moves is passed over with
  its `revents`, and when the sender's own entry moves, the walk marks a place past the end and the same answer is met
  again, so that `read` waits for a peer that has said nothing. `SquitOther`, and phase `blocked`.
* An SJOIN with an older creation time deops a list while a pass runs in its callback, and
  the clients the pass linked into `ch_ops` are dropped (`commands.c:1043-1052`). A pass inside MODE or SJOIN
  frees the key that the handler frees again (`mod_chanfix.c:649`, `commands.c:796-804`, `1130-1137`).
* A fix that ends because the channel has enough ops does not set `cfc_fixed_time`
  (`mod_chanfix.c:604`), so the pause between fixes is computed from its start, and the
  callbacks start a fix without asking whether enough servers are linked (`1375`); both are so in `Chanfix`.
* `siqueue_add` does not advance `buffer` when a line goes over two blocks
  (`queue.c:57-63`): the second block repeats the line's first bytes. `marred` in `OutQueue`.
* A signal that interrupts `poll` leaves the `revents` of before, and a stale one of the
  listener makes the process wait in `accept` (`conn.c:453`): phase `blocked` of `Connections`.
* A wrong password resets the server's time of trial (`commands.c:1348`), so that it is tried
  again before the others; a server that a rehash adds has an uninitialised one
  (`conf.c:727`) and may never be tried. Both are named in `EveryServerIsTried`.
* What moves into the place of a connection that timed out is passed over in that round
  (`conn.c:419`). It is looked at in the next one: `SilentOnesGo` holds.
* `siadmindb_lock` can be interrupted by a signal (`services.c:378` sets no `SA_RESTART`) and
  its result is ignored (`mod_admin.c:379`): `alone` in `Admin`.
* A session stays when its client quits while the admin module is unloaded, and the next
  client at that address has it: `missed` in `Admin`. `_do_logout` logs a variable
  `acct` it does not declare (`mod_admin.c:322-324`).

## 6. Not modelled, and what could come next

Not modelled because there is nothing to check: commands that only print (score, oplist,
history, the offline tools that dump), CRC, the wording of messages, the parsing of
single configuration lines, memory pools, and the channel and userhost jupes, which keep a list of masks and send
KILLs. `timedcbs.c` has one user, the timer of chanfix, which is `Tick` of `Chanfix`. Abstracted: bans, keys
and topics of a channel, the splitting of long messages, the out-of-memory return of a pass, locks on the
chanfix database (no-ops in the code), byte order, the free list of the account
file (the code of `FreeSpace` but for the names), the stores within `chanuser_create`, `_sort` and `_remove` and
within one call of `FreeSpace` that a crash might separate, the callbacks a module keeps when its library cannot be
closed (`module.c:215-232`).

What could come next:

1. The SJOIN and MODE handlers step by step, with ops, non-ops and keys, over `Network` and with
   `Chanfix` as the callback in between.
2. Crashes between the single stores of `_chanfixdb_get_space`, `_del_space` and
   `chanfixdb_chanuser_sort`, followed by the repair tool.
3. More than one bucket in the hash of `Network`: that a structure is taken out of the bucket
   of its name cannot go wrong in the model of the worst case.
