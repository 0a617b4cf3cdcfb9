# A TLA+ model of Endfields DB

Endfields DB is a single-file embedded store in C: a superblock, a hash index, an array of
64-byte slots and an undo log in one mapping, which several threads (and, for parts of it,
several processes) use at the same time. These modules model its core, TLC checks them on
small instances, and TLAPS proves most of the safety properties, of the free list, the queue, the
index and its seqlock, slots and blobs, the transactions and the file, for every value of the
constants. All paths below are relative to the repository; `src/` is its source directory.

## 1. Inventory

| Part | State | Operations | What is hard | What makes it correct |
|---|---|---|---|---|
| Slot pool, free list (`endfields.c`) | `free_list_head`, `free_count`, `next_offset` and `status` of slots, `index_write_lock` | `ef_alloc_slot`, `ef_free_slot`, rebuild on open | compare-and-swap loops, ABA, a counter apart from the list, retry limits | no slot has two owners; the links are the list; "full" is justified |
| Queue (`ef_queue.c`) | `queue_head` (a dummy), `queue_tail`, `queue_lock`, nodes | push, pop, empty, drained, and their undoing | creation of the dummy without the lock, a pool that can be busy half way, a caller that dies in between | first in, first out; no message and no slot lost |
| Hash index (`ef_index.c`) | Robin Hood table, capacity and entry count in the handle | put, get, remove, remove by slot, rehash, shrink, clear, iterate | displacement and back shift around the end of the table, rehash between two critical sections, counts that a new handle does not know | every entry can be found; an accepted key stays |
| Seqlock (`ef_index.c`, `ef_sb_layout.c`) | `index_seq` of the handle | lookups and iterations without a lock | two-word entries read while they are moved, and a table read while a rehash moves it | a lookup that is believed is true |
| Slot API, blobs (`endfields.c`, `ef_blob.c`) | payload, CRC, links, overflow chains | write, link, claim, free, write and read blob, walks along links | writes that run out of slots half way; one field, `next_offset`, for links, chains, queue and free list | chains neither leak nor are shared; blobs read back |
| Transactions, undo log (`ef_txn.c`, `ef_undo.c`) | lock and state in the superblock, log behind the slots, flags of the handle | begin, commit, abort, append, replay, recovery | a death at every store; calls without a record; a log that fills up or is not where it should be | abort and recovery give back the state at begin; a commit stays |
| Open, close, sync (`endfields.c`) | checksum of the superblock, `sb_meta_dirty`, where a handle finds the slots | create, validate, migrate, recover, rebuild, commit of the metadata; read-only and memory handles | a checksum that is older than its fields; several processes that open, migrate and grow one file | a file that was closed can be opened, and its payloads are where they were |
| Growth (`ef_grow.c`) | `max_slots`, mapping | `ef_grow`, growing allocation, upgrade, iteration over slots | the mapping moves; system calls fail between two changes; the log has to move with the slots | the new slots are free, the old content is kept, the file stays valid |
| Layout (`ef_sb_layout.c`) | places of fields by schema version | locks, migrations | bytes that mean something else in the next version | a migrated file reads as before |
| Commands (`ef_execute.c`) | none | one opcode per call | – | – |
| Ports (`ef_port.c`) | file size, mapping | open, map, lengthen, unmap, close, sync | calls that fail half way | – |
| CRC, atomics (`ef_crc*.c`, `ef_atomic_unaligned.h`) | none | – | – | – |

The parts meet in few places. Every call that takes or returns a slot goes through the free
list; `ef_alloc_slot` pops under the *index* write lock, and `ef_return_slot_to_pool` first
removes the slot's index entry under that lock and then pushes without it. The queue takes its
nodes from the pool and returns them while it holds the queue lock. Blob writes allocate (and
in doing so may grow the file). In a transaction each call appends records to the undo log;
abort and recovery apply their inverses with the same helpers. Open runs recovery and then
rebuilds the free list from the statuses of the slots.

The hazards of the code, each at its line, are listed in `PROJECT.json` with the properties
that address them.

## 2. Modules

| Module | Models | Kind |
|---|---|---|
| `EfPool` | what the slot pool promises | abstract specification |
| `EfFreeList` | free list: pops, pushes, the lock, reopening; one atomic access a step | implements `EfPool` |
| `EfFreeListProofs` | theorems about `EfFreeList` | TLAPS proofs |
| `EfFifo` | a first-in first-out queue | abstract specification |
| `EfQueue` | the queue over a pool that may be contended; one access a step | implements `EfFifo` |
| `EfQueueProofs` | theorems about `EfQueue` | TLAPS proofs |
| `EfHashTable` | the Robin Hood algorithms as operators on a table | operators |
| `EfMap` | a map from keys to slots | abstract specification |
| `EfIndex` | writers of the index, one critical section a step | implements `EfMap` |
| `EfTableProofs` | what the algorithms of `EfHashTable` keep, for the two modules that run them | TLAPS proofs |
| `EfIndexProofs` | theorems about `EfIndex`, from `EfTableProofs` | TLAPS proofs |
| `EfSeqlock` | readers against a writer, one 64-bit word a step | uses `EfHashTable` |
| `EfSeqlockProofs` | theorems about `EfSeqlock`, from `EfTableProofs` | TLAPS proofs |
| `EfSlots` | slot, blob, queue and undo calls as functions of a database | operators |
| `EfBlob` | any sequence of slot and blob calls in a buffer | runs `EfSlots` |
| `EfBlobProofs` | theorems about `EfBlob`, and about the calls of `EfSlots` on pool and chains | TLAPS proofs |
| `EfTxn` | transactions over slot, index, blob and queue calls, deaths, recovery | runs `EfSlots` |
| `EfTxnProofs` | theorems about `EfTxn`, and about the calls of `EfSlots` | TLAPS proofs |
| `EfFile` | the file of every schema and the handles of several processes on it | composes opening, migration, growth, locks |
| `EfFileProofs` | theorems about `EfFile` | TLAPS proofs |
| `MC*` | the instances for TLC | |

`PROJECT.json` maps every definition to the lines it stands for. Names are those of the
source where TLA+ allows it. Operators whose comment begins with "Mutant" are plausible
mistakes in the definition that follows them; TLC finds each of them with the property named in
`PROJECT.json`, which is how we know that the property looks at that code.

### Free list (`EfFreeList`)

`free_list_head`, `free_count`, `next_offset`, `status` and `index_write_lock` are the shared
words; `pc`, `head`, `next`, `slot`, `spins`, `err` are the locals of the call each thread is
in. `PopHead … PopDec` and `PushHead … PushInc` follow `ef_free_list_pop_atomic` and
`ef_free_list_push_atomic` access by access; `AllocLock`/`AllocUnlock` and
`FreeLock`/`FreeUnlock` are the lock byte. A loop that has failed `SpinMax` times returns the
error the code returns; a push that gives up leaves its slot marked FREE in no list (`stray`).
`Reopen` (close, then open with `ef_rebuild_free_list`) happens while no call runs. The
auxiliary `pos` is the height of a slot in the list, `owned` what each caller holds. Index
entries are left out: `ef_return_slot_to_pool` enters and leaves the lock to remove one.

### Queue (`EfQueue`)

One step per access to `queue_head`, `queue_tail`, the links and the lock byte, including the
creation of the dummy by the first push: allocation, compare-and-swap of the head, store of
the tail. The pool is that of `EfPool`, one step an operation, which fails up to `MaxFaults`
times with the errors in `PoolErrs`: what contention for the free list can make it return.
`leaked` collects slots that a failing call leaves behind. `Die` ends the process of a thread
inside a call: the lock stays set, the node in its hands stays where it is, and the others, and
those that open the file later (`Reopen` does not look at the queue), have to live with it. The
pool does not grow.

### Index (`EfHashTable`, `EfIndex`, `EfMap`)

`EfHashTable` has the loops of `ef_index_put_entry`, the lookup, the back shift and the refill
of a rehash as recursive functions on a table of entries. `EfIndex` runs them from several
threads: a step is one critical section of the index write lock, so that a put that grows
(`Put`, `GrowRehash`, `InsertAfterGrow`) and a removal that shrinks (`Remove`, `AutoShrink`)
are interrupted where the code lets go of the lock and carry on with what they decided before.
Keys are their hashes. A rehash moves the slots and adjusts every stored offset in the code;
entries hold slot numbers here, so there is nothing to adjust. The back shift of a removal is a
loop without a bound in the code (`ef_index.c:572`): in a full table without an entry at home it
comes round to entries it has moved already and moves them once more. `BackShift` makes `c * c`
turns, for a table of capacity `c`; theorem `RemovalEnds` says that the loop has come to its end by
then, in every table in order.
The calls are made outside transactions. The backend is chosen at the start: a buffer has room
for `MapCap` entries, a file for any number.

### Seqlock (`EfSeqlock`)

A writer takes the lock, makes `index_seq` odd, stores entry after entry (key, then offset),
makes it even and unlocks; the stores are those of the algorithms of `EfHashTable`, in their
order. A rehash of a database in a buffer is such a section too: growing it moves the slots away
and empties a larger table over the bytes they leave behind; shrinking it moves them over the end
of the table. `words` is the part of the buffer that a table may cover, and where slots are, a
load gives any word (`SlotBytes`). Offsets are numbers counted in slots from the start of the
buffer, adjusted as `ef_index_fixup_offset` does; capacities and `PerSlot` are scaled down
together. A reader loads `index_seq`, then the capacity, walks, and believes the result if
`index_seq` was even and has not changed, else tries again; then, outside the window, it turns
the offset into a slot (`GetSlot`). Iterations load the capacity, then `index_seq`, and look at
it again between entries. A call that takes the lock several times is several sections, in any
order: `EfIndex` has the order. Each atomic
access takes effect in program order: the acquire and release forms and fences of
`ef_atomic_unaligned.h` are taken at their word.

### Slots and blobs (`EfSlots`, `EfBlob`)

A database is `[slot, head, count, index, qhead, qtail]`. The operators of `EfSlots` are the API calls as
functions from a database to `[db, err, recs, got, marked]`: the database after the call, the
error, the undo records it appends, the slot it hands out and whether it called
`ef_db_mark_meta_dirty`. A CRC is the content it was computed
from, so a call that forgets to stamp a slot makes the next call fail, as in the code.
Payloads are the first eight bytes, which an undo record can hold, and the rest. `WriteField` writes
a byte of the first eight, of the status or of `next_offset`; what it records of byte 0 are eight
bytes read from a variable of one, so the record holds a value that nobody has set. Whether the
table has room for a new key is left open here (`IndexPut`): without room the key is refused in a
transaction with `EF_ERR_INDEX_BUSY`, and outside when the table cannot grow. Blob data is
measured in pieces, of which `InlineCap` fit in a head and `ChunkCap` in an overflow slot.
`EfBlob` makes these calls in any order on a buffer with room for two more slots, with
reopenings, walks along the links (`Chase`, `ChaseN`) and iterates over the slots in use
(`ForeachUsed`, `SlotIterNext`) in every state. A caller passes only
slots it can know of, and with `StaleLinks = FALSE` does not free a slot that another one links
to.

### Transactions (`EfTxn`)

The file is `d`, `lock`, `state`, `sum` (the superblock fields whose checksum is stored) and
`log`; the handle `active`, `dirty`, `base` and the position of a replay. A call that appends
its records before the change is one step; one that appends them after it (allocation, write to
a FREE slot, index calls, push) is two. Begin, commit, abort and recovery take one step for each store
whose order a death can tell apart: `Begin`, `BeginActive`, `BeginReset`; `Commit`, `EndState`,
`EndUnlock`; `Abort`, `ReplayRecord` once per record, `AbortReset`; `Open`, `ReplayRecord`,
`RecoverReset`, `RecoverState`, `Rebuild`. `Crash` can happen in every state with a handle. All
stores of a dead process are in the file (a shared mapping); the loss of power is not modelled.

What can be undone is a property of the calls made, and `Level` names it: 0, the records take
the call back completely; 1, they do once open has rebuilt the free list as well (the
allocation of the last free slot; a write that claims a FREE slot); 2, they do not (a free, a
claim by `ef_set_status`, a payload of more than eight bytes, a single byte, a key that is
overwritten or put to a slot that has one, a blob, a push or a pop, a call whose record did not
fit or was not yet appended). `did` is the worst level of the running transaction and `sound` says that no abort
of a higher level has happened since the file was opened; the properties of abort and recovery
are stated for the levels they hold for, and the other levels are listed in section 5. `msgs`
is what the queue must hold according to the results of the calls, until a transaction that
called the queue is undone (`qcalls = "undone"`): what the two restore functions leave of the
queue is the subject of `AbortUndoes` and not worth following further.

### The file and its handles (`EfFile`)

`file` is what is on disk: size, magic, version, flags, `max_slots`, capacity, the bytes 22 to 25
of the reserved area, for each slot where its payload lies (`"legacy"` directly behind the
status, `"v2"` behind a checksum) and the superblock whose checksum is stored. Bytes 22 and 23
are the upper half of the capacity in version 3, and the queue and index locks since version 4
(where `ef_sb_hash_capacity_load` still reads 32 bits); 24 and 25 are the queue lock, the index
sequence, or the transaction lock and state. `Images` has files of the versions 0 to 5, as the
programs of their time closed them. `h[p]` is the handle of a process: the size of its mapping,
the capacity that places its slots, `readonly`, `sb_meta_dirty`, `txn_active`, and `pc`, the
step it is at.

Opening is `OpenEmpty` (fstat), `Create` (ftruncate), `InitNew` or `CreateFails`; or `Open`,
`GrowOld`/`MapOld` (an older file is lengthened first), `Validate`, `NeedsMigration` (the checks of
the version) and `MigrateV3` or `MigrateV4` (the stores), `Recover`, `Rebuild`; `OpenReadonly`,
`InitMemory` and `OpenMemory` enter the same path. `ef_rebuild_free_list` touches every slot, and
where the handle's capacity puts one outside the mapping `Rebuild` may be the end of the process.
`NeedsUpgrade` has the branches of `ef_needs_upgrade`; the one for files of versions 2, 3 and 5
without checksums is never taken, since those versions have the flag from the start and nothing
clears it (`CapKept` of `EfFileProofs` says so). `Grow` (munmap and ftruncate), `GrowEnds`
(mmap and the superblock), `GrowFails`; `Upgrade`, `UpgradeSlot` for each slot, `UpgradeEnds`.
`Write`, `Begin`, `End`, `Sync` and the index lock stand for the calls that change the superblock
between opens; what they do to the content is in the other modules. A process may die between
any two steps, which releases its mapping and nothing else. With the memory backend the file is
a buffer and the processes are handles of one program, which do not die separately.

`Serial` says that callers make one call at a time, which `THREADING.md:14` asks for in the case
of `ef_sync` and `ef_close`; all the properties need it (section 5). A step of
`EfFile` may be several stores of a call, so with `Serial = FALSE` the module has some of the
interleavings of overlapping calls and not all: what TLC finds there can happen, and nothing is
claimed from what it does not find. `cut`, `torn`, `robbed` and
`stale` are the four ways the code has of leaving a file or a handle that it does not repair;
each property names the ones it excludes.

## 3. Runs

| Run | Instance | Shows |
|---|---|---|
| `FreeList` | 2 threads, 3 slots, 2 tries per loop | the pool is implemented, exactly counted and linked; calls return |
| `Queue` | 2 threads, one of which may die, 4 slots, 3 messages, up to 3 pool errors | first in first out, accounting of slots, emptiness, messages, no waiting |
| `Index` | 2 threads, 5 keys (homes in the middle, at the end and at the start of 4 positions), capacities 1 to 16 asked for, a buffer with room for 4 and a file, 1 reopening | entries stay findable, in full tables too; the count; the map |
| `IndexLost` | 1 thread, 3 keys around the end of the table | **violation** of `KeysKept` |
| `Seqlock` | 1 writer with 3 sections, 1 reader with 2 attempts, capacities 2 and 4, 3 keys in 5 pairs with 3 slots | lookups, the slots returned for them and watched iterations are true, also across rehashes |
| `Blob` | 2 slots growing to 4, blobs of up to 3 pieces | exact pool, readable slots, owned chains, blobs kept, walks |
| `Txn` | 2 slots growing to 3, 1 key, a log of 3 records, 4 calls per file | agreement of flags, lock, state, log; the pool and the queue; abort, recovery, commit |
| `TxnGrow`, `TxnAbort`, `TxnCrash` | few calls of one or two kinds | **violations** of `BeginKeeps`, `AbortUndoes`, `RecoveryRuns` |
| `File` | 2 processes, files of every schema with and without an index, 1 slot growing to 3, or a buffer of 7 units | closed files are accepted, payloads kept, mappings sufficient, transactions exclusive |
| `FileLock` | 1 process, a version 3 file with its queue lock set | **violation** of `PayloadsKept` |

**Bounds.** Two threads give every pairwise interleaving, three slots a list whose middle is
neither head nor end, and an ABA needs no more (with `SchemaVersion = 2` TLC finds it in this
instance). `SpinMax = 2` lets a loop fail, succeed on a retry, and give up. `CountMax = 4` and
`CountMod = 8` leave room above the number of slots, so that a counter that is wrong by one
shows as such, and one that wraps as a number that is too large. Four slots and three messages let the queue be empty, run through the dummy alone,
hold several nodes and exhaust the pool. The keys of `Index` are chosen by their homes: two
collide and run over the end. `Seqlock` needs two sections to mislead a reader, and has three: a
table is filled and rehashed, or rehashed and filled, around a lookup. In `Blob` the longest chain has two overflow slots, so that its middle, its end and a write
that fails after the first one occur; `VisitCache = 2` and `MaxDepth = 3` allow walks longer
than what is remembered. In `Txn` a log of three records fills up with the second allocation;
`MaxCalls` bounds the calls between two new files, and after a begin over a grown database (`"spoiled"`) the handle is only
closed or lost, because what the log then overwrites is not modelled beyond the zeroing. In `File` sizes are
counted in units; one slot that grows to three lets two handles grow in turn, and a buffer of
seven units is filled by an index of two, two slots and the log, so that the growth of a buffer
succeeds and is refused. The passing run has version 3 files with a free lock, and version 4
files with any value of the old sequence and also with the index lock set.

**Deadlock** is checked in every run: there is always a next call, or a reopening.

**Fairness.** `EveryCallReturns` assumes weak fairness of the steps of a thread that is inside
a call, and nothing else: no call is ever assumed to be made, and no lock to be granted. The
scheduler of the operating system justifies that; the waits of the code are bounded spins, so
nothing stronger is needed. `EfQueue` has deaths, and with them a simpler statement, checked as
an invariant: a call inside the queue always has a next step (`NeverWaits`), and has no loop.

## 4. Proofs

`EfFreeListProofs` proves for every finite set of threads, every number of slots, every limit
`SpinMax` and every schema 5 file:

* `FreeListInvariant`: `Spec => []IInv`;
* from it `FreeListTypeOK`, `SlotOwnedOnce`, `FreeListLinked`, `FreeCountExact`,
  `WriteLockExcludes` and, as an action property, `FullIsJustified`;
* `FreeListImplementsPool`: every step is a step of `EfPool` or leaves its variables alone.

The assumptions are those in `EfFreeList` (finitely many threads, at least one slot,
`MaxSlots <= CountMax`, at least one try) and, in the theorems, `SchemaVersion = 5`: without the
lock around pops the theorems are false.

None of the properties is inductive alone. That a pop leaves a proper list depends on what it
read two steps before, so `IInv` adds `PopReads`: the head a pop has read is still listed and
the link it has read is still that slot's link. It holds because pops exclude each other by
the lock, and pushes only write the link of a slot that is not listed, which is `PushReads`: a
slot being freed belongs to its caller until the compare-and-swap. `StatusAgrees` is needed
for reopening, which collects slots by status: the FREE slots at rest are those that are
listed or stranded. `PopReads` also keeps `free_count >= 1` from the check to the decrement,
because in between only pushes change it; hence it never wraps. `CountExact` needs
cardinalities of the sets of calls in progress; `RebuiltList` shows that linking the FREE slots
in ascending order is a list of the right length. The step of each action is a lemma; `NextInv`
puts them together.

### The queue (`EfQueueProofs`)

For every finite set of threads and slots, every number of messages and pool errors, with a
thread that dies inside a call: `QueueInvariant`, and from it `QueueTypes`, `QueueLockTheorem`,
`QueueLinksTheorem`, `QueueKeepsMessages`, `QueueSlotsAccounted`, the action property
`QueueEmptyAnswers`, and `QueueIsFifo`, the refinement of `EfFifo`. The assumptions are those of
`EfQueue` (finitely many threads and slots, none of which is `Null`).

`IInv` adds to the types and the lock what a thread in its critical section has read and what
stays true because the lock keeps the others out (`TailKnown`: the tail a push has loaded is
`queue_tail`; the node a pop is about to unlink is the first one; where the tail has to go), and
what no lock protects: a node not yet linked, a dummy not yet published and a node already
unlinked belong to one call (`SlotHeld`, `DummyHeld`, `FirstHeld`), the dummy stays once
`queue_head` is set (`DummyFixed`), and every slot is somewhere (`Placed`). `Copied` is about the
caller's buffer: it has a message from the copy to the return and is not overwritten. The steps
that touch neither links nor pool share a few frame lemmas; each of the others has one of its own.
The sets of slots in the different places
are disjoint, so their cardinalities add up to `SlotsAccounted`. The refinement maps the abstract
queue to the messages in the nodes behind the dummy.

### The file and its handles (`EfFileProofs`)

For every finite set of processes, every number of slots, capacity and size of a buffer:

* when callers make one call at a time (`Serial`), with processes that die anywhere: `FileLocks`
  and `TxnLockTheorem` (`TxnExcludes`);
* when in addition no version 3 file was left with its queue lock set (`Locks3 \subseteq {0}`):
  `FileInvariant`, `MappingTheorem`, `PayloadTheorem`, `AcceptedTheorem`.

Both hypotheses are needed: TLC has counterexamples without either (run `FileLock`, and the results with
`Serial = FALSE` in section 5). The assumptions on capacities are what
`ef_hash_capacity_valid` and the size of a buffer in `ef_open_memory_hash` require.

`LockInv` has the types, that a process in a transaction has the lock byte unless it was robbed of
it, and that one process creates the file. It is kept only together with `SerialInv`: one process at
a time is inside a call, and what a call has checked (that the file is empty, that its version is 3
or 4) is still so when it makes the stores that depend on it (`CheckHolds`). `CallInv` says what each step relies on: one process is
inside a call; the capacity in the file is the one it was created with, in the bytes its version
keeps it in (`CapKept`, which is where the queue lock of version 3 gets in the way); what a handle
knows at each step of a call, and how far its mapping reaches (`Handles`); the size of the file,
which a call may be changing (`Sizes`); where payloads are, during an upgrade some here, some there
(`Written`); and that the stored checksum is that of the superblock or a handle will store one
(`Summed`). A death is a step like any other; it sets `cut` where it leaves something half done.

### Transactions (`EfTxnProofs`)

For every number of slots, keys, records and calls: `TxnInvariant` and `TxnAgreesTheorem`,
`MetaInvariant` and `DirtyTrackedTheorem`.

`TxnInv` says at every step of begin, commit, abort, death and recovery what the flag of the
handle, the lock, the state and the log are (`FlagSet`, `Owned`, `Cleared`). It is not inductive
without `SumSettled`: an open accepts a file by the checksum that is stored, and goes on with the
state that is in the file, so one has to know that a checksum is never stored in the middle of an
abort. `MetaInv` says that the stored checksum is that of the superblock or the dirty flag is set.
The work is in the calls: for each operator of `EfSlots` a lemma says that it changes no field of
the superblock without a mark, and leaves a database and undo records of the right shape. The
calls that write or release chains are loops, of which induction shows what each turn keeps.

### The index (`EfTableProofs`, `EfIndexProofs`)

For every set of threads, keys and slots, every minimum and limit of the capacity, both backends,
any capacities asked for and any number of reopenings: `EntriesAreFound` (`EveryEntryFound`),
`CountIsExact` (`CountExact`) and `IndexIsMap` (`ImplementsMap`, the refinement of `EfMap`). The
assumptions are those of `EfIndex`: hashes are positive, 0 is no slot (`IndexKeys`), and the
smallest capacity is positive and no larger than the limit (`IndexSizes`).

That a lookup arrives at every entry is not inductive: it says nothing of the order in which
entries stand, on which displacement and back shift rely. `Sound` does. It has `Ordered` (an
entry that is not at home has an entry in front of it, around the end of the table too, that is
at most one nearer to its home) and `Distinct` (no key twice). `SoundFinds` takes the lookup
from it. *A put* walks with an entry in hand (`PutLoop`): as long as that is the new one, nothing
has changed, and if its key is in the table, it is still ahead; once it is a displaced one, the
key was new, and table and hand have every entry between them. All along the table is `Sound`,
and the entry in hand is not ahead of the one it has just passed. This holds whatever the bound of
the loop, so a put that gives up leaves a `Sound` table too, one entry short. *A back shift*
moves entries up to the first that is at home or up to a gap, each of them one nearer to its home.
In a full table without an entry at home the gap goes round, and an entry comes one nearer to its
home each time the gap comes to it: an entry `d` positions away stops it in lap `d + 1` at the
latest. `Left` bounds the turns made and those still to come by `(c - 1)^2`, where `c` is the
capacity, whence `RemovalEnds`.
*A refill* starts from an empty table and puts. `IndexInv` is `Sound`, the arguments of the
threads that wait, and `CountExact`, which needs that a put adds one entry exactly when it says so
and a back shift takes one. For the refinement it is enough to know the entries that each section
leaves: no more than one comes, none goes but the one removed, unless a new key is put into a full
table.

### Readers and writers of the index (`EfSeqlockProofs`)

For every set of writers and readers, keys, slots and capacities with a largest one, and every
number of sections and attempts, when the threads share one handle (`OneHandle`; with a handle
for each thread TLC has a counterexample, because `index_seq` is a field of the handle):
`SeqInvariant`, and from it `LookupTheorem`, `GetTheorem` and `IterTheorem`; and, with
`EfTableProofs`, `SectionsTheorem` (`SectionsWhole`).

`SeqInv` is about both sides. *Writers:* the lock admits one thread to a section (`Held`);
`index_seq` is odd exactly while that thread stores (`Parity`); and the stores that are left,
whatever is in the words now, end in a table whose entries refer to slots with the record of
their key (`Plans`). A plan either stays in the layout and has only stores of such entries, every
other position of the table holding one already, or it changes the layout, and then stores to
every position after that. *Readers:* as long as `index_seq` is the even number it loaded, what a
reader has in its locals is from the table of the last section: the capacity, the positions it
passed without finding its key, the half of an entry or the entry it has loaded (`Views`). Once
`index_seq` has moved on it never comes back, and nothing need be known.
That the stores of a put and of a rehash make such a plan is again induction over their turns,
where a put hands displaced entries on and a rehash adjusts the offsets to the new layout.

`SectionsWhole` needs more, since half stored entries must add up to a Robin Hood table. `WholeInv`
says that the stores a writer has left, applied to the words that are there, make a `Sound` table
of some capacity, and that without a writer the table is one (TLC checked it on the run first). A
store that is made takes itself off the list and changes one word to what the rest of the list
expects; at the start of a section the list is that of an algorithm of `EfHashTable`, and makes
the table that `EfTableProofs` is about.

### Slots and blobs (`EfBlobProofs`)

For every number of slots, capacity of head and overflow slot, and length of a blob:

* `PoolTheorem` (`PoolExact`) and `ReadableTheorem` (`SlotsReadable`), when the buffer has room for
  fewer than `CountMod` slots: `free_count` has 32 bits and `max_slots` 64 (`endfields.h:67`,
  `:71`), and a pool of `CountMod` FREE slots has a count of 0;
* `OwnedTheorem` (`ChainsOwned`) and `KeptTheorem` (`BlobKept`), when in addition no caller frees
  a slot that another one links to (`StaleLinks = FALSE`): otherwise the link may come to lead
  into the chain of a blob, and TLC has a counterexample;
* `ChaseTheorem` (`ChaseAgrees`), without a hypothesis.

`PoolExact` walks the free list, and what a walk meets is not inductive. `Good` has an explicit
sequence of slots: it begins at the head, each slot links to the next, the last to 0, it has no
slot twice, its slots are the FREE ones, and its length is the counter. A pop takes its first
element, a push and a growth add one in front, a claim takes one out of the middle, a rebuilding
makes a new one. `Good` also has the shape of a database and that every slot has its sum, but for
the slots that a call has still to stamp, which are a parameter: the calls store first and stamp
later, and a lemma about one part of a call needs to say so.

The chains need an owner. `BlobInv` says that there is a function `own` from overflow slots to
slots in use such that the links from each slot in use lead through the overflow slots it owns,
each once, and end there, or lead to no overflow slot (`Chained`), and that the pieces along them
are the blob last written (`Holds`). It is an existential statement because nothing in the
database says whose an overflow slot is; each step gives the function for the next state. It was
checked by TLC on the run first. Releasing and writing a chain are loops, during which slot `s` is
an exception: `Rest` is the invariant of all but `s`, and what of the chain of `s` is released or
written already is counted by the turns. A write that fails half way releases what it wrote, with
the same lemma. `ef_read_blob` is a loop that has, after each turn, the pieces of the chain so far.

`ChaseAgrees` holds of any links, so of every state, and its proof is about the two walks: the
slots that `ef_chase_n` remembers are the first `VisitCache` ones of the path of single hops, those
are distinct from what it has met since, and after every turn it is on its way, at the end of the
links, back at a slot it remembers, or at a slot that is not in use (`Stands`). A walk that came
to the end cannot have passed a cycle, because what follows a slot depends on that slot only.

### Induction

The induction theorems of the library take an operator as a parameter, which these provers cannot
instantiate. The form that is about sets follows from the fact that `<` on the natural numbers is
well founded: `LeastNat`, `SetInduction` and `BoundedInduction` stand, with their proofs, at the top
of `EfTableProofs`, `EfTxnProofs` and `EfBlobProofs`. A loop written as a
recursive function on `0..n` is then what its turns say (`PutExists`, `RefillExists`, `WalkExists`,
`HopsExist` and the like show that there is such a function), and what each turn keeps, the loop
keeps.

### Only model-checked

* `EveryCallReturns` (liveness) and `NeverWaits` (it speaks of `ENABLED`): out of the prover's
  reach.
* `PoolSound`, `QueueKept`, `AbortRestores`, `RecoverRestores` and `CommitKept` of `EfTxn`: they
  need, beyond what `EfBlobProofs` has of the pool, what the records of a transaction, replayed in
  reverse, make of every state in it.
* The five runs that end in a violation.

## 5. What the code does that its documents do not say

Kept as runs, with the quotations in `PROJECT.json`:

* `IndexLost`: a put around the end of the table can drop another key with
  `EF_ERR_INDEX_FULL` at any load (`ef_index.c:264`).
* `TxnGrow`: `ef_txn_begin` after `ef_grow` zeroes the new slots (`ef_grow.c:244`,
  `ef_undo.c:77`).
* `TxnAbort`: the abort of one push loses every message that was in the queue before the
  transaction (`ef_queue.c:409`). With `Ops = {"alloc", "free"}` the abort of a free leaves the
  free list beginning with a slot in use (`ef_undo.c:222`); the abort of the first push frees
  the dummy that `queue_head` keeps pointing to, and that of a pop takes half of the saved tail
  from the record behind it (`ef_undo.c:339`).
* `TxnCrash`: after a death in a transaction that was not synced the file cannot be opened
  (`endfields.c:564`).
* `FileLock`: opening a version 3 file whose queue lock was left set gives a handle with a
  capacity that is 65536 too large (`endfields.c:726`). `ef_rebuild_free_list` then looks for the
  slots behind the end of the mapping; where that memory can be touched, the open returns `EF_OK`.

Found with these modules, with other constants or without a condition of a property, and not
kept as runs:

* with `SchemaVersion = 2`, `OwnedOnce` fails: such a file is opened for writing without being
  migrated, and pops take no lock (`endfields.c:1695`);
* once the pool has failed, `NothingLost` does not hold: a pop that cannot return its node reports
  BUSY after it has taken the message (`ef_queue.c:234`); and a push that fails discards the error
  of giving its slot back, which then is QUEUED in no list (`ef_queue.c:284`);
* a process that dies between the two stores that publish the dummy leaves a queue to which
  nobody can push again (`ef_queue.c:76`), and one that dies with a lock leaves it set for every
  later open;
* a push between the two stores that publish the dummy fails with `EF_ERR_OFFSET`
  (`ef_queue.c:138`); `ImplementsFifo` shows that nothing worse happens;
* with reopenings, `hash_entry_count` is 0 in the new handle: the table can fill up completely
  (`ef_index.c:427`). A put of a new key into it may return `EF_OK` and
  drop another key, because the loop meets the key it is putting once more after it has
  displaced an entry (`ef_index.c:264-292`). For the same reason `ef_index_shrink` of a buffer to
  fewer positions than there are entries, which only a count of 0 lets through
  (`ef_index.c:816`), may return `EF_OK` with keys missing and `hash_entry_count` set to what
  there was before (`:908`): keys 1, 2, 3, 11, 4 moved to capacity 4 are an example, out of the
  bounds of the run. Hence `ImplementsMap` leaves out new keys put into a full table and moves to
  tables without room for every entry, and `CountExact` is about counts that were counted.
  Lookups and removals work in full tables as in others;
* a table can also fill up through one handle. A put that has grown the table does not look at
  the load again (`ef_index.c:440`), so enough threads at that point fill it up between them: with
  key 4 in a table of capacity 2 and 5, 6, 7, 8 in the hands of four threads that have all grown
  it to 4, the last insert fails (from the 16 positions the program starts with it takes 21
  threads). And a shrink that fails, as in run `IndexLost`, takes its count from the positions of
  the old table (`ef_index.c:890`), and may count too few: in a buffer, keys 15, 31, 8, 10, 11 put
  at capacity 16 and moved to 8 leave four entries and a count of 1; then 7, 9, 8, 14, 16 fill the
  table without its growing, with one thread;
* `ef_index_clear` shrinks the table although `docs/API_GUIDE.md` says that the capacity stays
  (`ef_index.c:955`), and a table at its largest capacity reports `EF_ERR_GROW` rather than
  `EF_ERR_INDEX_FULL` (`ef_index.c:1036`);
* with a handle for each thread, `LookupTrue` fails: `index_seq` is not in the mapping
  (`ef_sb_layout.c:295`);
* without the condition on `index_seq`, `GetTrue` fails: a rehash between the check of `index_seq`
  and the use of `slots_base` makes `ef_index_get` return another slot with `EF_OK`
  (`ef_index.c:479`), although `THREADING.md:55` says that readers retry while a rehash holds the
  lock; `ef_index_get_slot` copies its payload even later (`ef_index.c:525`);
* without the condition on the capacity, `IterTrue` fails: `ef_index_iterate_until` loads the
  capacity before `index_seq` (`ef_index.c:1152`), and after a shrink in between passes the bytes
  of slots to its callback, after a growth misses entries and returns `EF_OK`. Its callback
  declares a `slot_id` (`ef_index.h:50`) and is given an offset (`ef_index.c:1174`);
* with `StaleLinks = TRUE`, `ChainsOwned` fails: a link to a slot that has been freed and reused
  as an overflow slot is taken for a chain (`ef_blob.c:47`);
* aborting the allocation of the last free slot leaves `free_count` at 0 (`ef_undo.c:348`);
* with `Serial = FALSE`, `Accepted` fails (an open during a call that has the index lock and
  changes nothing stores a checksum that includes the lock), `PayloadsKept` fails (two growths at
  the same time append the same slot), and `MappingCovers` fails (an open that lengthens an old
  file shortens one that has been grown meanwhile), and `TxnExcludes` fails (two processes that
  create a file at the same time both initialise it, the second over the transaction of the
  first, `ef_port.c:182`; the check of the version before a migration has the same gap,
  `endfields.c:729`), although `docs/API_GUIDE.md:656-657` says that the lock byte serialises
  transactions across processes;
* an open while a synced transaction is in progress replays it and releases its lock
  (`ef_txn.c:117`): `docs/API_GUIDE.md:656-664` and `THREADING.md:196` speak of the writer's pid,
  which is in the handle and is compared with nothing;
* version 2 files and version 3 files without an index are opened for writing and not migrated
  (`endfields.c:720`), although `README.md:151` and `docs/API_GUIDE.md:147` say that every older
  schema is; ef_txn_begin refuses them;
* a version 4 file with its queue or index lock set is lengthened by the megabyte its capacity
  then seems to need, and refused (`endfields.c:899`, `:514`);
* a handle whose file another one has grown takes slots for valid that lie behind the end of its
  mapping (`endfields.c:1260` compares with `max_slots` of the file; offsets are compared with the mapping);
* a failing `mmap` in `ef_grow`, or a death there, leaves a file of a size the next open refuses;
  the handle that called keeps pointing to the old mapping, so that its `ef_close` stores a
  checksum to memory that is not mapped (`ef_grow.c:232`). At the creation of a file the same
  leaves a file of zeroes, which is refused for its magic (`ef_port.c:193`);
* a death inside `ef_upgrade` leaves a version 1 file some of whose payloads have moved; the next
  `ef_upgrade` moves them again (`ef_grow.c:102`). Of 52 bytes of a version 1 payload the last 4
  are dropped;
* a migration stores the new version before the new checksum: a death in between leaves a file
  that is refused (`ef_sb_layout.c:179`).

## 6. Not modelled

* Threads that share a handle in a transaction; the undo log when the file has several handles.
* Addresses: pointers held across the remapping of a file or the move of the slots by a rehash
  (`ef_blob.c:93`, `:310`). Slots are numbers in these modules.
* Calls of several processes that overlap, beyond the results above; in particular the relinking
  of a slot by an open between its pop and its change of status.
* The loss of power: a store made before a death is in the file.
* `ef_execute`, which passes opcodes on to the calls modelled here and keeps nothing; readers
  while a rehash of a file unmaps the memory they read; the arithmetic of the
  CRCs and their vector forms; compiler intrinsics; builds without atomics, and memory orders
  weaker than program order per access; the test and benchmark programs.
* Corrupt files, other than those the program itself can leave.

## 7. Plan

In this order; the first entries are done.

1. Free list: module, abstract pool, runs, proofs. *Done.*
2. Queue, index, seqlock, blobs, transactions of one process. *Done.*
3. Queue and blob calls in transactions. *Done.*
4. Several handles on one file: the transaction lock between processes, a second open, locks left
   behind by a death; migrations, growth with its system calls, `ef_upgrade`. *Done.*
5. Proofs: the free list, the queue, the file and its handles, `TxnAgrees` and `DirtyTracked` of
   `EfTxn`, the readers and the sections of `EfSeqlock`, the index, slots and blobs. *Done.* Next:
   `PoolSound` and `QueueKept` of `EfTxn`, with the lemmas of `EfBlobProofs` about calls moved to a
   module on `EfSlots` that both can use; then what abort and recovery restore.
6. Rehash under readers, in a buffer; the iterators over slots. *Done.* Next: the same in a file,
   where the mapping moves.
