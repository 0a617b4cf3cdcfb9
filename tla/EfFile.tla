------------------------------- MODULE EfFile -------------------------------
(***************************************************************************)
(* The file and the handles on it: creation, the formats of earlier        *)
(* versions and their migration, opening for writing and for reading,      *)
(* growth, upgrade, the stored checksum and the transaction lock, for      *)
(* several processes that map the same path (src/src/endfields.c,          *)
(* ef_port.c, ef_sb_layout.c, ef_grow.c).  System calls may fail, and a    *)
(* process may die between any two steps.  With the memory backend the     *)
(* file is a buffer and the processes are handles of one program.          *)
(*                                                                         *)
(* Addresses are counted in units: the superblock, an entry of the index   *)
(* and a slot are one unit each, the undo log is LogUnits.  What is in the *)
(* free list, the index and the log is left to the other modules.          *)
(***************************************************************************)
EXTENDS Integers, FiniteSets

CONSTANTS
  Procs,      \* processes, with one handle each
  Serial,     \* whether callers make one call at a time, as THREADING.md:14
              \* asks of ef_sync and ef_close; if not, the steps below
              \* interleave, each of which may be several stores
  Backends,   \* a subset of {"file", "memory"}
  InitSlots,  \* the slots of a file when it is created
  MaxSlots,   \* bound: a database is not grown further
  Caps,       \* the hash capacities it is created with, 0 without an index
  Locks3,     \* what the queue lock of a version 3 file may be left at, of {0, 1}
  LogUnits,   \* the undo log, EF_UNDO_LOG_DEFAULT_SLOTS records and a header
  Capacity    \* the size of the buffer of a memory backend

(* The file size that goes with a layout (ef_expected_file_size).          *)
ExpectedSize(slots, cap, undo) == 1 + cap + slots + undo

ASSUME FileAssumption ==
  /\ Serial \in BOOLEAN /\ Backends \subseteq {"file", "memory"}
  /\ InitSlots \in Nat \ {0} /\ MaxSlots \in Nat /\ InitSlots <= MaxSlots
  /\ LogUnits \in Nat \ {0} /\ Locks3 \subseteq {0, 1} /\ Capacity \in Nat

(* A capacity has 16 bits (ef_hash_capacity_valid); a buffer covers the    *)
(* layout of schema 5, as endfields.c:773 demands.                         *)
ASSUME FileCapacities ==
  /\ Caps # {}
  /\ \A c \in Caps : c \in Nat /\ c < 65536
  /\ \A c \in Caps : ExpectedSize(InitSlots, c, LogUnits) <= Capacity

VARIABLES
  backend,    \* db->backend, of every handle
  file,       \* the bytes of the file, see Image
  h,          \* the handles, see NoHandle
  \* auxiliary
  wrote,      \* slots with a payload that a caller has written
  born,       \* the hash capacity of the database
  cut,        \* a death or a failed system call has cut a change of the file short
  torn,       \* and it was ef_upgrade
  robbed      \* an open has taken the transaction of a live process for a stale one

auxVars == <<wrote, born, cut, torn, robbed>>
vars == <<backend, file, h, auxVars>>

-----------------------------------------------------------------------------
(* The file.                                                               *)

LEGACY == 1
V2 == 2
V3 == 3
V4 == 4
V5 == 5        \* EF_SCHEMA_VERSION
ACTIVE == 1    \* EF_TXN_STATE_ACTIVE
Big == 65536   \* what the bytes 22 and 23 add to a capacity of 32 bits

(* Where ef_slot_payload_ptr finds the payload of a slot: the slots of the *)
(* first schema have no checksum in front of it.                           *)
Place(version) == IF version <= LEGACY THEN "legacy" ELSE "v2"

(* What the checksum covers, with the slots in use for the free list.      *)
Superblock(f) ==
  [version |-> f.version, crc |-> f.crc, slots |-> f.slots, cap |-> f.cap, b22 |-> f.b22,
   b23 |-> f.b23, b24 |-> f.b24, b25 |-> f.b25, used |-> {s \in 1..MaxSlots : f.slot[s] # "none"}]

(* ef_sb_checksum_store.                                                   *)
Stored(f) == [f EXCEPT !.sum = IF f.crc THEN Superblock(f) ELSE {}]

Zeroes(size) ==
  [size |-> size, magic |-> FALSE, version |-> 0, crc |-> FALSE, slots |-> 0, cap |-> 0,
   b22 |-> 0,   \* queue lock since version 4; upper half of the capacity before
   b23 |-> 0,   \* index write lock since version 4; upper half of the capacity before
   b24 |-> 0,   \* transaction lock; index sequence in version 4, queue lock before
   b25 |-> 0,   \* transaction state; index sequence in version 4
   slot |-> [s \in 1..MaxSlots |-> "none"], sum |-> {}]

(* ef_init_superblock, ef_init_hash_region, ef_init_slots and              *)
(* ef_build_free_list.                                                     *)
NewFile(size, cap) ==
  Stored([Zeroes(size) EXCEPT !.magic = TRUE, !.version = V5, !.crc = TRUE,
                              !.slots = InitSlots, !.cap = cap])

(* ef_sb_hash_capacity_load and ef_hash_capacity_from_sb: 16 bits in       *)
(* version 5, 32 bits in versions 3 and 4.                                 *)
CapOf(f) ==
  CASE f.version >= V5 -> f.cap
    [] f.version \in {V3, V4} -> f.cap + (IF f.b22 # 0 \/ f.b23 # 0 THEN Big ELSE 0)
    [] OTHER -> 0

(* The size of the layout of schema 5 for this superblock.                 *)
V5Size(f) == ExpectedSize(f.slots, CapOf(f), LogUnits)

(* What the superblock alone says the size is: only schema 5 has the log.  *)
OwnSize(f) == ExpectedSize(f.slots, CapOf(f), IF f.version = V5 THEN LogUnits ELSE 0)

(* ef_validate_superblock; the sizes of older schemas may be larger.       *)
Valid(f, size) ==
  /\ f.magic
  /\ CapOf(f) < Big
  /\ IF f.version = V5 THEN size = OwnSize(f) ELSE size >= OwnSize(f)
  /\ f.crc => f.sum = Superblock(f)

(* Mutant: the capacity is read after the eight bytes have been zeroed.    *)
MigratedV3NoCap(f) == [f EXCEPT !.cap = 0, !.b22 = IF f.b24 # 0 THEN 1 ELSE 0, !.b23 = 0,
                                !.b24 = 0, !.b25 = 0, !.version = V4]

(* ef_sb_migrate_v3_index_layout: the queue lock moves from 24 to 22.      *)
MigratedV3(f) == [f EXCEPT !.b22 = IF f.b24 # 0 THEN 1 ELSE 0, !.b23 = 0, !.b24 = 0, !.b25 = 0,
                           !.version = V4]

(* ef_sb_migrate_v4_txn_layout.                                            *)
MigratedV4(f) == [f EXCEPT !.b24 = 0, !.b25 = 0, !.version = V5]

(* Files of every schema, closed by the program that made them.  Version 4 *)
(* kept a counter where version 5 has the lock and the state.  A process   *)
(* of version 3 may have died with the queue lock, one of version 4 with   *)
(* the index lock.                                                         *)
Image(version, cap, used, b23, b24, b25) ==
  LET f == [Zeroes(ExpectedSize(InitSlots, cap, IF version = V5 THEN LogUnits ELSE 0))
              EXCEPT !.magic = TRUE, !.version = version, !.crc = version >= V2,
                     !.slots = InitSlots, !.cap = cap, !.b23 = b23, !.b24 = b24, !.b25 = b25,
                     !.slot = [s \in 1..MaxSlots |-> IF s \in used THEN Place(version) ELSE "none"]]
  IN Stored(f)

Images ==
  {Zeroes(0)}
    \cup {Image(v, 0, used, 0, 0, 0) : v \in 0..V2, used \in SUBSET (1..InitSlots)}
    \cup {Image(V3, cap, {1}, 0, lock, 0) : cap \in Caps, lock \in Locks3}
    \cup {Image(V4, cap, {1}, 0, low, high) : cap \in Caps, low \in {0, 2}, high \in 0..1}
    \cup {Image(V4, cap, {1}, 1, 0, 0) : cap \in Caps}
    \cup {Image(V5, cap, {1}, 0, 0, 0) : cap \in Caps}

-----------------------------------------------------------------------------
(* The handles.                                                            *)

NoHandle ==
  [pc |-> "closed",   \* the step that comes next
   map |-> 0,         \* db->file_size, the size of the mapping
   cap |-> 0,         \* db->hash_capacity, which places the slots; before the
                      \* first mapping of a new file what the caller asks for
   ro |-> FALSE,      \* db->readonly
   dirty |-> FALSE,   \* db->sb_meta_dirty
   active |-> FALSE,  \* db->txn_active
   max |-> 0,         \* old_max of ef_grow
   stale |-> FALSE]   \* auxiliary: another handle has grown the file since it was mapped

Init ==
  /\ backend \in Backends
  /\ \E f \in Images :
       /\ file = IF backend = "file" THEN f ELSE [f EXCEPT !.size = Capacity]
       /\ wrote = {s \in 1..MaxSlots : f.slot[s] # "none"}
       /\ born = f.cap
       /\ cut = (f.b23 # 0)
  /\ h = [p \in Procs |-> NoHandle]
  /\ torn = FALSE /\ robbed = FALSE

(* No other process is inside a call.                                      *)
Quiet(p) == Serial => \A q \in Procs \ {p} : h[q].pc \in {"closed", "open", "lost"}

At(p, label) == h[p].pc = label

Step(p, handle) == h' = [h EXCEPT ![p] = handle]

Goto(p, label) == Step(p, [h[p] EXCEPT !.pc = label])

(* A call returns with an error: the mapping and the handle are released.  *)
Refuse(p) == Step(p, NoHandle)

(* ef_db_bind_io and ef_db_bind_slots_layout.                              *)
Bound(p, size, label) == [h[p] EXCEPT !.map = size, !.cap = CapOf(file), !.pc = label]

(* ef_db_mark_meta_dirty.                                                  *)
Marked(hd, f) == [hd EXCEPT !.dirty = hd.dirty \/ f.crc]

(* ef_db_commit_meta.                                                      *)
Committed(p) == IF h[p].dirty THEN Stored(file) ELSE file

-----------------------------------------------------------------------------
(* Opening.                                                                *)

(* The size of the file that the caller asks for (ef_open_ex_hash).        *)
NewSize(p) == ExpectedSize(InitSlots, h[p].cap, LogUnits)

(* ef_port_open_file: fstat finds the file empty, which is all that        *)
(* decides whether it is new.                                              *)
OpenEmpty(p) ==
  /\ backend = "file" /\ At(p, "closed") /\ Quiet(p) /\ file.size = 0
  /\ \E c \in Caps : Step(p, [h[p] EXCEPT !.cap = c, !.pc = "new"])
  /\ UNCHANGED <<backend, file, auxVars>>

(* ftruncate.                                                              *)
Create(p) ==
  /\ At(p, "new")
  /\ file' = [file EXCEPT !.size = NewSize(p)]
  /\ Goto(p, "created")
  /\ UNCHANGED <<backend, auxVars>>

(* mmap, and ef_db_init_mapped of a new file, whatever is in it by now.    *)
InitNew(p) ==
  /\ At(p, "created")
  /\ file' = NewFile(file.size, h[p].cap)
  /\ born' = h[p].cap
  /\ Step(p, [h[p] EXCEPT !.map = NewSize(p), !.pc = "open"])
  /\ UNCHANGED <<backend, wrote, cut, torn, robbed>>

(* ftruncate fails, or mmap: then the file is as long as a database and    *)
(* empty, and every later open refuses it for its magic.                   *)
CreateFails(p) ==
  /\ h[p].pc \in {"new", "created"}
  /\ cut' = (cut \/ At(p, "created"))
  /\ Refuse(p)
  /\ UNCHANGED <<backend, file, wrote, born, torn, robbed>>

(* ef_open_ex_hash of an existing file, up to ef_db_bind_io.               *)
Open(p) ==
  /\ backend = "file" /\ At(p, "closed") /\ Quiet(p) /\ file.size > 0
  /\ Step(p, Bound(p, file.size, "mapped"))
  /\ UNCHANGED <<backend, file, auxVars>>

(* The file of an older schema is lengthened (ef_port_grow_file).          *)
GrowOld(p) ==
  /\ At(p, "mapped") /\ file.version < V5 /\ h[p].map < V5Size(file)
  /\ file' = [file EXCEPT !.size = V5Size(file)]
  /\ Goto(p, "lengthened")
  /\ UNCHANGED <<backend, auxVars>>

MapOld(p) ==
  /\ At(p, "lengthened")
  /\ Step(p, Bound(p, file.size, "init"))
  /\ UNCHANGED <<backend, file, auxVars>>

(* ftruncate fails, or mmap afterwards.                                    *)
GrowOldFails(p) ==
  /\ h[p].pc \in {"mapped", "lengthened"} /\ file.version < V5
  /\ At(p, "mapped") => h[p].map < V5Size(file)
  /\ Refuse(p)
  /\ UNCHANGED <<backend, file, auxVars>>

LongEnough(p) ==
  /\ At(p, "mapped") /\ (file.version < V5 => h[p].map >= V5Size(file))
  /\ Goto(p, "init")
  /\ UNCHANGED <<backend, file, auxVars>>

(* ef_open_readonly_ex; nothing is lengthened.                             *)
OpenReadonly(p) ==
  /\ backend = "file" /\ At(p, "closed") /\ Quiet(p) /\ file.size > 0
  /\ Step(p, [Bound(p, file.size, "init") EXCEPT !.ro = TRUE])
  /\ UNCHANGED <<backend, file, auxVars>>

(* ef_open_memory_hash with init_new.                                      *)
InitMemory(p) ==
  /\ backend = "memory" /\ At(p, "closed") /\ Quiet(p) /\ ~file.magic
  /\ \E c \in Caps : /\ file' = NewFile(Capacity, c)
                     /\ born' = c
                     /\ Step(p, [h[p] EXCEPT !.map = ExpectedSize(InitSlots, c, LogUnits),
                                             !.cap = c, !.pc = "open"])
  /\ UNCHANGED <<backend, wrote, cut, torn, robbed>>

(* And without: the size is the one the superblock says.                   *)
OpenMemory(p) ==
  /\ backend = "memory" /\ At(p, "closed") /\ Quiet(p) /\ file.magic
  /\ IF OwnSize(file) > Capacity THEN Refuse(p) ELSE Step(p, Bound(p, OwnSize(file), "init"))
  /\ UNCHANGED <<backend, file, auxVars>>

(* ef_db_init_mapped of an existing database.                              *)
Validate(p) ==
  /\ At(p, "init")
  /\ IF ~Valid(file, h[p].map) THEN Refuse(p)
     ELSE Step(p, [Bound(p, h[p].map, IF h[p].ro THEN "open" ELSE "migrate") EXCEPT !.ro = h[p].ro])
  /\ UNCHANGED <<backend, file, auxVars>>

(* A version 3 file without an index is not migrated.                      *)
NeedsV3(f) == f.version = V3 /\ CapOf(f) > 0

(* The checks of the version, in ef_db_init_mapped and again in the        *)
(* functions it calls.                                                     *)
NeedsMigration(p) ==
  /\ At(p, "migrate") /\ (file.version = V4 \/ NeedsV3(file))
  /\ Goto(p, IF file.version = V4 THEN "v4" ELSE "v3")
  /\ UNCHANGED <<backend, file, auxVars>>

(* Their stores, whatever the version is by now, and the layout anew.      *)
MigrateV3(p) ==
  /\ At(p, "v3")
  /\ file' = MigratedV3(file)
  /\ Step(p, Marked([h[p] EXCEPT !.cap = CapOf(MigratedV3(file)), !.pc = "migrate"], file))
  /\ UNCHANGED <<backend, auxVars>>

MigrateV4(p) ==
  /\ At(p, "v4")
  /\ file' = MigratedV4(file)
  /\ Step(p, Marked([h[p] EXCEPT !.pc = "migrate"], file))
  /\ UNCHANGED <<backend, auxVars>>

(* ef_txn_recover_from_stale_lock; whose transaction it is is not looked   *)
(* at.                                                                     *)
Recover(p) ==
  /\ At(p, "migrate") /\ ~NeedsV3(file) /\ file.version # V4
  /\ IF file.version >= V5 /\ file.b25 = ACTIVE
     THEN /\ file' = [file EXCEPT !.b24 = 0, !.b25 = 0]
          /\ robbed' = (robbed \/ \E q \in Procs : h[q].active)
          /\ Step(p, Marked([h[p] EXCEPT !.pc = "rebuild"], file))
     ELSE Goto(p, "rebuild") /\ UNCHANGED <<file, robbed>>
  /\ UNCHANGED <<backend, wrote, born, cut, torn>>

(* ef_upgrade_superblock and the checksums.                                *)
Refreshed(f) ==
  Stored([f EXCEPT !.version = IF @ = 0 THEN LEGACY ELSE @,
                   !.crc = IF f.version = 0 THEN FALSE ELSE @])

(* Where the memory that a handle may touch ends.                          *)
MemoryEnd(p) == IF backend = "file" THEN h[p].map ELSE Capacity

(* ef_rebuild_free_list and the check of the size.  With the memory        *)
(* backend the size is raised.  The loop touches every slot, from the last *)
(* one on; where there is none the process may die of it, with the head    *)
(* of the list cleared.                                                    *)
Rebuild(p) ==
  /\ At(p, "rebuild")
  /\ \E faults \in IF 1 + h[p].cap + file.slots <= MemoryEnd(p) THEN {FALSE} ELSE BOOLEAN :
       IF faults THEN UNCHANGED file /\ cut' = TRUE /\ Refuse(p)
       ELSE /\ file' = Refreshed(file) /\ UNCHANGED cut
            /\ IF h[p].map >= V5Size(file) THEN Goto(p, "open")
               ELSE IF backend = "file" THEN Refuse(p)
               ELSE Step(p, [h[p] EXCEPT !.map = V5Size(file), !.pc = "open"])
  /\ UNCHANGED <<backend, wrote, born, torn, robbed>>

-----------------------------------------------------------------------------
(* Calls on an open handle.                                                *)

Writes(p) == At(p, "open") /\ ~h[p].ro /\ Quiet(p)

(* The address of a slot through the handle.                               *)
InMapping(p, s) == 1 + h[p].cap + s <= h[p].map

(* A slot is allocated and its payload written.                            *)
Write(p, s) ==
  /\ Writes(p) /\ s <= file.slots /\ InMapping(p, s) /\ file.slot[s] = "none"
  /\ file' = [file EXCEPT !.slot[s] = Place(file.version)]
  /\ wrote' = wrote \cup {s}
  /\ Step(p, Marked(h[p], file))
  /\ UNCHANGED <<backend, born, cut, torn, robbed>>

(* A call that changes the index takes its lock byte.                      *)
IndexEnter(p) ==
  /\ Writes(p) /\ file.version >= V5 /\ h[p].cap > 0 /\ file.b23 = 0
  /\ file' = [file EXCEPT !.b23 = 1]
  /\ Goto(p, "index")
  /\ UNCHANGED <<backend, auxVars>>

(* It may have changed nothing.                                            *)
IndexLeave(p) ==
  /\ At(p, "index")
  /\ file' = [file EXCEPT !.b23 = 0]
  /\ \/ Step(p, Marked([h[p] EXCEPT !.pc = "open"], file))
     \/ Goto(p, "open")
  /\ UNCHANGED <<backend, auxVars>>

(* Mutant: the lock byte is set without looking at it.                     *)
BeginUnlocked(p) ==
  /\ Writes(p) /\ file.version >= V5 /\ ~h[p].active
  /\ file' = [file EXCEPT !.b24 = 1, !.b25 = ACTIVE]
  /\ Step(p, Marked([h[p] EXCEPT !.active = TRUE], file))
  /\ UNCHANGED <<backend, auxVars>>

(* ef_txn_begin; EfTxn has its steps.                                      *)
Begin(p) ==
  /\ Writes(p) /\ file.version >= V5 /\ ~h[p].active /\ file.b24 = 0
  /\ file' = [file EXCEPT !.b24 = 1, !.b25 = ACTIVE]
  /\ Step(p, Marked([h[p] EXCEPT !.active = TRUE], file))
  /\ UNCHANGED <<backend, auxVars>>

(* ef_txn_commit and ef_txn_abort.                                         *)
End(p) ==
  /\ Writes(p) /\ h[p].active
  /\ file' = [file EXCEPT !.b24 = 0, !.b25 = 0]
  /\ Step(p, Marked([h[p] EXCEPT !.active = FALSE], file))
  /\ UNCHANGED <<backend, auxVars>>

(* ef_sync.                                                                *)
Sync(p) ==
  /\ Writes(p)
  /\ file' = Committed(p)
  /\ Step(p, [h[p] EXCEPT !.dirty = FALSE])
  /\ UNCHANGED <<backend, auxVars>>

(* ef_close; a transaction is left as it is.                               *)
Close(p) ==
  /\ At(p, "open") /\ Quiet(p)
  /\ file' = IF h[p].ro THEN file ELSE Committed(p)
  /\ Step(p, NoHandle)
  /\ UNCHANGED <<backend, auxVars>>

-----------------------------------------------------------------------------
(* ef_grow and ef_upgrade.                                                 *)

MayGrow(p) == Writes(p) /\ ~h[p].active /\ file.slots < MaxSlots

(* Mutant: the new size leaves out the log.                                *)
GrownSizeShort(p) == ExpectedSize(file.slots + 1, h[p].cap, 0)

GrownSize(p) == ExpectedSize(file.slots + 1, h[p].cap, LogUnits)

(* ef_port_grow_file: munmap and ftruncate, which may fail.  The handle    *)
(* then still points to where the file was mapped.                         *)
Grow(p) ==
  /\ backend = "file" /\ MayGrow(p) /\ GrownSize(p) > h[p].map
  /\ \/ /\ file' = [file EXCEPT !.size = GrownSize(p)]
        /\ Step(p, [h[p] EXCEPT !.max = file.slots, !.pc = "grown"])
     \/ UNCHANGED file /\ Goto(p, "lost")
  /\ UNCHANGED <<backend, auxVars>>

(* mmap fails: the file has a size that is not that of its superblock.     *)
GrowFails(p) ==
  /\ At(p, "grown")
  /\ cut' = TRUE
  /\ Goto(p, "lost")
  /\ UNCHANGED <<backend, file, wrote, born, torn, robbed>>

(* Mutant: ef_grow_append_slots does not mark the superblock.              *)
AppendUnmarked(p, size, max) ==
  /\ file' = [file EXCEPT !.slots = max + 1, !.slot[max + 1] = "none"]
  /\ h' = [q \in Procs |->
             IF q = p THEN [Bound(p, size, "open") EXCEPT !.max = 0]
             ELSE [h[q] EXCEPT !.stale = (h[q].pc # "closed")]]
  /\ UNCHANGED <<backend, auxVars>>

(* ef_grow_append_slots.  The new slot lies where the log was.             *)
AppendSlots(p, size, max) ==
  /\ file' = [file EXCEPT !.slots = max + 1, !.slot[max + 1] = "none"]
  /\ h' = [q \in Procs |->
             IF q = p THEN Marked([Bound(p, size, "open") EXCEPT !.max = 0], file)
             ELSE [h[q] EXCEPT !.stale = (h[q].pc # "closed")]]
  /\ UNCHANGED <<backend, auxVars>>

GrowEnds(p) == At(p, "grown") /\ AppendSlots(p, file.size, h[p].max)

GrowMemory(p) ==
  /\ backend = "memory" /\ MayGrow(p) /\ GrownSize(p) <= Capacity
  /\ AppendSlots(p, GrownSize(p), file.slots)

(* The stored checksum is that of the superblock, once an index call has   *)
(* released its lock byte.                                                 *)
Agrees(f) == f.crc => f.sum = Superblock([f EXCEPT !.b23 = 0])

(* ef_close after a growth that failed: the checksum is stored through a   *)
(* pointer to nothing, and the process dies, unless it was stored before.  *)
CloseLost(p) ==
  /\ At(p, "lost")
  /\ cut' = (cut \/ (h[p].dirty /\ ~Agrees(file)))
  /\ Step(p, NoHandle)
  /\ UNCHANGED <<backend, file, wrote, born, torn, robbed>>

(* ef_needs_upgrade.  The files of later schemas have the flag from the    *)
(* start, and nothing clears it.                                           *)
NeedsUpgrade(f) == IF f.version \in {V2, V3, V5} THEN ~f.crc ELSE f.version <= LEGACY

(* ef_upgrade *)
Upgrade(p) ==
  /\ Writes(p) /\ NeedsUpgrade(file)
  /\ Goto(p, "upgrade")
  /\ UNCHANGED <<backend, file, auxVars>>

(* ef_upgrade_slots_v1_to_v2, the first slot that is still to be done.     *)
UpgradeSlot(p) ==
  /\ At(p, "upgrade")
  /\ \E s \in 1..file.slots :
       /\ file.slot[s] = "legacy" /\ \A r \in 1..(s - 1) : file.slot[r] # "legacy"
       /\ file' = [file EXCEPT !.slot[s] = "v2"]
  /\ UNCHANGED <<backend, h, auxVars>>

UpgradeEnds(p) ==
  /\ At(p, "upgrade") /\ \A s \in 1..file.slots : file.slot[s] # "legacy"
  /\ file' = Stored([file EXCEPT !.version = V5, !.crc = TRUE])
  /\ Goto(p, "open")
  /\ UNCHANGED <<backend, auxVars>>

-----------------------------------------------------------------------------
(* A process dies.  It cuts a change short if it was to store a checksum   *)
(* that does not agree, or was between two stores that belong together.    *)
Die(p) ==
  /\ backend = "file" /\ h[p].pc # "closed"
  /\ cut' = (cut \/ (h[p].dirty /\ ~Agrees(file)) \/ h[p].pc \in {"created", "grown", "index"})
  /\ torn' = (torn \/ At(p, "upgrade"))
  /\ Refuse(p)
  /\ UNCHANGED <<backend, file, wrote, born, robbed>>

Next ==
  \E p \in Procs :
    \/ OpenEmpty(p) \/ Create(p) \/ InitNew(p) \/ CreateFails(p) \/ Open(p) \/ GrowOld(p)
    \/ MapOld(p) \/ GrowOldFails(p) \/ LongEnough(p) \/ OpenReadonly(p)
    \/ InitMemory(p) \/ OpenMemory(p) \/ Validate(p) \/ NeedsMigration(p) \/ MigrateV3(p)
    \/ MigrateV4(p) \/ Recover(p) \/ Rebuild(p)
    \/ \E s \in 1..MaxSlots : Write(p, s)
    \/ IndexEnter(p) \/ IndexLeave(p) \/ Begin(p) \/ End(p) \/ Sync(p) \/ Close(p)
    \/ Grow(p) \/ GrowFails(p) \/ GrowEnds(p) \/ GrowMemory(p) \/ CloseLost(p)
    \/ Upgrade(p) \/ UpgradeSlot(p) \/ UpgradeEnds(p) \/ Die(p)

Spec == Init /\ [][Next]_vars

-----------------------------------------------------------------------------
(* Whatever handles were opened, migrated, grew, upgraded and wrote the    *)
(* file, in whatever order they are closed: when none that may write is    *)
(* left the next ef_open accepts the file, its size, its version and its   *)
(* checksum (ef_validate_superblock), also if a process has died or a      *)
(* system call has failed without cutting a change of the file short.      *)
Accepted ==
  ~cut /\ (\A p \in Procs : h[p].ro \/ h[p].pc = "closed")
    => file.size = 0 \/ Valid(file, IF backend = "file" THEN file.size ELSE OwnSize(file))
       \/ (backend = "memory" /\ ~file.magic)

(* Every open handle, also one that was opened for reading before the file *)
(* was migrated, and one whose open is about to rebuild the free list,     *)
(* finds the slots where the index ends and in each slot that was written  *)
(* its payload where the version in the file says it is                    *)
(* (ef_slot_payload_ptr): migrations, upgrades and growth move none away,  *)
(* unless ef_upgrade was cut short.                                        *)
PayloadsKept ==
  ~torn /\ (\A q \in Procs : h[q].pc # "upgrade") =>
    \A p \in Procs : h[p].pc \in {"rebuild", "open"} =>
      /\ h[p].cap = born
      /\ \A s \in wrote : file.slot[s] = Place(file.version)

(* The mapping of an open handle reaches to the end of the log of schema 5 *)
(* and not beyond the file, whichever version the file had, unless another *)
(* handle has grown it since (ef_grow does not tell them), the handle was  *)
(* opened for reading and nothing was migrated, or a change was cut short. *)
MappingCovers ==
  \A p \in Procs : h[p].pc = "open" /\ ~h[p].stale =>
    /\ h[p].map <= file.size
    /\ (~h[p].ro /\ ~cut) => h[p].map >= ExpectedSize(file.slots, h[p].cap, LogUnits)

(* The byte in the file lets one process at a time be in a transaction     *)
(* (ef_sb_txn_lock_try_acquire), through deaths, migrations and            *)
(* recoveries, until an ef_open replays the transaction of a live process. *)
TxnExcludes ==
  ~robbed => \A p, q \in Procs : h[p].active /\ h[q].active => p = q

=============================================================================
