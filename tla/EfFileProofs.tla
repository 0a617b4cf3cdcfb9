---------------------------- MODULE EfFileProofs ----------------------------
(***************************************************************************)
(* Proofs about EfFile, for every number of processes, slots and sizes.    *)
(***************************************************************************)
EXTENDS EfFile, TLAPS

-----------------------------------------------------------------------------
(* The inductive invariants, in parts.                                     *)

FileFields ==
  {"size", "magic", "version", "crc", "slots", "cap", "b22", "b23", "b24", "b25", "slot", "sum"}
HandleFields == {"pc", "map", "cap", "ro", "dirty", "active", "max", "stale"}
(* Steps outside calls, on a file that has been accepted, on a handle that *)
(* is mapped, on a file that is long enough, before it is accepted.        *)
Idle == {"closed", "open", "lost"}
InUse == {"migrate", "v3", "v4", "rebuild", "open", "index", "upgrade", "grown"}
Ready == {"open", "index", "upgrade"}
Long == {"lengthened", "init"} \cup InUse
Opening == {"closed", "new", "created", "mapped", "lengthened", "init"}

Places == {"none", "legacy", "v2"}

FileTyped ==
  /\ DOMAIN file = FileFields
  /\ file.size \in Nat /\ file.version \in 0..5
  /\ file.slots \in 0..MaxSlots /\ file.cap \in Nat
  /\ file.b22 \in 0..1 /\ file.b23 \in 0..1 /\ file.b24 \in 0..2 /\ file.b25 \in 0..1
  /\ file.slot \in [1..MaxSlots -> Places]

HandleTyped(p) ==
  /\ DOMAIN h[p] = HandleFields
  /\ h[p].map \in Nat /\ h[p].cap \in Nat /\ h[p].max \in Nat /\ h[p].max < MaxSlots

AuxTyped == backend \in {"file", "memory"} /\ born \in Nat /\ born < 65536

Typed == FileTyped /\ DOMAIN h = Procs /\ (\A p \in Procs : HandleTyped(p)) /\ AuxTyped

(* A process in a transaction has the lock byte of a schema 5 file.        *)
OnV5 == file.magic /\ file.version = 5

LockOwned ==
  /\ \A p \in Procs : h[p].active => OnV5
  /\ ~robbed => \A p, q \in Procs : h[p].active /\ h[q].active => p = q /\ file.b24 = 1

(* A file that has its magic is never created again.                       *)
SizeSet == file.magic /\ backend = "file" => file.size > 0

CreatedOnce ==
  \A p \in Procs : h[p].pc = "created" => backend = "file" /\ ~file.magic /\ file.size > 0

(* Only a file that has its magic is used.                                 *)
MagicUsed == \A p \in Procs : h[p].pc \in InUse => file.magic

(* Types and the transaction lock.                                         *)
LockInv == Typed /\ LockOwned /\ SizeSet /\ CreatedOnce /\ MagicUsed

(* When callers make one call at a time nothing changes between a check of *)
(* the size or of the version and the stores that it decides on.           *)
OneCall == \A p, q \in Procs : h[p].pc \notin Idle /\ h[q].pc \notin Idle => p = q

Checks == {"new", "created", "v3", "v4"}

CheckHolds(p) ==
  /\ h[p].pc \in {"new", "created"} => h[p].cap \in Caps
  /\ h[p].pc = "new" => file.size = 0 /\ backend = "file"
  /\ h[p].pc = "v3" => file.version = 3
  /\ h[p].pc = "v4" => file.version = 4

SerialInv == OneCall /\ \A p \in Procs : CheckHolds(p)

-----------------------------------------------------------------------------
Busy(label) == \E p \in Procs : h[p].pc = label

(* A file of version 4 with the index lock: it is never accepted.          *)
Locked4 == file.version = 4 /\ file.b23 = 1

CapKept ==
  IF file.magic
  THEN /\ file.cap = born
       /\ file.version < 3 => born = 0
       /\ file.version >= 2 => file.crc
       /\ file.version \in {3, 4} => file.b22 = 0
       /\ file.version = 3 => file.b23 = 0 /\ file.b24 = 0
  ELSE file.version = 0

LockSeen == file.b23 = 1 => cut \/ Busy("index")

(* What each step of a call may rely on.                                   *)
HandleOK(p) ==
  /\ h[p].pc \in InUse => file.magic /\ ~Locked4 /\ h[p].cap = born
  /\ h[p].pc \in Opening => ~h[p].dirty
  /\ h[p].pc = "closed" => ~h[p].ro
  /\ h[p].ro => h[p].pc \in {"init", "open"} /\ ~h[p].dirty
  /\ h[p].map <= file.size

(* A file that is open for writing has room for the log of schema 5, and   *)
(* a handle maps it unless it is stale.                                    *)
Covered(p) ==
  /\ h[p].pc \in Ready /\ ~h[p].stale /\ ~h[p].ro =>
       h[p].map >= ExpectedSize(file.slots, born, LogUnits)
  /\ h[p].pc \in Long /\ ~h[p].ro /\ backend = "file" /\ file.magic /\ ~Locked4 =>
       file.size >= ExpectedSize(file.slots, born, LogUnits)

AtStep(p) ==
  /\ h[p].pc = "created" => file.size = NewSize(p) /\ backend = "file"
  /\ h[p].pc = "mapped" => backend = "file" /\ h[p].map = file.size /\ file.size > 0
  /\ h[p].pc = "lengthened" => backend = "file"
  /\ h[p].pc = "grown" =>
       /\ h[p].max = file.slots /\ file.slots < MaxSlots /\ backend = "file"
       /\ file.size = ExpectedSize(file.slots + 1, born, LogUnits)
  /\ h[p].pc = "index" => file.version = 5
  /\ h[p].pc = "upgrade" => file.version <= 1

Handles == \A p \in Procs : HandleOK(p) /\ Covered(p) /\ AtStep(p)

FileSizes ==
  /\ file.magic /\ ~Locked4 =>
       \/ file.version < 5 /\ file.size = ExpectedSize(file.slots, born, 0)
       \/ file.size = ExpectedSize(file.slots, born, LogUnits)
       \/ (cut \/ Busy("grown")) /\ file.size = ExpectedSize(file.slots + 1, born, LogUnits)
  /\ ~file.magic /\ file.size # 0 => cut \/ Busy("created")

BufferSizes ==
  /\ file.size = Capacity
  /\ file.magic /\ ~Locked4 => ExpectedSize(file.slots, born, LogUnits) <= Capacity

Sizes == IF backend = "file" THEN FileSizes ELSE BufferSizes

Written ==
  /\ wrote \subseteq 1..file.slots
  /\ ~file.magic => wrote = {}
  /\ ~torn => \A s \in wrote : IF Busy("upgrade") THEN file.slot[s] # "none"
                               ELSE file.slot[s] = Place(file.version)

(* The checksum is that of the superblock, or a handle will store it; the  *)
(* index lock is not held when it is stored.                               *)
Unlocked == [file EXCEPT !.b23 = 0]

Summed ==
  file.crc /\ ~cut => file.sum = Superblock(Unlocked) \/ \E p \in Procs : h[p].dirty

CallInv == OneCall /\ CapKept /\ LockSeen /\ Handles /\ Sizes /\ Written /\ Summed

-----------------------------------------------------------------------------
(* What the steps leave alone.                                             *)

SameShape ==
  /\ file'.magic = file.magic /\ file'.version = file.version /\ file'.crc = file.crc
  /\ file'.slots = file.slots /\ file'.cap = file.cap
SameLocks == file'.b22 = file.b22 /\ file'.b23 = file.b23
SameTxn == file'.b24 = file.b24 /\ file'.b25 = file.b25
SameData == file'.slot = file.slot
SameSum == file'.sum = file.sum
SameSize == file'.size = file.size

(* The rest of the handle of p, when its pc, dirty or active change.       *)
SameHandle(p) ==
  /\ DOMAIN h'[p] = DOMAIN h[p]
  /\ h'[p].map = h[p].map /\ h'[p].cap = h[p].cap /\ h'[p].ro = h[p].ro
  /\ h'[p].max = h[p].max /\ h'[p].stale = h[p].stale

(* The handles of the others; a growth makes them stale.                   *)
SameBeside(q) ==
  /\ DOMAIN h'[q] = DOMAIN h[q]
  /\ h'[q].pc = h[q].pc /\ h'[q].map = h[q].map /\ h'[q].cap = h[q].cap /\ h'[q].ro = h[q].ro
  /\ h'[q].dirty = h[q].dirty /\ h'[q].active = h[q].active /\ h'[q].max = h[q].max
  /\ h[q].pc # "closed" /\ h[q].stale => h'[q].stale

Beside(p) ==
  /\ DOMAIN h' = Procs
  /\ \A q \in Procs \ {p} : SameBeside(q)

(* No other process is inside a call.                                      *)
Alone(p) == \A q \in Procs \ {p} : h[q].pc \in Idle

(* A step of p changes its own handle only.                                *)
LEMMA StepBeside ==
  ASSUME NEW p \in Procs, NEW hd, Typed, Step(p, hd)
  PROVE  h'[p] = hd /\ Beside(p)
<1>1. DOMAIN h' = Procs /\ h'[p] = hd /\ \A q \in Procs \ {p} : h'[q] = h[q]
  BY DEF Typed, Step
<1>2. QED BY <1>1 DEF Beside, SameBeside

(* The constants.                                                          *)
LEMMA Numbers ==
  /\ InitSlots \in Nat \ {0} /\ MaxSlots \in Nat /\ InitSlots <= MaxSlots
  /\ LogUnits \in Nat \ {0} /\ Capacity \in Nat
BY FileAssumption

(* Types.                                                                  *)
LEMMA AuxKept ==
  ASSUME AuxTyped, backend' = backend, born' = born
  PROVE  AuxTyped'
BY DEF AuxTyped

(* A file that does not change keeps its types and its size.               *)
LEMMA FileKept ==
  ASSUME FileTyped, file' = file
  PROVE  FileTyped' /\ file'.size >= file.size /\ (file.size > 0 => file'.size > 0)
BY DEF FileTyped

(* A step of one process that leaves typed values leaves all of them       *)
(* typed.                                                                  *)
LEMMA TypedKept ==
  ASSUME NEW p \in Procs, Typed, Beside(p), HandleTyped(p)', FileTyped', AuxTyped'
  PROVE  Typed'
<1>1. ASSUME NEW q \in Procs PROVE HandleTyped(q)'
  <2>1. CASE q = p BY <2>1
  <2>2. CASE q # p BY <2>2 DEF Typed, Beside, SameBeside, HandleTyped
  <2>3. QED BY <2>1, <2>2
<1>2. QED BY <1>1 DEF Typed, Beside

(* The lock is kept by a step that neither takes nor stores it.            *)
LEMMA OwnedKept ==
  ASSUME NEW p \in Procs, LockOwned, Beside(p),
         h'[p].active => h[p].active, robbed' = robbed,
         OnV5 => OnV5' /\ file'.b24 = file.b24
  PROVE  LockOwned'
<1>1. ASSUME NEW q \in Procs, h'[q].active PROVE h[q].active
  BY <1>1 DEF Beside, SameBeside
<1>2. QED BY <1>1 DEF LockOwned

(* Nobody has it when the file is not of schema 5.                         *)
LEMMA NobodyOwns ==
  ASSUME NEW p \in Procs, LockOwned, Beside(p), ~OnV5,
         h'[p].active => h[p].active
  PROVE  LockOwned'
<1>1. ASSUME NEW q \in Procs, h'[q].active PROVE h[q].active
  BY <1>1 DEF Beside, SameBeside
<1>2. QED BY <1>1 DEF LockOwned

(* Creation.                                                               *)
LEMMA CreatedKept ==
  ASSUME NEW p \in Procs, Typed, SizeSet, CreatedOnce, Beside(p), backend' = backend,
         file'.magic = file.magic, file'.size \in Nat, file.size > 0 => file'.size > 0,
         h'[p].pc = "created" => h[p].pc = "created"
  PROVE  SizeSet' /\ CreatedOnce'
<1>1. ASSUME NEW q \in Procs, h'[q].pc = "created" PROVE h[q].pc = "created"
  BY <1>1 DEF Beside, SameBeside
<1>2. QED BY <1>1 DEF SizeSet, CreatedOnce, Typed, FileTyped

(* A handle in use means that the file has its magic number.               *)
LEMMA MagicKept ==
  ASSUME NEW p \in Procs, MagicUsed, Beside(p), file.magic => file'.magic,
         h'[p].pc \in InUse => file'.magic
  PROVE  MagicUsed'
<1>1. ASSUME NEW q \in Procs, q # p, h'[q].pc \in InUse PROVE h[q].pc \in InUse
  BY <1>1 DEF Beside, SameBeside
<1>2. QED BY <1>1 DEF MagicUsed

(* Together, for most steps.                                               *)
LEMMA LockKept ==
  ASSUME NEW p \in Procs, LockInv, Beside(p), HandleTyped(p)', FileTyped', AuxTyped',
         h'[p].active => h[p].active, robbed' = robbed, backend' = backend,
         file'.magic = file.magic, file.size > 0 => file'.size > 0, file'.b24 = file.b24,
         file.version = 5 => file'.version = 5,
         h'[p].pc = "created" => h[p].pc = "created", h'[p].pc \in InUse => file.magic
  PROVE  LockInv'
<1>1. Typed' BY TypedKept DEF LockInv
<1>2. LockOwned' BY OwnedKept DEF LockInv, OnV5
<1>3. file'.size \in Nat BY DEF FileTyped
<1>4. SizeSet' /\ CreatedOnce' BY <1>3, CreatedKept DEF LockInv
<1>5. MagicUsed' BY MagicKept DEF LockInv
<1>6. QED BY <1>1, <1>2, <1>4, <1>5 DEF LockInv

-----------------------------------------------------------------------------
(* One call at a time.                                                     *)

(* A call that begins when no other is under way is the only one.          *)
LEMMA QuietAlone ==
  ASSUME NEW p \in Procs, Serial, Quiet(p)
  PROVE  Alone(p)
BY DEF Quiet, Alone, Idle

(* A process inside a call is the only one inside a call.                  *)
LEMMA InsideAlone ==
  ASSUME NEW p \in Procs, OneCall, h[p].pc \notin Idle
  PROVE  Alone(p)
BY DEF OneCall, Alone

(* Steps of the only process inside a call keep it the only one.           *)
LEMMA OneCallKept ==
  ASSUME NEW p \in Procs, Alone(p), Beside(p)
  PROVE  OneCall'
<1>1. \A q \in Procs \ {p} : h'[q].pc \in Idle
  BY DEF Alone, Beside, SameBeside
<1>2. QED BY <1>1 DEF OneCall

(* Only p can be at a step inside a call.                                  *)
LEMMA BusyAlone ==
  ASSUME NEW p \in Procs, Alone(p), Beside(p), NEW label, label \notin Idle
  PROVE  (Busy(label) <=> h[p].pc = label) /\ (Busy(label)' <=> h'[p].pc = label)
<1>1. \A q \in Procs \ {p} : h'[q].pc \in Idle /\ h[q].pc \in Idle
  BY DEF Alone, Beside, SameBeside
<1>2. QED BY <1>1 DEF Busy

(* What processes are at, when only one of them is inside a call.          *)
LEMMA BusyStep ==
  ASSUME NEW p \in Procs, Alone(p), Beside(p)
  PROVE  /\ Busy("index") <=> h[p].pc = "index"
         /\ Busy("index")' <=> h'[p].pc = "index"
         /\ Busy("grown") <=> h[p].pc = "grown"
         /\ Busy("grown")' <=> h'[p].pc = "grown"
         /\ Busy("created") <=> h[p].pc = "created"
         /\ Busy("created")' <=> h'[p].pc = "created"
         /\ Busy("upgrade") <=> h[p].pc = "upgrade"
         /\ Busy("upgrade")' <=> h'[p].pc = "upgrade"
<1>1. "index" \notin Idle /\ "grown" \notin Idle /\ "created" \notin Idle /\ "upgrade" \notin Idle
  BY DEF Idle
<1>2. QED BY <1>1, BusyAlone

(* The other handles rely on nothing that a step of p changes.             *)
LEMMA HandlesKept ==
  ASSUME NEW p \in Procs, Typed, Typed', Alone(p), Beside(p), Handles,
         HandleOK(p)', Covered(p)', AtStep(p)',
         file.magic /\ ~Locked4 => file'.magic /\ ~Locked4' /\ born' = born,
         file'.size >= file.size,
         backend' = backend,
         \/ file'.slots = file.slots
         \/ \A q \in Procs \ {p} : h[q].pc = "open" =>
              h'[q].stale /\ file'.size >= ExpectedSize(file'.slots, born', LogUnits)
  PROVE  Handles'
<1>1. ASSUME NEW q \in Procs \ {p} PROVE HandleOK(q)' /\ Covered(q)' /\ AtStep(q)'
  <2>1. h'[q].pc = h[q].pc /\ h[q].pc \in Idle /\ SameBeside(q) /\ HandleOK(q) /\ Covered(q)
        /\ HandleTyped(q)
    BY DEF Beside, SameBeside, Alone, Handles, Typed
  <2>2. AtStep(q)'
    BY <2>1 DEF AtStep, Idle
  <2>3. h'[q].map <= file'.size
    BY <2>1 DEF SameBeside, HandleOK, HandleTyped, Typed, FileTyped
  <2>4. HandleOK(q)'
    BY <2>1, <2>3 DEF HandleOK, SameBeside, Idle, InUse, Opening
  <2>5. Covered(q)'
    <3>1. CASE h[q].pc # "open" BY <2>1, <3>1 DEF Covered, Idle, Ready, Long, InUse
    <3>2. CASE h[q].pc = "open"
      <4>1. file.magic /\ ~Locked4 /\ born' = born
        BY <2>1, <3>2 DEF HandleOK, InUse
      <4>2. CASE file'.slots = file.slots
        <5>1. ExpectedSize(file'.slots, born', LogUnits) = ExpectedSize(file.slots, born, LogUnits)
          BY <4>1, <4>2
        <5>2. ExpectedSize(file.slots, born, LogUnits) \in Int
          BY Numbers DEF Typed, FileTyped, AuxTyped, ExpectedSize
        <5>3. file.size \in Int /\ file'.size \in Int BY DEF Typed, FileTyped
        <5>4. QED
          BY <2>1, <3>2, <4>1, <5>1, <5>2, <5>3
          DEF Covered, SameBeside, Ready, Long, InUse
      <4>3. CASE \A r \in Procs \ {p} : h[r].pc = "open" =>
                   h'[r].stale /\ file'.size >= ExpectedSize(file'.slots, born', LogUnits)
        BY <2>1, <3>2, <4>3 DEF Covered
      <4>4. QED BY <4>2, <4>3
    <3>3. QED BY <3>1, <3>2
  <2>6. QED BY <2>2, <2>4, <2>5
<1>2. QED BY <1>1 DEF Handles

-----------------------------------------------------------------------------
(* The checksum.                                                           *)

(* The checksum covers these fields of the superblock and no others.       *)
LEMMA SuperblockSame ==
  ASSUME NEW f, NEW g, f.version = g.version, f.crc = g.crc, f.slots = g.slots, f.cap = g.cap,
         f.b22 = g.b22, f.b23 = g.b23, f.b24 = g.b24, f.b25 = g.b25,
         \A s \in 1..MaxSlots : f.slot[s] = "none" <=> g.slot[s] = "none"
  PROVE  Superblock(f) = Superblock(g)
<1>1. {s \in 1..MaxSlots : f.slot[s] # "none"} = {s \in 1..MaxSlots : g.slot[s] # "none"}
  OBVIOUS
<1>2. QED BY <1>1 DEF Superblock

(* The superblock with the index write lock byte taken for clear.          *)
LEMMA UnlockedFields ==
  ASSUME Typed
  PROVE  /\ Unlocked.version = file.version /\ Unlocked.crc = file.crc
         /\ Unlocked.slots = file.slots /\ Unlocked.cap = file.cap /\ Unlocked.b22 = file.b22 /\ Unlocked.b23 = 0
         /\ Unlocked.b24 = file.b24 /\ Unlocked.b25 = file.b25 /\ Unlocked.slot = file.slot
BY DEF Typed, FileTyped, FileFields, Unlocked

(* The same of the state after a step.                                     *)
LEMMA UnlockedFieldsPrime ==
  ASSUME Typed'
  PROVE  /\ Unlocked'.version = file'.version /\ Unlocked'.crc = file'.crc
         /\ Unlocked'.slots = file'.slots /\ Unlocked'.cap = file'.cap /\ Unlocked'.b22 = file'.b22
         /\ Unlocked'.b23 = 0 /\ Unlocked'.b24 = file'.b24 /\ Unlocked'.b25 = file'.b25
         /\ Unlocked'.slot = file'.slot
BY DEF Typed, FileTyped, FileFields, Unlocked

(* A step that leaves the superblock and the checksum alone and forgets    *)
(* no mark keeps them in agreement.                                        *)
LEMMA SumKept ==
  ASSUME NEW p \in Procs, Typed, Typed', Beside(p), Summed,
         SameShape, file'.b22 = file.b22, SameTxn, SameSum,
         \A s \in 1..MaxSlots : file'.slot[s] = "none" <=> file.slot[s] = "none",
         cut => cut', file.crc /\ h[p].dirty => h'[p].dirty \/ cut'
  PROVE  Summed'
<1> SUFFICES ASSUME file'.crc, ~cut', ~\E q \in Procs : h'[q].dirty
             PROVE  file'.sum = Superblock(Unlocked')
  BY DEF Summed
<1>1. file.crc /\ ~cut
  <2>1. file.crc = file'.crc BY DEF SameShape
  <2>2. QED BY <2>1
<1>2. ASSUME NEW q \in Procs PROVE ~h[q].dirty
  <2>1. CASE q = p BY <1>1, <2>1
  <2>2. CASE q # p BY <2>2 DEF Beside, SameBeside
  <2>3. QED BY <2>1, <2>2
<1>3. file.sum = Superblock(Unlocked) BY <1>1, <1>2 DEF Summed
<1>4. Superblock(Unlocked') = Superblock(Unlocked)
  <2>1. \A s \in 1..MaxSlots : Unlocked'.slot[s] = "none" <=> Unlocked.slot[s] = "none"
    BY UnlockedFields, UnlockedFieldsPrime
  <2>2. /\ Unlocked'.version = Unlocked.version /\ Unlocked'.crc = Unlocked.crc
        /\ Unlocked'.slots = Unlocked.slots /\ Unlocked'.cap = Unlocked.cap
        /\ Unlocked'.b22 = Unlocked.b22 /\ Unlocked'.b23 = Unlocked.b23
        /\ Unlocked'.b24 = Unlocked.b24 /\ Unlocked'.b25 = Unlocked.b25
    BY UnlockedFields, UnlockedFieldsPrime DEF SameShape, SameTxn
  <2>3. QED BY <2>1, <2>2, SuperblockSame
<1>5. QED BY <1>3, <1>4 DEF SameSum

(* A step that marks the superblock.                                       *)
LEMMA SumMarked ==
  ASSUME NEW p \in Procs, file'.crc => h'[p].dirty
  PROVE  Summed'
BY DEF Summed

(* ef_sb_checksum_store.                                                   *)
LEMMA StoredFields ==
  ASSUME NEW f, DOMAIN f = FileFields
  PROVE  /\ DOMAIN Stored(f) = FileFields
         /\ Stored(f).size = f.size /\ Stored(f).magic = f.magic /\ Stored(f).version = f.version
         /\ Stored(f).crc = f.crc /\ Stored(f).slots = f.slots /\ Stored(f).cap = f.cap
         /\ Stored(f).b22 = f.b22 /\ Stored(f).b23 = f.b23 /\ Stored(f).b24 = f.b24
         /\ Stored(f).b25 = f.b25 /\ Stored(f).slot = f.slot
         /\ f.crc => Stored(f).sum = Superblock(f)
BY DEF FileFields, Stored

(* A checksum just stored matches the superblock it was computed from.     *)
LEMMA SumStored ==
  ASSUME NEW f, DOMAIN f = FileFields, Typed', file' = Stored(f), f.b23 = 0 \/ cut'
  PROVE  Summed'
<1>1. CASE cut' BY <1>1 DEF Summed
<1>2. CASE ~cut' /\ file'.crc
  <2>1. f.crc /\ f.b23 = 0 /\ file'.sum = Superblock(f) BY <1>2, StoredFields
  <2>2. Superblock(f) = Superblock(Unlocked')
    BY <2>1, SuperblockSame, UnlockedFieldsPrime, StoredFields
  <2>3. QED BY <2>1, <2>2 DEF Summed
<1>3. CASE ~file'.crc BY <1>3 DEF Summed
<1>4. QED BY <1>1, <1>2, <1>3

-----------------------------------------------------------------------------
(* Steps that leave the superblock alone.                                  *)

(* Most of what CallInv says, when the file keeps all but its size.        *)
LEMMA CallKept ==
  ASSUME NEW p \in Procs, LockInv, LockInv', CallInv, Alone(p), Beside(p),
         SameShape, SameLocks, SameTxn, SameData, SameSum, file'.size >= file.size,
         UNCHANGED <<backend, wrote, born, torn>>, cut => cut',
         HandleOK(p)', Covered(p)', AtStep(p)', Sizes',
         h[p].pc = "index" => h'[p].pc = "index" \/ cut',
         h[p].pc = "upgrade" => h'[p].pc = "upgrade",
         h'[p].pc = "upgrade" => h[p].pc = "upgrade" \/ file.version <= 1,
         file.crc /\ h[p].dirty => h'[p].dirty \/ cut'
  PROVE  CallInv'
<1>1. OneCall' BY OneCallKept DEF CallInv
<1>2. CapKept' BY DEF CallInv, CapKept, SameShape, SameLocks, SameTxn
<1>3. LockSeen' BY BusyStep DEF CallInv, LockSeen, SameLocks
<1>4. Locked4' <=> Locked4 BY DEF Locked4, SameShape, SameLocks
<1>5. Handles' BY <1>4, HandlesKept DEF CallInv, LockInv, SameShape
<1>6. Written'
  <2>1. wrote' \subseteq 1..file'.slots /\ (~file'.magic => wrote' = {})
    BY DEF CallInv, Written, SameShape
  <2>2. ASSUME ~torn', NEW s \in wrote'
        PROVE  IF Busy("upgrade")' THEN file'.slot[s] # "none"
               ELSE file'.slot[s] = Place(file'.version)
    <3>1. s \in wrote /\ ~torn /\ file'.slot = file.slot /\ file'.version = file.version
      BY <2>2 DEF SameData, SameShape
    <3>2. CASE h[p].pc = "upgrade" BY <3>1, <3>2, BusyStep DEF CallInv, Written
    <3>3. CASE h[p].pc # "upgrade"
      BY <3>1, <3>3, BusyStep DEF CallInv, Written, Place, LEGACY
    <3>4. QED BY <3>2, <3>3
  <2>3. QED BY <2>1, <2>2 DEF Written
<1>7. Summed' BY SumKept DEF CallInv, LockInv, SameLocks, SameData
<1>8. QED BY <1>1, <1>2, <1>3, <1>5, <1>6, <1>7 DEF CallInv

(* The sizes, when the file does not change at all.                        *)
LEMMA SizesKept ==
  ASSUME NEW p \in Procs, LockInv, CallInv, Alone(p), Beside(p),
         file' = file, UNCHANGED <<backend, born>>, cut => cut',
         h[p].pc = "grown" => h'[p].pc = "grown" \/ cut',
         h[p].pc = "created" => h'[p].pc = "created" \/ cut'
  PROVE  Sizes'
<1>1. CASE backend = "file"
  <2>1. FileSizes' BY <1>1, BusyStep DEF CallInv, Sizes, FileSizes, Locked4
  <2>2. QED BY <1>1, <2>1 DEF Sizes
<1>2. CASE backend # "file"
  BY <1>2 DEF CallInv, Sizes, BufferSizes, Locked4
<1>3. QED BY <1>1, <1>2

(* A step that changes the handle of p and nothing else.                   *)
LEMMA HandleStep ==
  ASSUME NEW p \in Procs, LockInv, Beside(p), UNCHANGED <<backend, file, auxVars>>,
         HandleTyped(p)', h'[p].active => h[p].active, h'[p].pc # "created",
         h'[p].pc \in InUse => file.magic,
         h[p].pc \notin {"index", "grown", "created"},
         h[p].pc = "upgrade" => h'[p].pc = "upgrade",
         CallInv /\ h'[p].pc = "upgrade" => h[p].pc = "upgrade" \/ file.version <= 1,
         Serial /\ CallInv => Alone(p),
         CallInv /\ file.crc /\ h[p].dirty => h'[p].dirty,
         CallInv => HandleOK(p)' /\ Covered(p)' /\ AtStep(p)'
  PROVE  LockInv' /\ (Serial /\ CallInv => CallInv')
<1>1. FileTyped' /\ AuxTyped'
  <2>1. file' = file /\ backend' = backend /\ born' = born
    BY DEF auxVars
  <2>2. QED BY <2>1, FileKept, AuxKept DEF LockInv, Typed
<1>2. LockInv'
  <2>1. file.size > 0 => file'.size > 0 BY DEF LockInv, Typed, FileTyped
  <2>2. QED BY <1>1, <2>1, LockKept DEF auxVars
<1>3. ASSUME Serial, CallInv PROVE CallInv'
  <2>1. Alone(p) /\ HandleOK(p)' /\ Covered(p)' /\ AtStep(p)' BY <1>3
  <2>2. Sizes' BY <1>3, <2>1, SizesKept DEF auxVars
  <2>3. /\ SameShape /\ SameLocks /\ SameTxn /\ SameData /\ SameSum /\ file'.size >= file.size
        /\ UNCHANGED <<backend, wrote, born, torn, cut>>
    BY DEF SameShape, SameLocks, SameTxn, SameData, SameSum, auxVars, LockInv, Typed, FileTyped
  <2>4. QED BY <1>2, <1>3, <2>1, <2>2, <2>3, CallKept
<1>4. QED BY <1>2, <1>3

-----------------------------------------------------------------------------
(* The operators of the handles and of the capacity.                       *)

(* A handle that goes on to the next step of a call keeps its layout.      *)
LEMMA GotoFields ==
  ASSUME NEW p \in Procs, NEW label, Typed, Goto(p, label)
  PROVE  /\ Beside(p) /\ HandleTyped(p)' /\ SameHandle(p)
         /\ h'[p].pc = label /\ h'[p].dirty = h[p].dirty /\ h'[p].active = h[p].active
<1>1. h'[p] = [h[p] EXCEPT !.pc = label] /\ Beside(p)
  BY StepBeside DEF Goto
<1>2. QED BY <1>1 DEF Typed, HandleTyped, HandleFields, SameHandle

(* A refused open leaves the handle closed.                                *)
LEMMA RefuseFields ==
  ASSUME NEW p \in Procs, Typed, Refuse(p)
  PROVE  /\ Beside(p) /\ HandleTyped(p)'
         /\ h'[p].pc = "closed" /\ h'[p].map = 0 /\ ~h'[p].ro /\ ~h'[p].dirty /\ ~h'[p].active
<1>1. h'[p] = NoHandle /\ Beside(p)
  BY StepBeside DEF Refuse
<1>2. QED BY <1>1, Numbers DEF NoHandle, HandleTyped, HandleFields

(* The fields of a handle bound to the layout of the superblock.           *)
LEMMA BoundFields ==
  ASSUME NEW p \in Procs, NEW size, NEW label, Typed
  PROVE  LET b == Bound(p, size, label) IN
         /\ DOMAIN b = HandleFields
         /\ b.map = size /\ b.cap = CapOf(file) /\ b.pc = label
         /\ b.ro = h[p].ro /\ b.dirty = h[p].dirty /\ b.active = h[p].active
         /\ b.max = h[p].max /\ b.stale = h[p].stale
BY DEF Typed, HandleTyped, HandleFields, Bound

(* Marking the checksum dirty changes that flag only.                      *)
LEMMA MarkedFields ==
  ASSUME NEW hd, DOMAIN hd = HandleFields
  PROVE  LET m == Marked(hd, file) IN
         /\ DOMAIN m = HandleFields
         /\ m.map = hd.map /\ m.cap = hd.cap /\ m.pc = hd.pc /\ m.ro = hd.ro
         /\ m.active = hd.active /\ m.max = hd.max /\ m.stale = hd.stale
         /\ (hd.dirty => m.dirty) /\ (file.crc => m.dirty) /\ (m.dirty => hd.dirty \/ file.crc)
BY DEF HandleFields, Marked

(* A capacity is a number that the file of a new database has room for.    *)
LEMMA CapNumbers ==
  ASSUME NEW c \in Caps
  PROVE  c \in Nat /\ c < 65536 /\ ExpectedSize(InitSlots, c, LogUnits) <= Capacity
BY FileCapacities

(* The capacity that a superblock gives is a number.                       *)
LEMMA CapNatural ==
  ASSUME NEW f, f.cap \in Nat, f.version \in 0..5
  PROVE  CapOf(f) \in Nat
BY DEF CapOf, V3, V4, V5, Big

(* So is that of the file.                                                 *)
LEMMA CapNat ==
  ASSUME FileTyped
  PROVE  CapOf(file) \in Nat
BY CapNatural DEF FileTyped

(* The sizes computed from a superblock are numbers.                       *)
LEMMA SizeNat ==
  ASSUME FileTyped
  PROVE  /\ OwnSize(file) \in Nat
         /\ V5Size(file) = 1 + CapOf(file) + file.slots + LogUnits /\ V5Size(file) \in Nat
<1>1. CapOf(file) \in Nat /\ file.slots \in Nat /\ LogUnits \in Nat
  BY CapNat, Numbers DEF FileTyped
<1>2. V5Size(file) = 1 + CapOf(file) + file.slots + LogUnits BY DEF V5Size, ExpectedSize
<1>3. OwnSize(file) \in Nat
  <2>1. CASE file.version = V5 BY <1>1, <2>1 DEF OwnSize, ExpectedSize
  <2>2. CASE file.version # V5 BY <1>1, <2>2 DEF OwnSize, ExpectedSize
  <2>3. QED BY <2>1, <2>2
<1>4. QED BY <1>1, <1>2, <1>3

(* The superblock gives the capacity of the database, unless a lock byte   *)
(* is read as a part of it.                                                *)
LEMMA CapBorn ==
  ASSUME Typed, CapKept, file.magic
  PROVE  IF Locked4 THEN CapOf(file) >= Big ELSE CapOf(file) = born
BY DEF Typed, FileTyped, AuxTyped, CapKept, Locked4, CapOf, V3, V4, V5, Big

(* A superblock that passes validation has the capacity it was created     *)
(* with.                                                                   *)
LEMMA ValidBorn ==
  ASSUME Typed, CapKept, NEW size, Valid(file, size)
  PROVE  file.magic /\ ~Locked4 /\ CapOf(file) = born
BY CapBorn, CapNat DEF Typed, Valid, Big

(* A closed handle that nobody uses: it satisfies everything.              *)
LEMMA ClosedOK ==
  ASSUME NEW p \in Procs, FileTyped', h'[p].pc = "closed", h'[p].map = 0, ~h'[p].ro, ~h'[p].dirty
  PROVE  HandleOK(p)' /\ Covered(p)' /\ AtStep(p)'
BY DEF FileTyped, HandleOK, Covered, AtStep, InUse, Opening, Ready, Long

-----------------------------------------------------------------------------
(* Steps of an open that change the handle only.                           *)

(* ef_open_ex_hash of an existing file: the handle is bound to its         *)
(* layout.                                                                 *)
LEMMA OpenStep ==
  ASSUME NEW p \in Procs, LockInv, Open(p)
  PROVE  LockInv' /\ (Serial /\ CallInv => CallInv')
<1>1. /\ h[p].pc = "closed" /\ Quiet(p) /\ backend = "file" /\ Typed
      /\ UNCHANGED <<backend, file, auxVars>> /\ file.size \in Nat /\ file.size > 0
  BY DEF LockInv, Typed, FileTyped, Open, At
<1>2. /\ Beside(p) /\ HandleTyped(p)'
      /\ h'[p].map = file.size /\ h'[p].pc = "mapped" /\ h'[p].ro = h[p].ro
      /\ h'[p].dirty = h[p].dirty /\ h'[p].active = h[p].active
  BY <1>1, StepBeside, BoundFields, CapNat DEF Open, Typed, HandleTyped
<1>3. ASSUME CallInv PROVE HandleOK(p)' /\ Covered(p)' /\ AtStep(p)'
  BY <1>1, <1>2, <1>3 DEF CallInv, Handles, HandleOK, Covered, AtStep, InUse, Opening, Ready, Long
<1>4. Serial => Alone(p) BY <1>1, QuietAlone
<1>5. CallInv => ~h[p].dirty BY <1>1 DEF CallInv, Handles, HandleOK, Opening
<1>6. h'[p].pc \notin InUse BY <1>2 DEF InUse
<1>7. QED BY <1>1, <1>2, <1>3, <1>4, <1>5, <1>6, HandleStep

(* ef_open_readonly_ex: the same, and nothing is lengthened.               *)
LEMMA OpenReadonlyStep ==
  ASSUME NEW p \in Procs, LockInv, OpenReadonly(p)
  PROVE  LockInv' /\ (Serial /\ CallInv => CallInv')
<1>1. /\ h[p].pc = "closed" /\ Quiet(p) /\ Typed
      /\ UNCHANGED <<backend, file, auxVars>> /\ file.size \in Nat
  BY DEF LockInv, Typed, FileTyped, OpenReadonly, At
<1>2. /\ Beside(p) /\ HandleTyped(p)'
      /\ h'[p].map = file.size /\ h'[p].pc = "init" /\ h'[p].ro
      /\ h'[p].dirty = h[p].dirty /\ h'[p].active = h[p].active
  BY <1>1, StepBeside, BoundFields, CapNat DEF OpenReadonly, Typed, HandleTyped, HandleFields
<1>3. ASSUME CallInv PROVE HandleOK(p)' /\ Covered(p)' /\ AtStep(p)'
  BY <1>1, <1>2, <1>3 DEF CallInv, Handles, HandleOK, Covered, AtStep, InUse, Opening, Ready, Long
<1>4. Serial => Alone(p) BY <1>1, QuietAlone
<1>5. CallInv => ~h[p].dirty BY <1>1 DEF CallInv, Handles, HandleOK, Opening
<1>6. h'[p].pc \notin InUse BY <1>2 DEF InUse
<1>7. QED BY <1>1, <1>2, <1>3, <1>4, <1>5, <1>6, HandleStep

(* ef_open_memory_hash of a buffer that has a superblock.                  *)
LEMMA OpenMemoryStep ==
  ASSUME NEW p \in Procs, LockInv, OpenMemory(p)
  PROVE  LockInv' /\ (Serial /\ CallInv => CallInv')
<1>1. /\ h[p].pc = "closed" /\ Quiet(p) /\ Typed /\ backend = "memory"
      /\ UNCHANGED <<backend, file, auxVars>> /\ file.size \in Nat /\ OwnSize(file) \in Nat
  BY SizeNat DEF LockInv, Typed, FileTyped, OpenMemory, At
<1>2. /\ Beside(p) /\ HandleTyped(p)' /\ (h'[p].active => h[p].active)
      /\ \/ h'[p].pc = "closed" /\ h'[p].map = 0 /\ ~h'[p].ro /\ ~h'[p].dirty
         \/ /\ h'[p].pc = "init" /\ h'[p].map = OwnSize(file) /\ OwnSize(file) <= Capacity
            /\ h'[p].ro = h[p].ro /\ h'[p].dirty = h[p].dirty
  <2>1. CASE OwnSize(file) > Capacity BY <1>1, <2>1, RefuseFields DEF OpenMemory
  <2>2. CASE ~(OwnSize(file) > Capacity)
    <3>1. Step(p, Bound(p, OwnSize(file), "init")) BY <2>2 DEF OpenMemory
    <3>2. OwnSize(file) <= Capacity BY <1>1, <2>2, Numbers
    <3>3. QED BY <1>1, <3>1, <3>2, StepBeside, BoundFields, CapNat DEF Typed, HandleTyped
  <2>3. QED BY <2>1, <2>2
<1>3. ASSUME CallInv PROVE HandleOK(p)' /\ Covered(p)' /\ AtStep(p)'
  <2>1. CASE h'[p].pc = "closed"
    BY <1>1, <1>2, <2>1, ClosedOK DEF Typed, FileTyped
  <2>2. CASE h'[p].pc = "init"
    BY <1>1, <1>2, <1>3, <2>2
    DEF CallInv, Handles, HandleOK, Covered, AtStep, InUse, Opening, Ready, Long, Sizes, BufferSizes
  <2>3. QED BY <1>2, <2>1, <2>2
<1>4. Serial => Alone(p) BY <1>1, QuietAlone
<1>5. CallInv => ~h[p].dirty BY <1>1 DEF CallInv, Handles, HandleOK, Opening
<1>6. h'[p].pc \notin InUse BY <1>2 DEF InUse
<1>7. QED BY <1>1, <1>2, <1>3, <1>4, <1>5, <1>6, HandleStep

(* The lengthened file of an older schema is mapped.                       *)
LEMMA MapOldStep ==
  ASSUME NEW p \in Procs, LockInv, MapOld(p)
  PROVE  LockInv' /\ (Serial /\ CallInv => CallInv')
<1>1. /\ h[p].pc = "lengthened" /\ Typed
      /\ UNCHANGED <<backend, file, auxVars>> /\ file.size \in Nat
  BY DEF LockInv, Typed, FileTyped, MapOld, At
<1>2. /\ Beside(p) /\ HandleTyped(p)'
      /\ h'[p].map = file.size /\ h'[p].pc = "init" /\ h'[p].ro = h[p].ro
      /\ h'[p].dirty = h[p].dirty /\ h'[p].active = h[p].active
  BY <1>1, StepBeside, BoundFields, CapNat DEF MapOld, Typed, HandleTyped
<1>3. ASSUME CallInv PROVE HandleOK(p)' /\ Covered(p)' /\ AtStep(p)'
  <2>1. HandleOK(p) /\ Covered(p) BY <1>3 DEF CallInv, Handles
  <2>2. file' = file /\ born' = born /\ backend' = backend BY <1>1 DEF auxVars
  <2>3. QED
    BY <1>1, <1>2, <2>1, <2>2
    DEF HandleOK, Covered, AtStep, InUse, Opening, Ready, Long, Locked4
<1>4. CallInv => Alone(p) BY <1>1, InsideAlone DEF CallInv, Idle
<1>5. CallInv => ~h[p].dirty BY <1>1 DEF CallInv, Handles, HandleOK, Opening
<1>6. h'[p].pc \notin InUse BY <1>2 DEF InUse
<1>7. QED BY <1>1, <1>2, <1>3, <1>4, <1>5, <1>6, HandleStep

(* ftruncate or mmap of the file of an older schema fails.                 *)
LEMMA GrowOldFailsStep ==
  ASSUME NEW p \in Procs, LockInv, GrowOldFails(p)
  PROVE  LockInv' /\ (Serial /\ CallInv => CallInv')
<1>1. /\ h[p].pc \in {"mapped", "lengthened"} /\ Typed
      /\ UNCHANGED <<backend, file, auxVars>>
  BY DEF LockInv, GrowOldFails, At
<1>2. /\ Beside(p) /\ HandleTyped(p)'
      /\ h'[p].pc = "closed" /\ h'[p].map = 0 /\ ~h'[p].ro /\ ~h'[p].dirty /\ ~h'[p].active
  BY <1>1, RefuseFields DEF GrowOldFails
<1>3. HandleOK(p)' /\ Covered(p)' /\ AtStep(p)'
  BY <1>1, <1>2, ClosedOK DEF Typed, FileTyped
<1>4. CallInv => Alone(p) BY <1>1, InsideAlone DEF CallInv, Idle
<1>5. CallInv => ~h[p].dirty BY <1>1 DEF CallInv, Handles, HandleOK, Opening
<1>6. h'[p].pc \notin InUse BY <1>2 DEF InUse
<1>7. QED BY <1>1, <1>2, <1>3, <1>4, <1>5, <1>6, HandleStep

(* The file of an older schema is long enough already.                     *)
LEMMA LongEnoughStep ==
  ASSUME NEW p \in Procs, LockInv, LongEnough(p)
  PROVE  LockInv' /\ (Serial /\ CallInv => CallInv')
<1>1. h[p].pc = "mapped" /\ Typed /\ UNCHANGED <<backend, file, auxVars>>
  BY DEF LockInv, LongEnough, At
<1>2. /\ Beside(p) /\ HandleTyped(p)' /\ SameHandle(p)
      /\ h'[p].pc = "init" /\ h'[p].dirty = h[p].dirty /\ h'[p].active = h[p].active
  BY <1>1, GotoFields DEF LongEnough
<1>3. CallInv => Alone(p) BY <1>1, InsideAlone DEF CallInv, Idle
<1>4. ASSUME CallInv PROVE HandleOK(p)' /\ Covered(p)' /\ AtStep(p)'
  <2>1. HandleOK(p) /\ AtStep(p) BY <1>4 DEF CallInv, Handles
  <2>2. file' = file /\ born' = born BY <1>1 DEF auxVars
  <2>3. file.magic /\ ~Locked4 => file.size >= ExpectedSize(file.slots, born, LogUnits)
    <3>1. CASE file.version < 5
      <4>1. h[p].map >= V5Size(file) BY <3>1 DEF LongEnough, V5
      <4>2. QED BY <1>1, <1>4, <2>1, <4>1, CapBorn DEF CallInv, AtStep, V5Size
    <3>2. CASE ~(file.version < 5)
      <4>1. FileSizes BY <1>1, <1>4, <2>1 DEF CallInv, Sizes, AtStep
      <4>2. QED
        BY <1>1, <3>2, <4>1, Numbers DEF FileSizes, Typed, FileTyped, AuxTyped, ExpectedSize
    <3>3. QED BY <3>1, <3>2
  <2>4. QED
    BY <1>1, <1>2, <2>1, <2>2, <2>3
    DEF HandleOK, Covered, AtStep, InUse, Opening, Ready, Long, SameHandle, Locked4
<1>5. CallInv => ~h[p].dirty BY <1>1 DEF CallInv, Handles, HandleOK, Opening
<1>6. h'[p].pc \notin InUse BY <1>2 DEF InUse
<1>7. QED BY <1>1, <1>2, <1>3, <1>4, <1>5, <1>6, HandleStep

(* ef_validate_superblock leaves only files with the capacity they were    *)
(* created with.                                                           *)
LEMMA ValidateStep ==
  ASSUME NEW p \in Procs, LockInv, Validate(p)
  PROVE  LockInv' /\ (Serial /\ CallInv => CallInv')
<1>1. h[p].pc = "init" /\ Typed /\ UNCHANGED <<backend, file, auxVars>>
  BY DEF LockInv, Validate, At
<1>2. /\ Beside(p) /\ HandleTyped(p)' /\ (h'[p].active => h[p].active)
      /\ \/ h'[p].pc = "closed" /\ h'[p].map = 0 /\ ~h'[p].ro /\ ~h'[p].dirty
         \/ /\ h'[p].pc = (IF h[p].ro THEN "open" ELSE "migrate") /\ Valid(file, h[p].map)
            /\ h'[p].map = h[p].map /\ h'[p].cap = CapOf(file)
            /\ h'[p].ro = h[p].ro /\ h'[p].dirty = h[p].dirty
  <2>1. CASE ~Valid(file, h[p].map) BY <1>1, <2>1, RefuseFields DEF Validate
  <2>2. CASE Valid(file, h[p].map)
    BY <1>1, <2>2, StepBeside, BoundFields, CapNat DEF Validate, Typed, HandleTyped, HandleFields
  <2>3. QED BY <2>1, <2>2
<1>3. ASSUME CallInv PROVE HandleOK(p)' /\ Covered(p)' /\ AtStep(p)'
  <2>1. CASE h'[p].pc = "closed"
    BY <1>1, <1>2, <2>1, ClosedOK DEF Typed, FileTyped
  <2>2. CASE h'[p].pc # "closed"
    <3>1. file.magic /\ ~Locked4 /\ CapOf(file) = born
      BY <1>1, <1>2, <1>3, <2>2, ValidBorn DEF CallInv
    <3>2. HandleOK(p) /\ Covered(p) BY <1>3 DEF CallInv, Handles
    <3>3. file' = file /\ born' = born /\ backend' = backend BY <1>1 DEF auxVars
    <3>4. QED
      BY <1>1, <1>2, <2>2, <3>1, <3>2, <3>3
      DEF HandleOK, Covered, AtStep, InUse, Opening, Ready, Long, Locked4
  <2>3. QED BY <2>1, <2>2
<1>4. CallInv => Alone(p) BY <1>1, InsideAlone DEF CallInv, Idle
<1>5. CallInv => ~h[p].dirty BY <1>1 DEF CallInv, Handles, HandleOK, Opening
<1>6. /\ h'[p].pc \notin {"created", "upgrade"}
      /\ h'[p].pc \in InUse => file.magic
  BY <1>2 DEF InUse, Valid
<1>7. QED BY <1>1, <1>2, <1>3, <1>4, <1>5, <1>6, HandleStep

(* Only the files of the first schemas are without the flag.               *)
LEMMA NoFlagIsOld ==
  ASSUME Typed, CapKept, file.magic, NeedsUpgrade(file)
  PROVE  file.version <= 1
BY DEF Typed, FileTyped, CapKept, NeedsUpgrade, LEGACY, V2, V3, V5

(* ef_upgrade begins.                                                      *)
LEMMA UpgradeStep ==
  ASSUME NEW p \in Procs, LockInv, Upgrade(p)
  PROVE  LockInv' /\ (Serial /\ CallInv => CallInv')
<1>1. /\ h[p].pc = "open" /\ ~h[p].ro /\ Quiet(p) /\ NeedsUpgrade(file) /\ Typed /\ file.magic
      /\ UNCHANGED <<backend, file, auxVars>>
  BY DEF LockInv, Upgrade, Writes, At, MagicUsed, InUse
<1>2. /\ Beside(p) /\ HandleTyped(p)' /\ SameHandle(p)
      /\ h'[p].pc = "upgrade" /\ h'[p].dirty = h[p].dirty /\ h'[p].active = h[p].active
  BY <1>1, GotoFields DEF Upgrade
<1>3. ASSUME CallInv PROVE HandleOK(p)' /\ Covered(p)' /\ AtStep(p)'
  <2>1. HandleOK(p) /\ Covered(p) BY <1>3 DEF CallInv, Handles
  <2>2. file' = file /\ born' = born BY <1>1 DEF auxVars
  <2>3. file.version <= 1 BY <1>1, <1>3, NoFlagIsOld DEF CallInv
  <2>4. QED
    BY <1>1, <1>2, <2>1, <2>2, <2>3
    DEF HandleOK, Covered, AtStep, InUse, Opening, Ready, Long, SameHandle, Locked4
<1>4. Serial => Alone(p) BY <1>1, QuietAlone
<1>5. CallInv => file.version <= 1 BY <1>1, NoFlagIsOld DEF CallInv
<1>6. QED BY <1>1, <1>2, <1>3, <1>4, <1>5, HandleStep

-----------------------------------------------------------------------------
(* Creation.                                                               *)

(* The superblock that ef_init writes.                                     *)
LEMMA NewFields ==
  ASSUME NEW size \in Nat, NEW cap \in Nat, file' = NewFile(size, cap)
  PROVE  /\ FileTyped'
         /\ file'.size = size /\ file'.magic /\ file'.version = 5 /\ file'.slots = InitSlots
         /\ file'.cap = cap /\ file'.b22 = 0 /\ file'.b23 = 0 /\ file'.b24 = 0 /\ file'.crc
         /\ \E f : DOMAIN f = FileFields /\ file' = Stored(f) /\ f.b23 = 0
<1> DEFINE f == [Zeroes(size) EXCEPT !.magic = TRUE, !.version = V5, !.crc = TRUE,
                                     !.slots = InitSlots, !.cap = cap]
<1>1. /\ DOMAIN f = FileFields
      /\ f.size = size /\ f.magic /\ f.version = 5 /\ f.slots = InitSlots /\ f.cap = cap /\ f.crc
      /\ f.b22 = 0 /\ f.b23 = 0 /\ f.b24 = 0 /\ f.b25 = 0
      /\ f.slot = [s \in 1..MaxSlots |-> "none"]
  BY DEF Zeroes, FileFields, V5
<1>2. file' = Stored(f) BY DEF NewFile
<1> HIDE DEF f
<1>3. /\ DOMAIN file' = FileFields
      /\ file'.size = size /\ file'.magic /\ file'.version = 5 /\ file'.slots = InitSlots
      /\ file'.cap = cap /\ file'.b22 = 0 /\ file'.b23 = 0 /\ file'.b24 = 0 /\ file'.b25 = 0
      /\ file'.crc /\ file'.slot = [s \in 1..MaxSlots |-> "none"]
  BY <1>1, <1>2, StoredFields
<1>4. InitSlots \in 0..MaxSlots /\ [s \in 1..MaxSlots |-> "none"] \in [1..MaxSlots -> Places]
  BY Numbers DEF Places
<1>5. FileTyped' BY <1>3, <1>4 DEF FileTyped
<1>6. QED BY <1>1, <1>2, <1>3, <1>5

(* Nobody is in a transaction on a file without its magic.                 *)
LEMMA NobodyActive ==
  ASSUME LockInv, ~file.magic
  PROVE  ~OnV5
BY DEF OnV5

(* ef_port_open_file finds the file empty.                                 *)
LEMMA OpenEmptyStep ==
  ASSUME NEW p \in Procs, LockInv, OpenEmpty(p)
  PROVE  LockInv' /\ (Serial /\ CallInv => CallInv')
<1>1. /\ h[p].pc = "closed" /\ Quiet(p) /\ Typed /\ UNCHANGED <<backend, file, auxVars>>
  BY DEF LockInv, OpenEmpty, At
<1>2. PICK c \in Caps : Step(p, [h[p] EXCEPT !.cap = c, !.pc = "new"])
  BY DEF OpenEmpty
<1>3. c \in Nat BY CapNumbers
<1>4. /\ Beside(p) /\ HandleTyped(p)' /\ h'[p].pc = "new" /\ h'[p].map = h[p].map
      /\ h'[p].ro = h[p].ro /\ h'[p].dirty = h[p].dirty /\ h'[p].active = h[p].active
  <2>1. h'[p] = [h[p] EXCEPT !.cap = c, !.pc = "new"] /\ Beside(p)
    BY <1>1, <1>2, StepBeside
  <2>2. QED BY <1>1, <1>3, <2>1 DEF Typed, HandleTyped, HandleFields
<1>5. ASSUME CallInv PROVE HandleOK(p)' /\ Covered(p)' /\ AtStep(p)'
  <2>1. HandleOK(p) BY <1>5 DEF CallInv, Handles
  <2>2. file' = file /\ born' = born /\ backend' = backend BY <1>1 DEF auxVars
  <2>3. QED
    BY <1>1, <1>4, <2>1, <2>2 DEF HandleOK, Covered, AtStep, InUse, Opening, Ready, Long
<1>6. Serial => Alone(p) BY <1>1, QuietAlone
<1>7. h'[p].pc \notin InUse BY <1>4 DEF InUse
<1>8. QED BY <1>1, <1>4, <1>5, <1>6, <1>7, HandleStep

(* ftruncate of the new file: still empty, if nobody else is in a call.    *)
LEMMA CreateStep ==
  ASSUME NEW p \in Procs, LockInv, SerialInv, Create(p)
  PROVE  LockInv' /\ (Serial /\ CallInv => CallInv')
<1>1. /\ h[p].pc = "new" /\ Typed /\ UNCHANGED <<backend, wrote, born, cut, torn, robbed>>
      /\ file' = [file EXCEPT !.size = NewSize(p)]
      /\ h[p].cap \in Caps /\ file.size = 0 /\ backend = "file"
  BY DEF LockInv, Create, At, auxVars, SerialInv, CheckHolds
<1>2. NewSize(p) \in Nat /\ NewSize(p) > 0
  BY <1>1, CapNumbers, Numbers DEF NewSize, ExpectedSize
<1>3. ~file.magic BY <1>1 DEF LockInv, SizeSet
<1>4. /\ FileTyped' /\ file'.size = NewSize(p)
      /\ SameShape /\ SameLocks /\ SameTxn /\ SameData /\ SameSum
  BY <1>1, <1>2
  DEF Typed, FileTyped, FileFields, SameShape, SameLocks, SameTxn, SameData, SameSum
<1>5. /\ Beside(p) /\ HandleTyped(p)' /\ SameHandle(p)
      /\ h'[p].pc = "created" /\ h'[p].dirty = h[p].dirty /\ h'[p].active = h[p].active
  BY <1>1, GotoFields DEF Create
<1>6. LockInv'
  <2>1. Typed' BY <1>1, <1>4, <1>5, AuxKept, TypedKept DEF Typed
  <2>2. LockOwned' BY <1>1, <1>3, <1>5, NobodyActive, NobodyOwns DEF LockInv
  <2>3. SizeSet' /\ CreatedOnce'
    BY <1>1, <1>2, <1>3, <1>4 DEF SizeSet, CreatedOnce, SameShape
  <2>4. MagicUsed'
    <3>1. h'[p].pc \notin InUse BY <1>5 DEF InUse
    <3>2. QED BY <1>3, <1>5, <3>1, MagicKept DEF LockInv
  <2>5. QED BY <2>1, <2>2, <2>3, <2>4 DEF LockInv
<1>7. ASSUME Serial, CallInv PROVE CallInv'
  <2>1. Alone(p) BY <1>1, <1>7, InsideAlone DEF CallInv, Idle
  <2>2. HandleOK(p) BY <1>7 DEF CallInv, Handles
  <2>3. file'.size >= file.size BY <1>1, <1>2, <1>4
  <2>4. HandleOK(p)' /\ Covered(p)' /\ AtStep(p)'
    <3>1. h'[p].map <= file'.size
      BY <1>1, <1>2, <1>4, <1>5, <2>2 DEF HandleOK, SameHandle, Typed, HandleTyped
    <3>2. NewSize(p)' = NewSize(p) BY <1>5 DEF NewSize, SameHandle
    <3>3. QED
      BY <1>1, <1>4, <1>5, <2>2, <3>1, <3>2
      DEF HandleOK, Covered, AtStep, SameHandle, InUse, Opening, Ready, Long
  <2>5. Sizes' BY <1>1, <1>3, <1>4, <1>5 DEF Sizes, FileSizes, Busy, SameShape
  <2>6. QED
    BY <1>1, <1>4, <1>5, <1>6, <1>7, <2>1, <2>3, <2>4, <2>5, CallKept
<1>8. QED BY <1>6, <1>7

(* ef_db_init_mapped of a new file.                                        *)
LEMMA InitNewStep ==
  ASSUME NEW p \in Procs, LockInv, SerialInv, InitNew(p)
  PROVE  LockInv' /\ (Serial /\ CallInv => CallInv')
<1>1. /\ h[p].pc = "created" /\ Typed /\ UNCHANGED <<backend, wrote, cut, torn, robbed>>
      /\ file.size \in Nat /\ file' = NewFile(file.size, h[p].cap) /\ born' = h[p].cap
      /\ h[p].cap \in Caps
  BY DEF LockInv, Typed, FileTyped, InitNew, At, SerialInv, CheckHolds
<1>2. h[p].cap \in Nat /\ h[p].cap < 65536 /\ NewSize(p) \in Nat
  BY <1>1, CapNumbers, Numbers DEF NewSize, ExpectedSize
<1>3. /\ FileTyped' /\ SameSize /\ file'.magic /\ file'.version = 5 /\ file'.slots = InitSlots
      /\ file'.cap = born' /\ file'.b23 = 0 /\ file'.b24 = 0 /\ file'.crc
  BY <1>1, <1>2, NewFields DEF SameSize
<1>4. PICK f : DOMAIN f = FileFields /\ file' = Stored(f) /\ f.b23 = 0
  BY <1>1, <1>2, NewFields
<1>5. /\ Beside(p) /\ HandleTyped(p)'
      /\ h'[p].pc = "open" /\ h'[p].map = NewSize(p) /\ h'[p].cap = born'
      /\ h'[p].ro = h[p].ro /\ h'[p].dirty = h[p].dirty /\ h'[p].active = h[p].active
  <2>1. h'[p] = [h[p] EXCEPT !.map = NewSize(p), !.pc = "open"] /\ Beside(p)
    BY <1>1, StepBeside DEF InitNew
  <2>2. QED BY <1>1, <1>2, <2>1 DEF Typed, HandleTyped, HandleFields
<1>6. ~file.magic /\ file.size > 0 /\ backend = "file"
  BY <1>1 DEF LockInv, CreatedOnce
<1>7. Alone(p) BY <1>1, InsideAlone DEF SerialInv, Idle
<1>8. LockInv'
  <2>1. AuxTyped' BY <1>1, <1>2 DEF AuxTyped, Typed
  <2>2. Typed' BY <1>1, <1>3, <1>5, <2>1, TypedKept
  <2>3. LockOwned' BY <1>1, <1>5, <1>6, NobodyActive, NobodyOwns DEF LockInv
  <2>4. SizeSet' BY <1>3, <1>6 DEF SizeSet, SameSize
  <2>5. CreatedOnce'
    <3>1. \A q \in Procs : h'[q].pc # "created"
      BY <1>5, <1>7 DEF Alone, Idle, Beside, SameBeside
    <3>2. QED BY <3>1 DEF CreatedOnce
  <2>6. MagicUsed' BY <1>3 DEF MagicUsed
  <2>7. QED BY <2>2, <2>3, <2>4, <2>5, <2>6 DEF LockInv
<1>9. ASSUME Serial, CallInv PROVE CallInv'
  <2>1. OneCall' BY <1>5, <1>7, OneCallKept
  <2>2. CapKept' BY <1>3 DEF CapKept
  <2>3. LockSeen' BY <1>3 DEF LockSeen
  <2>4. HandleOK(p) /\ AtStep(p) /\ Handles BY <1>9 DEF CallInv, Handles
  <2>5. /\ file'.size = ExpectedSize(InitSlots, born', LogUnits)
        /\ h'[p].map = ExpectedSize(InitSlots, born', LogUnits) /\ h'[p].map \in Nat
    BY <1>1, <1>2, <1>3, <1>5, <2>4 DEF AtStep, NewSize, SameSize
  <2>6. HandleOK(p)' /\ Covered(p)' /\ AtStep(p)'
    BY <1>1, <1>3, <1>5, <2>4, <2>5
    DEF HandleOK, Covered, AtStep, InUse, Opening, Ready, Long, Locked4
  <2>7. /\ \A q \in Procs \ {p} : h[q].pc # "open"
        /\ file'.size >= file.size /\ Typed'
    BY <1>1, <1>3, <1>6, <1>8, <2>4 DEF Handles, HandleOK, InUse, LockInv, SameSize
  <2>8. Handles' BY <1>1, <1>5, <1>6, <1>7, <2>4, <2>6, <2>7, HandlesKept
  <2>9. Sizes' BY <1>1, <1>3, <1>6, <2>5 DEF Sizes, FileSizes
  <2>10. Written'
    <3>1. wrote = {} BY <1>6, <1>9 DEF CallInv, Written
    <3>2. QED BY <1>1, <3>1 DEF Written
  <2>11. Summed' BY <1>4, <2>7, SumStored
  <2>12. QED BY <2>1, <2>2, <2>3, <2>8, <2>9, <2>10, <2>11 DEF CallInv
<1>10. QED BY <1>8, <1>9

(* ftruncate fails, or mmap: then the file has a size and no superblock.   *)
LEMMA CreateFailsStep ==
  ASSUME NEW p \in Procs, LockInv, CreateFails(p)
  PROVE  LockInv' /\ (Serial /\ CallInv => CallInv')
<1>1. /\ h[p].pc \in {"new", "created"} /\ Typed /\ cut' = (cut \/ h[p].pc = "created")
      /\ UNCHANGED <<backend, file, wrote, born, torn, robbed>>
  BY DEF LockInv, CreateFails, At
<1>2. /\ Beside(p) /\ HandleTyped(p)'
      /\ h'[p].pc = "closed" /\ h'[p].map = 0 /\ ~h'[p].ro /\ ~h'[p].dirty /\ ~h'[p].active
  BY <1>1, RefuseFields DEF CreateFails
<1>3. FileTyped' /\ AuxTyped' /\ file'.size >= file.size /\ (file.size > 0 => file'.size > 0)
  BY <1>1, FileKept, AuxKept DEF Typed
<1>4. LockInv'
  <2>1. h'[p].pc \notin InUse BY <1>2 DEF InUse
  <2>2. QED BY <1>1, <1>2, <1>3, <2>1, LockKept
<1>5. ASSUME Serial, CallInv PROVE CallInv'
  <2>1. Alone(p) BY <1>1, <1>5, InsideAlone DEF CallInv, Idle
  <2>2. HandleOK(p)' /\ Covered(p)' /\ AtStep(p)' BY <1>2, <1>3, ClosedOK
  <2>3. Sizes' BY <1>1, <1>2, <1>5, <2>1, SizesKept
  <2>4. SameShape /\ SameLocks /\ SameTxn /\ SameData /\ SameSum
    BY <1>1 DEF SameShape, SameLocks, SameTxn, SameData, SameSum
  <2>5. ~h[p].dirty BY <1>1, <1>5 DEF CallInv, Handles, HandleOK, Opening
  <2>6. QED BY <1>1, <1>2, <1>3, <1>4, <1>5, <2>1, <2>2, <2>3, <2>4, <2>5, CallKept
<1>6. QED BY <1>4, <1>5

(* ef_open_memory_hash initializes the buffer.                             *)
LEMMA InitMemoryStep ==
  ASSUME NEW p \in Procs, LockInv, InitMemory(p)
  PROVE  LockInv' /\ (Serial /\ CallInv => CallInv')
<1>1. /\ h[p].pc = "closed" /\ Quiet(p) /\ backend = "memory" /\ ~file.magic /\ Typed
      /\ UNCHANGED <<backend, wrote, cut, torn, robbed>>
  BY DEF LockInv, InitMemory, At
<1>2. PICK c \in Caps :
        /\ file' = NewFile(Capacity, c) /\ born' = c
        /\ Step(p, [h[p] EXCEPT !.map = ExpectedSize(InitSlots, c, LogUnits), !.cap = c,
                                !.pc = "open"])
  BY DEF InitMemory
<1>3. /\ c \in Nat /\ c < 65536 /\ ExpectedSize(InitSlots, c, LogUnits) <= Capacity
      /\ ExpectedSize(InitSlots, c, LogUnits) \in Nat /\ Capacity \in Nat
  BY CapNumbers, Numbers DEF ExpectedSize
<1>4. /\ FileTyped' /\ file'.size = Capacity /\ file'.magic /\ file'.version = 5
      /\ file'.slots = InitSlots /\ file'.cap = c /\ file'.b23 = 0 /\ file'.b24 = 0 /\ file'.crc
  BY <1>2, <1>3, NewFields
<1>5. PICK f : DOMAIN f = FileFields /\ file' = Stored(f) /\ f.b23 = 0
  BY <1>2, <1>3, NewFields
<1>6. /\ Beside(p) /\ HandleTyped(p)'
      /\ h'[p].pc = "open" /\ h'[p].map = ExpectedSize(InitSlots, c, LogUnits) /\ h'[p].cap = c
      /\ h'[p].ro = h[p].ro /\ h'[p].dirty = h[p].dirty /\ h'[p].active = h[p].active
  <2>1. /\ h'[p] = [h[p] EXCEPT !.map = ExpectedSize(InitSlots, c, LogUnits), !.cap = c,
                                !.pc = "open"]
        /\ Beside(p)
    BY <1>1, <1>2, StepBeside
  <2>2. QED BY <1>1, <1>3, <2>1 DEF Typed, HandleTyped, HandleFields
<1>7. LockInv'
  <2>1. AuxTyped' BY <1>1, <1>2, <1>3 DEF AuxTyped, Typed
  <2>2. Typed' BY <1>1, <1>4, <1>6, <2>1, TypedKept
  <2>3. LockOwned' BY <1>1, <1>6, NobodyActive, NobodyOwns DEF LockInv
  <2>4. SizeSet' BY <1>1 DEF SizeSet
  <2>5. \A q \in Procs : h'[q].pc # "created"
    BY <1>1, <1>6 DEF LockInv, CreatedOnce, Beside, SameBeside
  <2>6. MagicUsed' BY <1>4 DEF MagicUsed
  <2>7. QED BY <2>2, <2>3, <2>4, <2>5, <2>6 DEF LockInv, CreatedOnce
<1>8. ASSUME Serial, CallInv PROVE CallInv'
  <2>1. Alone(p) BY <1>1, <1>8, QuietAlone
  <2>2. OneCall' BY <1>6, <2>1, OneCallKept
  <2>3. CapKept' BY <1>2, <1>4 DEF CapKept
  <2>4. LockSeen' BY <1>4 DEF LockSeen
  <2>5. HandleOK(p) /\ Handles /\ file.size = Capacity
    BY <1>1, <1>8 DEF CallInv, Handles, Sizes, BufferSizes
  <2>6. HandleOK(p)' /\ Covered(p)' /\ AtStep(p)'
    BY <1>1, <1>2, <1>3, <1>4, <1>6, <2>5
    DEF HandleOK, Covered, AtStep, InUse, Opening, Ready, Long, Locked4
  <2>7. /\ \A q \in Procs \ {p} : h[q].pc # "open"
        /\ file'.size >= file.size /\ Typed'
    BY <1>1, <1>3, <1>4, <1>7, <2>5 DEF Handles, HandleOK, InUse, LockInv
  <2>8. Handles' BY <1>1, <1>6, <2>1, <2>5, <2>6, <2>7, HandlesKept
  <2>9. Sizes' BY <1>1, <1>2, <1>3, <1>4 DEF Sizes, BufferSizes
  <2>10. Written'
    <3>1. wrote = {} BY <1>1, <1>8 DEF CallInv, Written
    <3>2. QED BY <1>1, <3>1 DEF Written
  <2>11. Summed' BY <1>5, <2>7, SumStored
  <2>12. QED BY <2>2, <2>3, <2>4, <2>8, <2>9, <2>10, <2>11 DEF CallInv
<1>9. QED BY <1>7, <1>8

-----------------------------------------------------------------------------
(* Steps of an open that change the file.                                  *)

(* The file of an older schema is lengthened.                              *)
LEMMA GrowOldStep ==
  ASSUME NEW p \in Procs, LockInv, GrowOld(p)
  PROVE  LockInv' /\ (Serial /\ CallInv => CallInv')
<1>1. /\ h[p].pc = "mapped" /\ file.version < 5 /\ h[p].map < V5Size(file) /\ Typed
      /\ UNCHANGED <<backend, wrote, born, cut, torn, robbed>>
      /\ file' = [file EXCEPT !.size = V5Size(file)]
  BY DEF LockInv, GrowOld, At, auxVars, V5
<1>2. V5Size(file) \in Nat /\ V5Size(file) > 0
      /\ V5Size(file) = 1 + CapOf(file) + file.slots + LogUnits
  BY <1>1, SizeNat, CapNat, Numbers DEF Typed, FileTyped
<1>3. /\ FileTyped' /\ file'.size = V5Size(file)
      /\ SameShape /\ SameLocks /\ SameTxn /\ SameData /\ SameSum
  BY <1>1, <1>2
  DEF Typed, FileTyped, FileFields, SameShape, SameLocks, SameTxn, SameData, SameSum
<1>4. /\ Beside(p) /\ HandleTyped(p)' /\ SameHandle(p)
      /\ h'[p].pc = "lengthened" /\ h'[p].dirty = h[p].dirty /\ h'[p].active = h[p].active
  BY <1>1, GotoFields DEF GrowOld
<1>5. LockInv'
  <2>1. AuxTyped' BY <1>1, AuxKept DEF Typed
  <2>2. h'[p].pc \notin InUse BY <1>4 DEF InUse
  <2>3. QED BY <1>1, <1>2, <1>3, <1>4, <2>1, <2>2, LockKept DEF SameShape, SameTxn
<1>6. ASSUME Serial, CallInv PROVE CallInv'
  <2>1. Alone(p) BY <1>1, <1>6, InsideAlone DEF CallInv, Idle
  <2>2. HandleOK(p) /\ AtStep(p) /\ HandleTyped(p) BY <1>1, <1>6 DEF CallInv, Handles, Typed
  <2>3. /\ h[p].map = file.size /\ backend = "file" /\ file'.size >= file.size /\ file.size > 0
        /\ Locked4' <=> Locked4
    BY <1>1, <1>2, <1>3, <2>2 DEF AtStep, HandleTyped, Locked4, SameShape, SameLocks
  <2>4. file.magic /\ ~Locked4 => file'.size = ExpectedSize(file.slots, born, LogUnits)
    BY <1>1, <1>2, <1>3, <1>6, CapBorn DEF CallInv, Typed, ExpectedSize
  <2>5. ExpectedSize(file.slots, born, LogUnits) \in Nat
    BY <1>1, Numbers DEF Typed, FileTyped, AuxTyped, ExpectedSize
  <2>6. Covered(p)'
    BY <1>1, <1>3, <1>4, <2>3, <2>4, <2>5 DEF Covered, Ready, Long, InUse, SameShape
  <2>7. HandleOK(p)' /\ Covered(p)' /\ AtStep(p)'
    BY <1>1, <1>2, <1>3, <1>4, <2>2, <2>3, <2>6
    DEF HandleOK, AtStep, SameHandle, InUse, Opening, FileTyped, HandleTyped
  <2>8. Sizes'
    <3>1. ~file.magic => cut
      BY <1>1, <1>2, <1>4, <1>6, <2>1, <2>2, <2>3, BusyStep
      DEF CallInv, Sizes, FileSizes, HandleTyped, LockInv, CreatedOnce
    <3>2. FileSizes' BY <1>1, <1>3, <2>4, <3>1 DEF FileSizes, SameShape, SameLocks, Locked4
    <3>3. QED BY <1>1, <2>3, <3>2 DEF Sizes
  <2>9. QED BY <1>1, <1>3, <1>4, <1>5, <1>6, <2>1, <2>3, <2>7, <2>8, CallKept
<1>7. QED BY <1>5, <1>6

(* The checks of the version.                                              *)
LEMMA NeedsMigrationStep ==
  ASSUME NEW p \in Procs, LockInv, NeedsMigration(p)
  PROVE  LockInv' /\ (Serial /\ CallInv => CallInv')
<1> DEFINE label == IF file.version = V4 THEN "v4" ELSE "v3"
<1>1. /\ h[p].pc = "migrate" /\ Typed /\ file.magic /\ UNCHANGED <<backend, file, auxVars>>
      /\ Goto(p, label)
  BY DEF LockInv, NeedsMigration, At, MagicUsed, InUse
<1>2. label \in {"v3", "v4"} OBVIOUS
<1> HIDE DEF label
<1>3. /\ Beside(p) /\ HandleTyped(p)' /\ SameHandle(p) /\ h'[p].pc = label
      /\ h'[p].dirty = h[p].dirty /\ h'[p].active = h[p].active
  BY <1>1, GotoFields
<1>4. ASSUME CallInv PROVE HandleOK(p)' /\ Covered(p)' /\ AtStep(p)'
  <2>1. HandleOK(p) /\ Covered(p) BY <1>4 DEF CallInv, Handles
  <2>2. file' = file /\ born' = born /\ backend' = backend BY <1>1 DEF auxVars
  <2>3. QED
    BY <1>1, <1>2, <1>3, <2>1, <2>2
    DEF HandleOK, Covered, AtStep, InUse, Opening, Ready, Long, SameHandle, Locked4
<1>5. CallInv => Alone(p) BY <1>1, InsideAlone DEF CallInv, Idle
<1>6. QED BY <1>1, <1>2, <1>3, <1>4, <1>5, HandleStep

(* The two migrations keep the capacity.                                   *)
LEMMA MigrateV3Step ==
  ASSUME NEW p \in Procs, LockInv, SerialInv, MigrateV3(p)
  PROVE  LockInv' /\ (Serial /\ CallInv => CallInv')
<1>1. /\ h[p].pc = "v3" /\ file.version = 3 /\ Typed
      /\ UNCHANGED <<backend, wrote, born, cut, torn, robbed>>
      /\ file' = MigratedV3(file)
  BY DEF LockInv, MigrateV3, At, auxVars, SerialInv, CheckHolds
<1>2. /\ FileTyped' /\ SameSize /\ SameData /\ SameSum
      /\ file'.magic = file.magic /\ file'.version = 4 /\ file'.crc = file.crc
      /\ file'.slots = file.slots /\ file'.cap = file.cap
      /\ file'.b22 = (IF file.b24 # 0 THEN 1 ELSE 0) /\ file'.b23 = 0
  BY <1>1 DEF Typed, FileTyped, FileFields, MigratedV3, SameSize, SameData, SameSum, V4
<1>3. CapOf(file') \in Nat BY <1>2, CapNatural DEF FileTyped
<1>4. /\ Beside(p) /\ HandleTyped(p)'
      /\ h'[p].pc = "migrate" /\ h'[p].cap = CapOf(file') /\ h'[p].map = h[p].map
      /\ h'[p].ro = h[p].ro /\ h'[p].active = h[p].active /\ h'[p].stale = h[p].stale
      /\ file.crc => h'[p].dirty
  <2> DEFINE hd == [h[p] EXCEPT !.cap = CapOf(file'), !.pc = "migrate"]
  <2>1. /\ DOMAIN hd = HandleFields /\ hd.cap = CapOf(file') /\ hd.pc = "migrate"
        /\ hd.map = h[p].map /\ hd.ro = h[p].ro /\ hd.active = h[p].active
        /\ hd.max = h[p].max /\ hd.stale = h[p].stale /\ hd.dirty = h[p].dirty
    BY <1>1 DEF Typed, HandleTyped, HandleFields
  <2>2. Step(p, Marked(hd, file)) BY <1>1 DEF MigrateV3
  <2> HIDE DEF hd
  <2>3. QED
    BY <1>1, <1>3, <2>1, <2>2, StepBeside, MarkedFields DEF Typed, HandleTyped
<1>5. LockInv'
  <2>1. Typed' BY <1>1, <1>2, <1>4, AuxKept, TypedKept DEF Typed
  <2>2. LockOwned' BY <1>1, <1>4, NobodyOwns DEF LockInv, OnV5
  <2>3. SizeSet' /\ CreatedOnce'
    BY <1>1, <1>2, <1>4, CreatedKept DEF LockInv, SameSize, Typed, FileTyped
  <2>4. MagicUsed' BY <1>1, <1>2, <1>4, MagicKept DEF LockInv, MagicUsed, InUse
  <2>5. QED BY <2>1, <2>2, <2>3, <2>4 DEF LockInv
<1>6. ASSUME Serial, CallInv PROVE CallInv'
  <2>1. Alone(p) BY <1>1, <1>6, InsideAlone DEF CallInv, Idle
  <2>2. OneCall' BY <1>4, <2>1, OneCallKept
  <2>3. HandleOK(p) /\ Covered(p) /\ HandleTyped(p) /\ Handles
    BY <1>1, <1>6 DEF CallInv, Handles, Typed
  <2>4. file.magic /\ file.crc /\ file.cap = born /\ file.b24 = 0
    BY <1>1, <1>6, <2>3 DEF HandleOK, InUse, CallInv, CapKept
  <2>5. CapKept' BY <1>1, <1>2, <2>4 DEF CapKept
  <2>6. LockSeen' BY <1>2 DEF LockSeen
  <2>7. ~Locked4' BY <1>2 DEF Locked4
  <2>8. ~Locked4 BY <1>1 DEF Locked4
  <2>9. CapOf(file') = born
    BY <1>1, <1>2, <2>4 DEF CapOf, V3, V4, V5, Typed, FileTyped
  <2>10. HandleOK(p)' /\ Covered(p)' /\ AtStep(p)'
    BY <1>1, <1>2, <1>4, <2>3, <2>4, <2>7, <2>8, <2>9
    DEF HandleOK, Covered, AtStep, InUse, Opening, Ready, Long, SameSize
  <2>11. file'.size >= file.size /\ Typed'
    BY <1>1, <1>2, <1>5 DEF SameSize, Typed, FileTyped, LockInv
  <2>12. Handles'
    BY <1>1, <1>2, <1>4, <2>1, <2>3, <2>4, <2>7, <2>10, <2>11, HandlesKept
  <2>13. Sizes'
    <3>1. CASE backend = "file"
      <4>1. FileSizes'
        BY <1>1, <1>2, <1>4, <1>6, <2>1, <2>4, <2>8, <3>1, BusyStep
        DEF CallInv, Sizes, FileSizes, SameSize
      <4>2. QED BY <1>1, <3>1, <4>1 DEF Sizes
    <3>2. CASE backend # "file"
      BY <1>1, <1>2, <1>6, <2>4, <2>8, <3>2 DEF CallInv, Sizes, BufferSizes, SameSize
    <3>3. QED BY <3>1, <3>2
  <2>14. Written'
    BY <1>1, <1>2, <1>4, <1>6, <2>1, BusyStep DEF CallInv, Written, Place, LEGACY, SameData
  <2>15. Summed' BY <1>2, <1>4, SumMarked
  <2>16. QED BY <2>2, <2>5, <2>6, <2>12, <2>13, <2>14, <2>15 DEF CallInv
<1>7. QED BY <1>5, <1>6

(* The migration of version 4, where the transaction lock and the log      *)
(* were not there yet.                                                     *)
LEMMA MigrateV4Step ==
  ASSUME NEW p \in Procs, LockInv, SerialInv, MigrateV4(p)
  PROVE  LockInv' /\ (Serial /\ CallInv => CallInv')
<1>1. /\ h[p].pc = "v4" /\ file.version = 4 /\ Typed
      /\ UNCHANGED <<backend, wrote, born, cut, torn, robbed>>
      /\ file' = MigratedV4(file)
  BY DEF LockInv, MigrateV4, At, auxVars, SerialInv, CheckHolds
<1>2. /\ FileTyped' /\ SameSize /\ SameData /\ SameSum /\ SameLocks
      /\ file'.magic = file.magic /\ file'.version = 5 /\ file'.crc = file.crc
      /\ file'.slots = file.slots /\ file'.cap = file.cap
  BY <1>1 DEF Typed, FileTyped, FileFields, MigratedV4, SameSize, SameData, SameSum, SameLocks, V5
<1>3. /\ Beside(p) /\ HandleTyped(p)' /\ SameHandle(p)
      /\ h'[p].pc = "migrate" /\ h'[p].active = h[p].active
      /\ file.crc => h'[p].dirty
  <2> DEFINE hd == [h[p] EXCEPT !.pc = "migrate"]
  <2>1. /\ DOMAIN hd = HandleFields /\ hd.cap = h[p].cap /\ hd.pc = "migrate"
        /\ hd.map = h[p].map /\ hd.ro = h[p].ro /\ hd.active = h[p].active
        /\ hd.max = h[p].max /\ hd.stale = h[p].stale /\ hd.dirty = h[p].dirty
    BY <1>1 DEF Typed, HandleTyped, HandleFields
  <2>2. Step(p, Marked(hd, file)) BY DEF MigrateV4
  <2> HIDE DEF hd
  <2>3. QED
    BY <1>1, <2>1, <2>2, StepBeside, MarkedFields DEF Typed, HandleTyped, SameHandle
<1>4. LockInv'
  <2>1. Typed' BY <1>1, <1>2, <1>3, AuxKept, TypedKept DEF Typed
  <2>2. LockOwned' BY <1>1, <1>3, NobodyOwns DEF LockInv, OnV5
  <2>3. SizeSet' /\ CreatedOnce'
    BY <1>1, <1>2, <1>3, CreatedKept DEF LockInv, SameSize, Typed, FileTyped
  <2>4. MagicUsed' BY <1>1, <1>2, <1>3, MagicKept DEF LockInv, MagicUsed, InUse
  <2>5. QED BY <2>1, <2>2, <2>3, <2>4 DEF LockInv
<1>5. ASSUME Serial, CallInv PROVE CallInv'
  <2>1. Alone(p) BY <1>1, <1>5, InsideAlone DEF CallInv, Idle
  <2>2. OneCall' BY <1>3, <2>1, OneCallKept
  <2>3. HandleOK(p) /\ Covered(p) /\ HandleTyped(p) /\ Handles
    BY <1>1, <1>5 DEF CallInv, Handles, Typed
  <2>4. file.magic /\ file.crc /\ ~Locked4 /\ file.cap = born
    BY <1>1, <1>5, <2>3 DEF HandleOK, InUse, CallInv, CapKept
  <2>5. CapKept' BY <1>1, <1>2, <2>4 DEF CapKept
  <2>6. LockSeen'
    BY <1>1, <1>2, <1>3, <1>5, <2>1, BusyStep DEF CallInv, LockSeen, SameLocks
  <2>7. ~Locked4' BY <1>2 DEF Locked4
  <2>8. HandleOK(p)' /\ Covered(p)' /\ AtStep(p)'
    BY <1>1, <1>2, <1>3, <2>3, <2>4, <2>7
    DEF HandleOK, Covered, AtStep, InUse, Opening, Ready, Long, SameSize, SameHandle
  <2>9. file'.size >= file.size /\ Typed'
    BY <1>1, <1>2, <1>4 DEF SameSize, Typed, FileTyped, LockInv
  <2>10. Handles'
    BY <1>1, <1>2, <1>3, <2>1, <2>3, <2>4, <2>7, <2>8, <2>9, HandlesKept
  <2>11. Sizes'
    <3>1. CASE backend = "file"
      <4>1. file.size # ExpectedSize(file.slots, born, 0)
        BY <1>1, <2>3, <2>4, <3>1, Numbers
        DEF Covered, Long, InUse, HandleOK, ExpectedSize, Typed, FileTyped, AuxTyped
      <4>2. FileSizes'
        BY <1>1, <1>2, <1>3, <1>5, <2>1, <2>4, <3>1, <4>1, BusyStep
        DEF CallInv, Sizes, FileSizes, SameSize
      <4>3. QED BY <1>1, <3>1, <4>2 DEF Sizes
    <3>2. CASE backend # "file"
      BY <1>1, <1>2, <1>5, <2>4, <3>2 DEF CallInv, Sizes, BufferSizes, SameSize
    <3>3. QED BY <3>1, <3>2
  <2>12. Written'
    BY <1>1, <1>2, <1>3, <1>5, <2>1, BusyStep DEF CallInv, Written, Place, LEGACY, SameData
  <2>13. Summed' BY <1>2, <1>3, SumMarked
  <2>14. QED BY <2>2, <2>5, <2>6, <2>10, <2>11, <2>12, <2>13 DEF CallInv
<1>6. QED BY <1>4, <1>5

-----------------------------------------------------------------------------
(* Steps that change the bytes of the superblock, not its layout.          *)

(* Steps that keep the layout, the lock bytes and the size keep CallInv,   *)
(* if the step's own handle and the checksum are right.                    *)
LEMMA ShapeKept ==
  ASSUME NEW p \in Procs, LockInv, LockInv', CallInv, Alone(p), Beside(p),
         SameShape, SameSize, file'.b22 = file.b22, UNCHANGED <<backend, born>>, cut => cut',
         file.version < 5 => file'.b23 = file.b23 /\ file'.b24 = file.b24,
         file'.b23 = 1 => cut' \/ h'[p].pc = "index",
         h[p].pc \notin {"grown", "created"},
         HandleOK(p)', Covered(p)', AtStep(p)', Written', Summed'
  PROVE  CallInv'
<1>1. OneCall' BY OneCallKept
<1>2. CapKept' BY DEF CallInv, CapKept, SameShape
<1>3. LockSeen' BY BusyStep DEF LockSeen
<1>4. Locked4' <=> Locked4 BY DEF Locked4, SameShape
<1>5. file'.size >= file.size BY DEF SameSize, LockInv, Typed, FileTyped
<1>6. Handles' BY <1>4, <1>5, HandlesKept DEF CallInv, LockInv, SameShape
<1>7. Sizes'
  <2>1. CASE backend = "file"
    <3>1. FileSizes'
      BY <1>4, <2>1, BusyStep DEF CallInv, Sizes, FileSizes, SameShape, SameSize
    <3>2. QED BY <2>1, <3>1 DEF Sizes
  <2>2. CASE backend # "file"
    BY <1>4, <2>2 DEF CallInv, Sizes, BufferSizes, SameShape, SameSize
  <2>3. QED BY <2>1, <2>2
<1>8. QED BY <1>1, <1>2, <1>3, <1>6, <1>7 DEF CallInv

(* Steps that store no payload lose none.                                  *)
LEMMA WrittenKept ==
  ASSUME NEW p \in Procs, CallInv, Alone(p), Beside(p), SameShape, SameData,
         UNCHANGED <<wrote, torn>>, h[p].pc # "upgrade", h'[p].pc # "upgrade"
  PROVE  Written'
<1>1. file'.slots = file.slots /\ file'.magic = file.magic /\ file'.version = file.version
      /\ file'.slot = file.slot /\ ~Busy("upgrade") /\ ~Busy("upgrade")'
  BY BusyStep DEF SameShape, SameData
<1>2. QED BY <1>1 DEF CallInv, Written

(* The handle of a call that leaves the layout alone.                      *)
LEMMA ReadyKept ==
  ASSUME NEW p \in Procs, CallInv, h[p].pc \in {"open", "index"}, ~h[p].ro, SameHandle(p),
         h'[p].pc \in {"open", "index"}, SameShape, SameSize, UNCHANGED <<backend, born>>,
         file.version < 5 => file'.b23 = file.b23, h'[p].pc = "index" => file.version = 5
  PROVE  HandleOK(p)' /\ Covered(p)' /\ AtStep(p)'
<1>1. HandleOK(p) /\ Covered(p) BY DEF CallInv, Handles
<1>2. Locked4' <=> Locked4 BY DEF Locked4, SameShape
<1>3. file'.slots = file.slots /\ file'.size = file.size /\ file'.magic = file.magic
  BY DEF SameShape, SameSize
<1>4. HandleOK(p)' BY <1>1, <1>2, <1>3 DEF HandleOK, SameHandle, InUse, Opening
<1>5. Covered(p)' BY <1>1, <1>2, <1>3 DEF Covered, SameHandle, Ready, Long, InUse
<1>6. AtStep(p)' BY DEF AtStep, SameShape
<1>7. QED BY <1>4, <1>5, <1>6

(* A process that holds no index lock sees it free, unless one has died.   *)
LEMMA IndexFree ==
  ASSUME NEW p \in Procs, Typed, CallInv, Alone(p), h[p].pc # "index"
  PROVE  file.b23 = 0 \/ cut
<1>1. ~Busy("index") BY DEF Alone, Busy, Idle
<1>2. QED BY <1>1 DEF CallInv, LockSeen, Typed, FileTyped

(* What a call that writes starts from.                                    *)
LEMMA WritesFrom ==
  ASSUME NEW p \in Procs, LockInv, Writes(p)
  PROVE  h[p].pc = "open" /\ ~h[p].ro /\ Typed /\ (Serial => Alone(p))
BY QuietAlone DEF Writes, At, LockInv

(* ef_txn_begin: the lock byte and the flag of the handle.                 *)
LEMMA BeginStep ==
  ASSUME NEW p \in Procs, LockInv, Begin(p)
  PROVE  LockInv' /\ (Serial /\ CallInv => CallInv')
<1>1. /\ h[p].pc = "open" /\ ~h[p].ro /\ Typed /\ (Serial => Alone(p))
      /\ UNCHANGED <<backend, wrote, born, cut, torn, robbed>>
      /\ file.version = 5 /\ file.b24 = 0
  BY WritesFrom DEF Begin, auxVars, V5, Typed, FileTyped
<1>2. /\ FileTyped' /\ SameShape /\ SameLocks /\ SameData /\ SameSize
      /\ file'.b24 = 1
  BY <1>1
  DEF Begin, Typed, FileTyped, FileFields, SameShape, SameLocks, SameData, SameSize, ACTIVE
<1>3. /\ Beside(p) /\ HandleTyped(p)' /\ SameHandle(p)
      /\ h'[p].pc = "open" /\ (file.crc => h'[p].dirty)
  <2> DEFINE hd == [h[p] EXCEPT !.active = TRUE]
  <2>1. /\ DOMAIN hd = HandleFields /\ hd.cap = h[p].cap /\ hd.pc = h[p].pc
        /\ hd.map = h[p].map /\ hd.ro = h[p].ro
        /\ hd.max = h[p].max /\ hd.stale = h[p].stale /\ hd.dirty = h[p].dirty
    BY <1>1 DEF Typed, HandleTyped, HandleFields
  <2>2. Step(p, Marked(hd, file)) BY DEF Begin
  <2> HIDE DEF hd
  <2>3. QED
    BY <1>1, <2>1, <2>2, StepBeside, MarkedFields DEF Typed, HandleTyped, SameHandle
<1>4. LockInv'
  <2>1. Typed' BY <1>1, <1>2, <1>3, AuxKept, TypedKept DEF Typed
  <2>2. LockOwned'
    <3>1. file.magic BY <1>1 DEF LockInv, MagicUsed, InUse
    <3>2. ASSUME ~robbed', NEW q \in Procs, h'[q].active PROVE q = p
      <4>1. CASE q # p
        <5>1. h[q].active BY <1>3, <3>2, <4>1 DEF Beside, SameBeside
        <5>2. file.b24 = 1 BY <1>1, <3>2, <5>1 DEF LockInv, LockOwned, OnV5
        <5>3. QED BY <1>1, <5>2
      <4>2. QED BY <4>1
    <3>3. QED BY <1>1, <1>2, <3>1, <3>2 DEF LockOwned, OnV5, SameShape
  <2>3. SizeSet' /\ CreatedOnce'
    BY <1>1, <1>2, <1>3, CreatedKept DEF LockInv, SameShape, SameSize, FileTyped
  <2>4. MagicUsed' BY <1>1, <1>2, <1>3, MagicKept DEF LockInv, MagicUsed, InUse, SameShape
  <2>5. QED BY <2>1, <2>2, <2>3, <2>4 DEF LockInv
<1>5. ASSUME Serial, CallInv PROVE CallInv'
  <2>1. Alone(p) BY <1>1, <1>5
  <2>2. HandleOK(p)' /\ Covered(p)' /\ AtStep(p)'
    BY <1>1, <1>2, <1>3, <1>5, ReadyKept DEF SameLocks
  <2>3. Written' BY <1>1, <1>2, <1>3, <1>5, <2>1, WrittenKept
  <2>4. Summed' BY <1>2, <1>3, SumMarked DEF SameShape
  <2>5. file'.b23 = 1 => cut' BY <1>1, <1>2, <1>5, <2>1, IndexFree DEF SameLocks
  <2>6. QED
    BY <1>1, <1>2, <1>3, <1>4, <1>5, <2>1, <2>2, <2>3, <2>4, <2>5, ShapeKept DEF SameLocks
<1>6. QED BY <1>4, <1>5

(* ef_txn_commit and ef_txn_abort.                                         *)
LEMMA EndStep ==
  ASSUME NEW p \in Procs, LockInv, End(p)
  PROVE  LockInv' /\ (Serial /\ CallInv => CallInv')
<1>1. /\ h[p].pc = "open" /\ ~h[p].ro /\ Typed /\ (Serial => Alone(p)) /\ h[p].active
      /\ UNCHANGED <<backend, wrote, born, cut, torn, robbed>>
  BY WritesFrom DEF End, auxVars
<1>2. file.magic /\ file.version = 5 BY <1>1 DEF LockInv, LockOwned, OnV5
<1>3. FileTyped' /\ SameShape /\ SameLocks /\ SameData /\ SameSize
  BY <1>1 DEF End, Typed, FileTyped, FileFields, SameShape, SameLocks, SameData, SameSize
<1>4. /\ Beside(p) /\ HandleTyped(p)' /\ SameHandle(p)
      /\ h'[p].pc = "open" /\ ~h'[p].active /\ (file.crc => h'[p].dirty)
  <2> DEFINE hd == [h[p] EXCEPT !.active = FALSE]
  <2>1. /\ DOMAIN hd = HandleFields /\ hd.cap = h[p].cap /\ hd.pc = h[p].pc
        /\ hd.map = h[p].map /\ hd.ro = h[p].ro /\ ~hd.active
        /\ hd.max = h[p].max /\ hd.stale = h[p].stale /\ hd.dirty = h[p].dirty
    BY <1>1 DEF Typed, HandleTyped, HandleFields
  <2>2. Step(p, Marked(hd, file)) BY DEF End
  <2> HIDE DEF hd
  <2>3. QED
    BY <1>1, <2>1, <2>2, StepBeside, MarkedFields DEF Typed, HandleTyped, SameHandle
<1>5. LockInv'
  <2>1. Typed' BY <1>1, <1>3, <1>4, AuxKept, TypedKept DEF Typed
  <2>2. LockOwned'
    <3>1. OnV5' BY <1>2, <1>3 DEF OnV5, SameShape
    <3>2. ASSUME ~robbed', NEW q \in Procs, h'[q].active PROVE FALSE
      <4>1. q # p /\ h[q].active BY <1>4, <3>2 DEF Beside, SameBeside
      <4>2. QED BY <1>1, <3>2, <4>1 DEF LockInv, LockOwned
    <3>3. QED BY <3>1, <3>2 DEF LockOwned
  <2>3. SizeSet' /\ CreatedOnce'
    BY <1>1, <1>3, <1>4, CreatedKept DEF LockInv, SameShape, SameSize, FileTyped
  <2>4. MagicUsed' BY <1>1, <1>3, <1>4, MagicKept DEF LockInv, MagicUsed, InUse, SameShape
  <2>5. QED BY <2>1, <2>2, <2>3, <2>4 DEF LockInv
<1>6. ASSUME Serial, CallInv PROVE CallInv'
  <2>1. Alone(p) BY <1>1, <1>6
  <2>2. HandleOK(p)' /\ Covered(p)' /\ AtStep(p)'
    BY <1>1, <1>3, <1>4, <1>6, ReadyKept DEF SameLocks
  <2>3. Written' BY <1>1, <1>3, <1>4, <1>6, <2>1, WrittenKept
  <2>4. Summed' BY <1>3, <1>4, SumMarked DEF SameShape
  <2>5. file'.b23 = 1 => cut' BY <1>1, <1>3, <1>6, <2>1, IndexFree DEF SameLocks
  <2>6. QED
    BY <1>1, <1>2, <1>3, <1>4, <1>5, <1>6, <2>1, <2>2, <2>3, <2>4, <2>5, ShapeKept DEF SameLocks
<1>7. QED BY <1>5, <1>6

(* A slot is allocated and its payload written.                            *)
LEMMA WriteStep ==
  ASSUME NEW p \in Procs, NEW s \in 1..MaxSlots, LockInv, Write(p, s)
  PROVE  LockInv' /\ (Serial /\ CallInv => CallInv')
<1>1. /\ h[p].pc = "open" /\ ~h[p].ro /\ Typed /\ (Serial => Alone(p))
      /\ UNCHANGED <<backend, born, cut, torn, robbed>> /\ wrote' = wrote \cup {s}
      /\ s <= file.slots
  BY WritesFrom DEF Write
<1>2. /\ FileTyped' /\ SameShape /\ SameLocks /\ SameTxn /\ SameSize
      /\ file'.slot = [file.slot EXCEPT ![s] = Place(file.version)]
  BY <1>1
  DEF Write, Typed, FileTyped, FileFields, SameShape, SameLocks, SameTxn, SameSize, Place, Places
<1>3. /\ Beside(p) /\ HandleTyped(p)' /\ SameHandle(p)
      /\ h'[p].pc = "open" /\ h'[p].active = h[p].active /\ (file.crc => h'[p].dirty)
  BY <1>1, StepBeside, MarkedFields DEF Write, Typed, HandleTyped, SameHandle
<1>4. LockInv'
  <2>1. AuxTyped' BY <1>1, AuxKept DEF Typed
  <2>2. file.magic BY <1>1 DEF LockInv, MagicUsed, InUse
  <2>3. QED
    BY <1>1, <1>2, <1>3, <2>1, <2>2, LockKept DEF SameShape, SameTxn, SameSize
<1>5. ASSUME Serial, CallInv PROVE CallInv'
  <2>1. Alone(p) BY <1>1, <1>5
  <2>2. HandleOK(p)' /\ Covered(p)' /\ AtStep(p)'
    BY <1>1, <1>2, <1>3, <1>5, ReadyKept DEF SameLocks
  <2>3. Written'
    <3>1. file'.slots = file.slots /\ file'.magic = file.magic /\ file'.version = file.version
          /\ ~Busy("upgrade") /\ ~Busy("upgrade")' /\ file.magic /\ s \in 1..file.slots
      BY <1>1, <1>2, <1>3, <1>4, <2>1, BusyStep
      DEF SameShape, LockInv, MagicUsed, InUse, Typed, FileTyped
    <3>2. /\ file'.slot[s] = Place(file.version)
          /\ \A r \in 1..MaxSlots : r # s => file'.slot[r] = file.slot[r]
      BY <1>1, <1>2 DEF Typed, FileTyped
    <3>3. wrote \subseteq 1..file.slots /\ file.slots <= MaxSlots /\ file.slots \in Nat
      BY <1>1, <1>5 DEF CallInv, Written, Typed, FileTyped
    <3>4. wrote' \subseteq 1..file'.slots BY <1>1, <3>1, <3>3
    <3>5. ASSUME ~torn', NEW r \in wrote' PROVE file'.slot[r] = Place(file'.version)
      <4>1. CASE r = s BY <3>1, <3>2, <4>1
      <4>2. CASE r # s
        <5>1. r \in wrote /\ r \in 1..MaxSlots BY <1>1, <3>3, <3>5, <4>2, Numbers
        <5>2. file.slot[r] = Place(file.version)
          BY <1>1, <1>5, <3>1, <3>5, <5>1 DEF CallInv, Written
        <5>3. QED BY <3>1, <3>2, <4>2, <5>1, <5>2
      <4>3. QED BY <4>1, <4>2
    <3>6. QED BY <3>1, <3>4, <3>5 DEF Written
  <2>4. Summed' BY <1>2, <1>3, SumMarked DEF SameShape
  <2>5. file'.b23 = 1 => cut' BY <1>1, <1>2, <1>5, <2>1, IndexFree DEF SameLocks
  <2>6. QED
    BY <1>1, <1>2, <1>3, <1>4, <1>5, <2>1, <2>2, <2>3, <2>4, <2>5, ShapeKept
    DEF SameLocks, SameTxn
<1>6. QED BY <1>4, <1>5

(* The index lock of schema 5.                                             *)
LEMMA IndexEnterStep ==
  ASSUME NEW p \in Procs, LockInv, IndexEnter(p)
  PROVE  LockInv' /\ (Serial /\ CallInv => CallInv')
<1>1. /\ h[p].pc = "open" /\ ~h[p].ro /\ Typed /\ (Serial => Alone(p))
      /\ UNCHANGED <<backend, wrote, born, cut, torn, robbed>> /\ file.version = 5
  BY WritesFrom DEF IndexEnter, auxVars, V5, Typed, FileTyped
<1>2. /\ FileTyped' /\ SameShape /\ SameTxn /\ SameData /\ SameSum /\ SameSize
      /\ file'.b22 = file.b22
  BY <1>1
  DEF IndexEnter, Typed, FileTyped, FileFields, SameShape, SameTxn, SameData, SameSum, SameSize
<1>3. /\ Beside(p) /\ HandleTyped(p)' /\ SameHandle(p)
      /\ h'[p].pc = "index" /\ h'[p].dirty = h[p].dirty /\ h'[p].active = h[p].active
  BY <1>1, GotoFields DEF IndexEnter
<1>4. LockInv'
  <2>1. AuxTyped' BY <1>1, AuxKept DEF Typed
  <2>2. file.magic BY <1>1 DEF LockInv, MagicUsed, InUse
  <2>3. QED
    BY <1>1, <1>2, <1>3, <2>1, <2>2, LockKept DEF SameShape, SameTxn, SameSize
<1>5. ASSUME Serial, CallInv PROVE CallInv'
  <2>1. Alone(p) BY <1>1, <1>5
  <2>2. HandleOK(p)' /\ Covered(p)' /\ AtStep(p)'
    BY <1>1, <1>2, <1>3, <1>5, ReadyKept
  <2>3. Written' BY <1>1, <1>2, <1>3, <1>5, <2>1, WrittenKept
  <2>4. Summed' BY <1>1, <1>2, <1>3, <1>4, <1>5, SumKept DEF CallInv, LockInv, SameData
  <2>5. QED BY <1>1, <1>2, <1>3, <1>4, <1>5, <2>1, <2>2, <2>3, <2>4, ShapeKept
<1>6. QED BY <1>4, <1>5

(* A call that changes the index gives its lock byte back.                 *)
LEMMA IndexLeaveStep ==
  ASSUME NEW p \in Procs, LockInv, IndexLeave(p)
  PROVE  LockInv' /\ (Serial /\ CallInv => CallInv')
<1>1. /\ h[p].pc = "index" /\ Typed
      /\ UNCHANGED <<backend, wrote, born, cut, torn, robbed>>
  BY DEF IndexLeave, At, auxVars, LockInv
<1>2. /\ FileTyped' /\ SameShape /\ SameTxn /\ SameData /\ SameSum /\ SameSize
      /\ file'.b22 = file.b22 /\ file'.b23 = 0
  BY <1>1
  DEF IndexLeave, Typed, FileTyped, FileFields, SameShape, SameTxn, SameData, SameSum, SameSize
<1>3. /\ Beside(p) /\ HandleTyped(p)' /\ SameHandle(p)
      /\ h'[p].pc = "open" /\ (h[p].dirty => h'[p].dirty) /\ h'[p].active = h[p].active
  <2>1. CASE Goto(p, "open") BY <1>1, <2>1, GotoFields
  <2>2. CASE Step(p, Marked([h[p] EXCEPT !.pc = "open"], file))
    <3> DEFINE hd == [h[p] EXCEPT !.pc = "open"]
    <3>1. /\ DOMAIN hd = HandleFields /\ hd.cap = h[p].cap /\ hd.pc = "open"
          /\ hd.map = h[p].map /\ hd.ro = h[p].ro /\ hd.active = h[p].active
          /\ hd.max = h[p].max /\ hd.stale = h[p].stale /\ hd.dirty = h[p].dirty
      BY <1>1 DEF Typed, HandleTyped, HandleFields
    <3>2. Step(p, Marked(hd, file)) BY <2>2
    <3> HIDE DEF hd
    <3>3. QED
      BY <1>1, <3>1, <3>2, StepBeside, MarkedFields DEF Typed, HandleTyped, SameHandle
  <2>3. QED BY <2>1, <2>2 DEF IndexLeave
<1>4. LockInv'
  <2>1. AuxTyped' BY <1>1, AuxKept DEF Typed
  <2>2. file.magic BY <1>1 DEF LockInv, MagicUsed, InUse
  <2>3. QED
    BY <1>1, <1>2, <1>3, <2>1, <2>2, LockKept DEF SameShape, SameTxn, SameSize
<1>5. ASSUME Serial, CallInv PROVE CallInv'
  <2>1. Alone(p) BY <1>1, <1>5, InsideAlone DEF CallInv, Idle
  <2>2. HandleOK(p) /\ AtStep(p) BY <1>5 DEF CallInv, Handles
  <2>3. ~h[p].ro BY <1>1, <2>2 DEF HandleOK
  <2>4. file.version = 5 BY <1>1, <2>2 DEF AtStep
  <2>5. HandleOK(p)' /\ Covered(p)' /\ AtStep(p)'
    BY <1>1, <1>2, <1>3, <1>5, <2>3, <2>4, ReadyKept
  <2>6. Written' BY <1>1, <1>2, <1>3, <1>5, <2>1, WrittenKept
  <2>7. Summed' BY <1>1, <1>2, <1>3, <1>4, <1>5, SumKept DEF CallInv, LockInv, SameData
  <2>8. QED
    BY <1>1, <1>2, <1>3, <1>4, <1>5, <2>1, <2>4, <2>5, <2>6, <2>7, ShapeKept DEF SameTxn
<1>6. QED BY <1>4, <1>5

(* The checksum is stored, or nothing changes.                             *)
LEMMA CommittedFields ==
  ASSUME NEW p \in Procs, Typed, file' = Committed(p) \/ file' = file
  PROVE  FileTyped' /\ SameShape /\ SameLocks /\ SameTxn /\ SameData /\ SameSize
<1>1. CASE file' = file
  BY <1>1, FileKept DEF Typed, SameShape, SameLocks, SameTxn, SameData, SameSize
<1>2. CASE file' = Stored(file)
  <2>1. /\ DOMAIN file' = FileFields
        /\ SameShape /\ SameLocks /\ SameTxn /\ SameData /\ SameSize
    BY <1>2, StoredFields
    DEF Typed, FileTyped, SameShape, SameLocks, SameTxn, SameData, SameSize
  <2>2. FileTyped'
    BY <2>1 DEF Typed, FileTyped, SameShape, SameLocks, SameTxn, SameData, SameSize
  <2>3. QED BY <2>1, <2>2
<1>3. QED BY <1>1, <1>2 DEF Committed

(* ef_db_commit_meta stores a checksum that matches, or the stored one     *)
(* does.                                                                   *)
LEMMA CommittedSum ==
  ASSUME NEW p \in Procs, Typed, Typed', CallInv, Alone(p), h[p].pc = "open", Beside(p),
         cut' = cut, SameShape, SameLocks, SameTxn, SameData,
         \/ file' = Committed(p)
         \/ file' = file /\ ~h[p].dirty
  PROVE  Summed'
<1>1. CASE h[p].dirty
  <2>1. file' = Stored(file) BY <1>1 DEF Committed
  <2>2. file.b23 = 0 \/ cut BY IndexFree
  <2>3. QED BY <2>1, <2>2, SumStored DEF Typed, FileTyped
<1>2. CASE ~h[p].dirty
  <2>1. SameSum BY <1>2 DEF Committed, SameSum
  <2>2. QED BY <1>2, <2>1, SumKept DEF CallInv, SameLocks, SameData
<1>3. QED BY <1>1, <1>2

(* ef_sync                                                                 *)
LEMMA SyncStep ==
  ASSUME NEW p \in Procs, LockInv, Sync(p)
  PROVE  LockInv' /\ (Serial /\ CallInv => CallInv')
<1>1. /\ h[p].pc = "open" /\ ~h[p].ro /\ Typed /\ (Serial => Alone(p))
      /\ UNCHANGED <<backend, wrote, born, cut, torn, robbed>> /\ file' = Committed(p)
  BY WritesFrom DEF Sync, auxVars
<1>2. FileTyped' /\ SameShape /\ SameLocks /\ SameTxn /\ SameData /\ SameSize
  BY <1>1, CommittedFields
<1>3. /\ Beside(p) /\ HandleTyped(p)' /\ SameHandle(p)
      /\ h'[p].pc = "open" /\ h'[p].active = h[p].active
  <2>1. h'[p] = [h[p] EXCEPT !.dirty = FALSE] /\ Beside(p)
    BY <1>1, StepBeside DEF Sync
  <2>2. QED BY <1>1, <2>1 DEF Typed, HandleTyped, HandleFields, SameHandle
<1>4. LockInv'
  <2>1. AuxTyped' BY <1>1, AuxKept DEF Typed
  <2>2. file.magic BY <1>1 DEF LockInv, MagicUsed, InUse
  <2>3. QED
    BY <1>1, <1>2, <1>3, <2>1, <2>2, LockKept DEF SameShape, SameTxn, SameSize
<1>5. ASSUME Serial, CallInv PROVE CallInv'
  <2>1. Alone(p) BY <1>1, <1>5
  <2>2. HandleOK(p)' /\ Covered(p)' /\ AtStep(p)'
    BY <1>1, <1>2, <1>3, <1>5, ReadyKept DEF SameLocks
  <2>3. Written' BY <1>1, <1>2, <1>3, <1>5, <2>1, WrittenKept
  <2>4. Summed' BY <1>1, <1>2, <1>3, <1>4, <1>5, <2>1, CommittedSum DEF LockInv
  <2>5. file'.b23 = 1 => cut' BY <1>1, <1>2, <1>5, <2>1, IndexFree DEF SameLocks
  <2>6. QED
    BY <1>1, <1>2, <1>3, <1>4, <1>5, <2>1, <2>2, <2>3, <2>4, <2>5, ShapeKept
    DEF SameLocks, SameTxn
<1>6. QED BY <1>4, <1>5

(* ef_close: the checksum, then the mapping is gone.                       *)
LEMMA CloseStep ==
  ASSUME NEW p \in Procs, LockInv, Close(p)
  PROVE  LockInv' /\ (Serial /\ CallInv => CallInv')
<1>1. /\ h[p].pc = "open" /\ Typed /\ (Serial => Alone(p))
      /\ UNCHANGED <<backend, wrote, born, cut, torn, robbed>>
      /\ file' = IF h[p].ro THEN file ELSE Committed(p)
  BY QuietAlone DEF Close, At, auxVars, LockInv
<1>2. FileTyped' /\ SameShape /\ SameLocks /\ SameTxn /\ SameData /\ SameSize
  BY <1>1, CommittedFields
<1>3. /\ Beside(p) /\ HandleTyped(p)'
      /\ h'[p].pc = "closed" /\ h'[p].map = 0 /\ ~h'[p].ro /\ ~h'[p].dirty /\ ~h'[p].active
  BY <1>1, RefuseFields DEF Close, Refuse
<1>4. LockInv'
  <2>1. AuxTyped' BY <1>1, AuxKept DEF Typed
  <2>2. h'[p].pc \notin InUse BY <1>3 DEF InUse
  <2>3. QED
    BY <1>1, <1>2, <1>3, <2>1, <2>2, LockKept DEF SameShape, SameTxn, SameSize
<1>5. ASSUME Serial, CallInv PROVE CallInv'
  <2>1. Alone(p) BY <1>1, <1>5
  <2>2. HandleOK(p)' /\ Covered(p)' /\ AtStep(p)' BY <1>2, <1>3, ClosedOK
  <2>3. Written' BY <1>1, <1>2, <1>3, <1>5, <2>1, WrittenKept
  <2>4. h[p].ro => ~h[p].dirty BY <1>5 DEF CallInv, Handles, HandleOK
  <2>5. Summed' BY <1>1, <1>2, <1>3, <1>4, <1>5, <2>1, <2>4, CommittedSum DEF LockInv
  <2>6. file'.b23 = 1 => cut' BY <1>1, <1>2, <1>5, <2>1, IndexFree DEF SameLocks
  <2>7. QED
    BY <1>1, <1>2, <1>3, <1>4, <1>5, <2>1, <2>2, <2>3, <2>5, <2>6, ShapeKept
    DEF SameLocks, SameTxn
<1>6. QED BY <1>4, <1>5

(* The end of an open.                                                     *)
LEMMA RecoverStep ==
  ASSUME NEW p \in Procs, LockInv, Recover(p)
  PROVE  LockInv' /\ (Serial /\ CallInv => CallInv')
<1>1. /\ h[p].pc = "migrate" /\ Typed /\ file.magic
      /\ UNCHANGED <<backend, wrote, born, cut, torn>>
  BY DEF Recover, At, LockInv, MagicUsed, InUse
<1>2. ASSUME CallInv PROVE Alone(p) /\ HandleOK(p) /\ Covered(p) /\ ~h[p].ro
  BY <1>1, <1>2, InsideAlone DEF CallInv, Idle, Handles, HandleOK
<1>3. CASE file.version >= V5 /\ file.b25 = ACTIVE
  <2>1. FileTyped' /\ SameShape /\ SameLocks /\ SameData /\ SameSize /\ file.version = 5
    <3>1. file' = [file EXCEPT !.b24 = 0, !.b25 = 0] BY <1>3 DEF Recover
    <3>2. file.version = 5 BY <1>1, <1>3 DEF Typed, FileTyped, V5
    <3>3. /\ DOMAIN file' = FileFields /\ file'.b24 = 0 /\ file'.b25 = 0
          /\ SameShape /\ SameLocks /\ SameData /\ SameSize
      BY <1>1, <3>1
      DEF Typed, FileTyped, FileFields, SameShape, SameLocks, SameData, SameSize
    <3>4. FileTyped'
      BY <1>1, <3>3 DEF Typed, FileTyped, SameShape, SameLocks, SameData, SameSize
    <3>5. QED BY <3>2, <3>3, <3>4
  <2>2. /\ Beside(p) /\ HandleTyped(p)' /\ SameHandle(p)
        /\ h'[p].pc = "rebuild" /\ h'[p].active = h[p].active /\ (file.crc => h'[p].dirty)
    <3> DEFINE hd == [h[p] EXCEPT !.pc = "rebuild"]
    <3>1. /\ DOMAIN hd = HandleFields /\ hd.cap = h[p].cap /\ hd.pc = "rebuild"
          /\ hd.map = h[p].map /\ hd.ro = h[p].ro /\ hd.active = h[p].active
          /\ hd.max = h[p].max /\ hd.stale = h[p].stale /\ hd.dirty = h[p].dirty
      BY <1>1 DEF Typed, HandleTyped, HandleFields
    <3>2. Step(p, Marked(hd, file)) BY <1>3 DEF Recover
    <3> HIDE DEF hd
    <3>3. QED
      BY <1>1, <3>1, <3>2, StepBeside, MarkedFields DEF Typed, HandleTyped, SameHandle
  <2>3. LockInv'
    <3>1. Typed' BY <1>1, <2>1, <2>2, AuxKept, TypedKept DEF Typed
    <3>2. LockOwned'
      <4>1. OnV5' BY <1>1, <2>1 DEF OnV5, SameShape
      <4>2. ASSUME ~robbed', NEW q \in Procs, h'[q].active PROVE FALSE
        <5>1. h[q].active BY <2>2, <4>2 DEF Beside, SameBeside
        <5>2. QED BY <1>3, <4>2, <5>1 DEF Recover
      <4>3. QED BY <4>1, <4>2 DEF LockOwned
    <3>3. SizeSet' /\ CreatedOnce'
      BY <1>1, <2>1, <2>2, CreatedKept DEF LockInv, SameShape, SameSize, FileTyped
    <3>4. MagicUsed' BY <1>1, <2>1, <2>2, MagicKept DEF LockInv, SameShape
    <3>5. QED BY <3>1, <3>2, <3>3, <3>4 DEF LockInv
  <2>4. ASSUME Serial, CallInv PROVE CallInv'
    <3>1. Alone(p) /\ HandleOK(p) /\ Covered(p) /\ ~h[p].ro BY <1>2, <2>4
    <3>2. Locked4' <=> Locked4 BY <2>1 DEF Locked4, SameShape, SameLocks
    <3>3. HandleOK(p)' /\ Covered(p)' /\ AtStep(p)'
      BY <1>1, <2>1, <2>2, <3>1, <3>2
      DEF HandleOK, Covered, AtStep, InUse, Opening, Ready, Long, SameShape, SameSize, SameHandle
    <3>4. Written' BY <1>1, <2>1, <2>2, <2>4, <3>1, WrittenKept
    <3>5. Summed' BY <2>1, <2>2, SumMarked DEF SameShape
    <3>6. file'.b23 = 1 => cut' BY <1>1, <2>1, <2>4, <3>1, IndexFree DEF SameLocks
    <3>7. QED
      BY <1>1, <2>1, <2>2, <2>3, <2>4, <3>1, <3>3, <3>4, <3>5, <3>6, ShapeKept DEF SameLocks
  <2>5. QED BY <2>3, <2>4
<1>4. CASE ~(file.version >= V5 /\ file.b25 = ACTIVE)
  <2>1. Goto(p, "rebuild") /\ UNCHANGED <<backend, file, auxVars>>
    BY <1>4 DEF Recover, auxVars
  <2>2. /\ Beside(p) /\ HandleTyped(p)' /\ SameHandle(p)
        /\ h'[p].pc = "rebuild" /\ h'[p].dirty = h[p].dirty /\ h'[p].active = h[p].active
    BY <1>1, <2>1, GotoFields
  <2>3. ASSUME CallInv PROVE HandleOK(p)' /\ Covered(p)' /\ AtStep(p)'
    <3>1. HandleOK(p) /\ Covered(p) BY <1>2, <2>3
    <3>2. file' = file /\ born' = born /\ backend' = backend BY <2>1 DEF auxVars
    <3>3. QED
      BY <1>1, <2>2, <3>1, <3>2
      DEF HandleOK, Covered, AtStep, InUse, Opening, Ready, Long, SameHandle, Locked4
  <2>4. QED BY <1>1, <1>2, <2>1, <2>2, <2>3, HandleStep
<1>5. QED BY <1>3, <1>4

-----------------------------------------------------------------------------
(* Growth.                                                                 *)

(* A growth starts from an open, writable handle.                          *)
LEMMA GrowFrom ==
  ASSUME NEW p \in Procs, LockInv, MayGrow(p)
  PROVE  /\ h[p].pc = "open" /\ ~h[p].ro /\ Typed /\ (Serial => Alone(p)) /\ file.magic
         /\ file.slots \in Nat /\ file.slots < MaxSlots
         /\ GrownSize(p) \in Nat /\ GrownSize(p) > 0
         /\ GrownSize(p) = ExpectedSize(file.slots + 1, h[p].cap, LogUnits)
<1>1. h[p].pc = "open" /\ ~h[p].ro /\ Typed /\ (Serial => Alone(p)) /\ file.slots < MaxSlots
  BY WritesFrom DEF MayGrow
<1>2. file.slots \in Nat /\ h[p].cap \in Nat BY <1>1 DEF Typed, FileTyped, HandleTyped
<1>3. GrownSize(p) = ExpectedSize(file.slots + 1, h[p].cap, LogUnits) BY DEF GrownSize
<1>4. ExpectedSize(file.slots + 1, h[p].cap, LogUnits) \in Nat
      /\ ExpectedSize(file.slots + 1, h[p].cap, LogUnits) > 0
  BY <1>2, Numbers DEF ExpectedSize
<1>5. file.magic BY <1>1 DEF LockInv, MagicUsed, InUse
<1>6. QED BY <1>1, <1>2, <1>3, <1>4, <1>5

(* ef_port_grow_file: munmap and ftruncate, which may fail.                *)
LEMMA GrowStep ==
  ASSUME NEW p \in Procs, LockInv, Grow(p)
  PROVE  LockInv' /\ (Serial /\ CallInv => CallInv')
<1>1. /\ h[p].pc = "open" /\ ~h[p].ro /\ Typed /\ (Serial => Alone(p)) /\ file.magic
      /\ file.slots \in Nat /\ file.slots < MaxSlots
      /\ GrownSize(p) \in Nat /\ GrownSize(p) > 0
      /\ GrownSize(p) = ExpectedSize(file.slots + 1, h[p].cap, LogUnits)
  BY GrowFrom DEF Grow
<1>2. /\ backend = "file" /\ UNCHANGED <<backend, wrote, born, cut, torn, robbed>>
  BY DEF Grow, auxVars
<1>3. CASE UNCHANGED file /\ Goto(p, "lost")
  <2>1. UNCHANGED <<backend, file, auxVars>> BY <1>2, <1>3 DEF auxVars
  <2>2. /\ Beside(p) /\ HandleTyped(p)' /\ SameHandle(p)
        /\ h'[p].pc = "lost" /\ h'[p].dirty = h[p].dirty /\ h'[p].active = h[p].active
    BY <1>1, <1>3, GotoFields
  <2>3. h'[p].pc \notin InUse BY <2>2 DEF InUse
  <2>4. ASSUME CallInv PROVE HandleOK(p)' /\ Covered(p)' /\ AtStep(p)'
    <3>1. HandleOK(p) BY <2>4 DEF CallInv, Handles
    <3>2. QED
      BY <1>1, <1>3, <2>2, <3>1
      DEF HandleOK, Covered, AtStep, InUse, Opening, Ready, Long, SameHandle
  <2>5. QED BY <1>1, <2>1, <2>2, <2>3, <2>4, HandleStep
<1>4. CASE /\ file' = [file EXCEPT !.size = GrownSize(p)]
           /\ Step(p, [h[p] EXCEPT !.max = file.slots, !.pc = "grown"])
  <2>1. /\ FileTyped' /\ file'.size = GrownSize(p)
        /\ SameShape /\ SameLocks /\ SameTxn /\ SameData /\ SameSum
    BY <1>1, <1>4
    DEF Typed, FileTyped, FileFields, SameShape, SameLocks, SameTxn, SameData, SameSum
  <2>2. /\ Beside(p) /\ HandleTyped(p)'
        /\ h'[p].pc = "grown" /\ h'[p].dirty = h[p].dirty /\ h'[p].active = h[p].active
        /\ h'[p].max = file.slots /\ h'[p].cap = h[p].cap /\ h'[p].map = h[p].map
        /\ h'[p].ro = h[p].ro
    <3>1. h'[p] = [h[p] EXCEPT !.max = file.slots, !.pc = "grown"] /\ Beside(p)
      BY <1>1, <1>4, StepBeside
    <3>2. QED BY <1>1, <3>1 DEF Typed, HandleTyped, HandleFields
  <2>3. LockInv'
    <3>1. AuxTyped' BY <1>1, <1>2, AuxKept DEF Typed
    <3>2. QED BY <1>1, <1>2, <2>1, <2>2, <3>1, LockKept DEF SameShape, SameTxn
  <2>4. ASSUME Serial, CallInv PROVE CallInv'
    <3>1. Alone(p) BY <1>1, <2>4
    <3>2. HandleOK(p) /\ HandleTyped(p) BY <1>1, <2>4 DEF CallInv, Handles, Typed
    <3>3. h[p].cap = born /\ ~Locked4 BY <1>1, <3>2 DEF HandleOK, InUse
    <3>4. Locked4' <=> Locked4 BY <2>1 DEF Locked4, SameShape, SameLocks
    <3>5. file'.size = ExpectedSize(file.slots + 1, born, LogUnits) BY <1>1, <2>1, <3>3
    <3>6. file'.size >= file.size /\ file'.size >= ExpectedSize(file.slots, born, LogUnits)
      <4>1. FileSizes BY <1>2, <2>4 DEF CallInv, Sizes
      <4>2. QED
        BY <1>1, <3>3, <3>5, <4>1, Numbers
        DEF FileSizes, ExpectedSize, Typed, FileTyped, AuxTyped
    <3>7. h'[p].map <= file'.size
      BY <1>1, <2>1, <2>2, <3>2, <3>6 DEF HandleOK, HandleTyped, FileTyped, Typed
    <3>8. HandleOK(p)' BY <1>1, <1>2, <2>1, <2>2, <3>2, <3>3, <3>4, <3>7
      DEF HandleOK, InUse, Opening, SameShape
    <3>9. Covered(p)' BY <1>2, <2>1, <2>2, <3>6 DEF Covered, Ready, SameShape
    <3>10. AtStep(p)' BY <1>1, <1>2, <2>1, <2>2, <3>5 DEF AtStep, SameShape
    <3>11. Sizes'
      <4>1. Busy("grown")' BY <2>2 DEF Busy
      <4>2. QED BY <1>1, <1>2, <2>1, <3>5, <4>1 DEF Sizes, FileSizes, SameShape
    <3>12. QED
      BY <1>1, <1>2, <2>1, <2>2, <2>3, <2>4, <3>1, <3>6, <3>8, <3>9, <3>10, <3>11, CallKept
  <2>5. QED BY <2>3, <2>4
<1>5. QED BY <1>3, <1>4 DEF Grow

(* mmap fails after ftruncate: no handle maps the file any more.           *)
LEMMA GrowFailsStep ==
  ASSUME NEW p \in Procs, LockInv, GrowFails(p)
  PROVE  LockInv' /\ (Serial /\ CallInv => CallInv')
<1>1. /\ h[p].pc = "grown" /\ Typed /\ cut'
      /\ UNCHANGED <<backend, file, wrote, born, torn, robbed>>
  BY DEF LockInv, GrowFails, At
<1>2. /\ Beside(p) /\ HandleTyped(p)' /\ SameHandle(p)
      /\ h'[p].pc = "lost" /\ h'[p].dirty = h[p].dirty /\ h'[p].active = h[p].active
  BY <1>1, GotoFields DEF GrowFails
<1>3. FileTyped' /\ AuxTyped' /\ file'.size >= file.size /\ (file.size > 0 => file'.size > 0)
  BY <1>1, FileKept, AuxKept DEF Typed
<1>4. LockInv'
  <2>1. h'[p].pc \notin InUse BY <1>2 DEF InUse
  <2>2. QED BY <1>1, <1>2, <1>3, <2>1, LockKept
<1>5. ASSUME Serial, CallInv PROVE CallInv'
  <2>1. Alone(p) BY <1>1, <1>5, InsideAlone DEF CallInv, Idle
  <2>2. HandleOK(p)' /\ Covered(p)' /\ AtStep(p)'
    <3>1. HandleOK(p) BY <1>5 DEF CallInv, Handles
    <3>2. QED
      BY <1>1, <1>2, <3>1 DEF HandleOK, Covered, AtStep, InUse, Opening, Ready, Long, SameHandle
  <2>3. Sizes' BY <1>1, <1>2, <1>5, <2>1, SizesKept
  <2>4. SameShape /\ SameLocks /\ SameTxn /\ SameData /\ SameSum
    BY <1>1 DEF SameShape, SameLocks, SameTxn, SameData, SameSum
  <2>5. QED BY <1>1, <1>2, <1>3, <1>4, <1>5, <2>1, <2>2, <2>3, <2>4, CallKept
<1>6. QED BY <1>4, <1>5


(* ef_grow_append_slots: the other handles become stale.                   *)
LEMMA AppendFields ==
  ASSUME NEW p \in Procs, NEW size \in Nat, NEW max \in Nat, max < MaxSlots, LockInv,
         AppendSlots(p, size, max)
  PROVE  /\ FileTyped' /\ SameLocks /\ SameTxn /\ SameSize
         /\ file'.magic = file.magic /\ file'.version = file.version /\ file'.crc = file.crc
         /\ file'.cap = file.cap /\ file'.slots = max + 1
         /\ \A s \in 1..MaxSlots : s # max + 1 => file'.slot[s] = file.slot[s]
         /\ Beside(p) /\ HandleTyped(p)'
         /\ h'[p].pc = "open" /\ h'[p].map = size /\ h'[p].cap = CapOf(file)
         /\ h'[p].ro = h[p].ro /\ h'[p].active = h[p].active /\ (file.crc => h'[p].dirty)
         /\ \A q \in Procs \ {p} : h[q].pc # "closed" => h'[q].stale
         /\ UNCHANGED <<backend, wrote, born, cut, torn, robbed>>
<1>1. Typed /\ UNCHANGED <<backend, wrote, born, cut, torn, robbed>>
  BY DEF LockInv, AppendSlots, auxVars
<1>2. /\ DOMAIN file' = FileFields /\ SameLocks /\ SameTxn /\ SameSize
      /\ file'.magic = file.magic /\ file'.version = file.version /\ file'.crc = file.crc
      /\ file'.cap = file.cap /\ file'.slots = max + 1
      /\ file'.slot = [file.slot EXCEPT ![max + 1] = "none"]
  BY <1>1 DEF AppendSlots, Typed, FileTyped, FileFields, SameLocks, SameTxn, SameSize
<1>3. /\ file'.slot \in [1..MaxSlots -> Places] /\ max + 1 \in 0..MaxSlots
      /\ \A s \in 1..MaxSlots : s # max + 1 => file'.slot[s] = file.slot[s]
  BY <1>1, <1>2, Numbers DEF Typed, FileTyped, Places
<1>4. FileTyped'
  BY <1>1, <1>2, <1>3 DEF Typed, FileTyped, SameLocks, SameTxn, SameSize
<1> DEFINE hd == [Bound(p, size, "open") EXCEPT !.max = 0]
<1>5. /\ DOMAIN hd = HandleFields /\ hd.map = size /\ hd.cap = CapOf(file) /\ hd.pc = "open"
      /\ hd.ro = h[p].ro /\ hd.active = h[p].active /\ hd.max = 0
  <2>1. hd = [Bound(p, size, "open") EXCEPT !.max = 0] OBVIOUS
  <2> HIDE DEF hd
  <2>2. QED BY <1>1, <2>1, BoundFields DEF HandleFields
<1>6. /\ DOMAIN h' = Procs /\ h'[p] = Marked(hd, file)
      /\ \A q \in Procs \ {p} : h'[q] = [h[q] EXCEPT !.stale = (h[q].pc # "closed")]
  BY DEF AppendSlots
<1> HIDE DEF hd
<1>7. /\ h'[p].pc = "open" /\ h'[p].map = size /\ h'[p].cap = CapOf(file) /\ h'[p].max = 0
      /\ h'[p].ro = h[p].ro /\ h'[p].active = h[p].active /\ (file.crc => h'[p].dirty)
      /\ DOMAIN h'[p] = HandleFields
  BY <1>5, <1>6, MarkedFields
<1>8. HandleTyped(p)'
  BY <1>1, <1>7, CapNat, Numbers DEF HandleTyped, Typed
<1>9. ASSUME NEW q \in Procs \ {p}
      PROVE  SameBeside(q) /\ (h[q].pc # "closed" => h'[q].stale)
  <2>1. DOMAIN h[q] = HandleFields BY <1>1 DEF Typed, HandleTyped
  <2>2. h'[q] = [h[q] EXCEPT !.stale = (h[q].pc # "closed")] BY <1>6
  <2>3. QED BY <2>1, <2>2 DEF SameBeside, HandleFields
<1>10. Beside(p) BY <1>6, <1>9 DEF Beside
<1>11. QED BY <1>1, <1>2, <1>3, <1>4, <1>7, <1>8, <1>9, <1>10

(* ef_grow_append_slots: the new slot is initialized and counted, and the  *)
(* log moves behind it.                                                    *)
LEMMA AppendStep ==
  ASSUME NEW p \in Procs, NEW size \in Nat, NEW max \in Nat, max < MaxSlots, LockInv,
         AppendSlots(p, size, max), h[p].pc \in {"open", "grown"},
         Serial /\ CallInv =>
           /\ Alone(p) /\ ~h[p].ro /\ max = file.slots /\ size <= file.size
           /\ size = ExpectedSize(max + 1, born, LogUnits)
           /\ backend = "file" => file.size = size
  PROVE  LockInv' /\ (Serial /\ CallInv => CallInv')
<1>1. /\ FileTyped' /\ SameLocks /\ SameTxn /\ SameSize
      /\ file'.magic = file.magic /\ file'.version = file.version /\ file'.crc = file.crc
      /\ file'.cap = file.cap /\ file'.slots = max + 1
      /\ \A s \in 1..MaxSlots : s # max + 1 => file'.slot[s] = file.slot[s]
  BY AppendFields
<1>2. /\ Beside(p) /\ HandleTyped(p)'
      /\ h'[p].pc = "open" /\ h'[p].map = size /\ h'[p].cap = CapOf(file)
      /\ h'[p].ro = h[p].ro /\ h'[p].active = h[p].active /\ (file.crc => h'[p].dirty)
      /\ \A q \in Procs \ {p} : h[q].pc # "closed" => h'[q].stale
  BY AppendFields
<1>3. UNCHANGED <<backend, wrote, born, cut, torn, robbed>> BY AppendFields
<1>4. Typed /\ file.magic BY DEF LockInv, MagicUsed, InUse
<1>5. LockInv'
  <2>1. AuxTyped' BY <1>3, <1>4, AuxKept DEF Typed
  <2>2. QED BY <1>1, <1>2, <1>3, <1>4, <2>1, LockKept DEF SameTxn, SameSize
<1>6. ASSUME Serial, CallInv PROVE CallInv'
  <2>1. /\ Alone(p) /\ ~h[p].ro /\ max = file.slots /\ size <= file.size
        /\ size = ExpectedSize(max + 1, born, LogUnits)
        /\ backend = "file" => file.size = size
    BY <1>6
  <2>2. HandleOK(p) /\ Handles BY <1>6 DEF CallInv, Handles
  <2>3. ~Locked4 /\ CapOf(file) = born
    BY <1>4, <1>6, <2>2, CapBorn DEF HandleOK, InUse, CallInv
  <2>4. ~Locked4' BY <1>1, <2>3 DEF Locked4, SameLocks
  <2>5. ExpectedSize(file'.slots, born', LogUnits) = size /\ file'.size = file.size
    BY <1>1, <1>3, <2>1 DEF SameSize
  <2>6. OneCall' BY <1>2, <2>1, OneCallKept
  <2>7. CapKept' BY <1>1, <1>3, <1>6 DEF CallInv, CapKept, SameLocks, SameTxn
  <2>8. LockSeen'
    BY <1>1, <1>3, <1>4, <1>6, <2>1, IndexFree DEF LockSeen, SameLocks
  <2>9. HandleOK(p)'
    BY <1>1, <1>2, <1>3, <1>4, <2>1, <2>3, <2>4, <2>5 DEF HandleOK, InUse, Opening
  <2>10. Covered(p)' BY <1>2, <2>1, <2>5 DEF Covered
  <2>11. AtStep(p)' BY <1>2 DEF AtStep
  <2>12. Handles'
    <3>1. \A q \in Procs \ {p} : h[q].pc = "open" =>
            h'[q].stale /\ file'.size >= ExpectedSize(file'.slots, born', LogUnits)
      BY <1>2, <1>4, <2>1, <2>5 DEF Typed, FileTyped
    <3>2. file'.size >= file.size /\ Typed'
      BY <1>4, <1>5, <2>5 DEF Typed, FileTyped, LockInv
    <3>3. QED
      BY <1>1, <1>2, <1>3, <1>4, <2>1, <2>2, <2>4, <2>9, <2>10, <2>11, <3>1, <3>2, HandlesKept
  <2>13. Sizes'
    <3>1. CASE backend = "file" BY <1>1, <1>3, <1>4, <2>1, <2>5, <3>1 DEF Sizes, FileSizes
    <3>2. CASE backend # "file"
      BY <1>1, <1>3, <1>6, <2>1, <2>5, <3>2 DEF CallInv, Sizes, BufferSizes
    <3>3. QED BY <3>1, <3>2
  <2>14. Written'
    <3>1. ~Busy("upgrade") /\ ~Busy("upgrade")' BY <1>2, <2>1, BusyStep
    <3>2. wrote \subseteq 1..max BY <1>6, <2>1 DEF CallInv, Written
    <3>3. ASSUME NEW s \in wrote PROVE s \in 1..(max + 1) /\ file'.slot[s] = file.slot[s]
      BY <1>1, <3>2, <3>3, Numbers
    <3>4. QED BY <1>1, <1>3, <1>4, <1>6, <3>1, <3>3 DEF CallInv, Written
  <2>15. Summed' BY <1>1, <1>2, SumMarked
  <2>16. QED BY <2>6, <2>7, <2>8, <2>12, <2>13, <2>14, <2>15 DEF CallInv
<1>7. QED BY <1>5, <1>6

(* ef_grow_append_slots after ef_port_grow_file.                           *)
LEMMA GrowEndsStep ==
  ASSUME NEW p \in Procs, LockInv, GrowEnds(p)
  PROVE  LockInv' /\ (Serial /\ CallInv => CallInv')
<1>1. /\ h[p].pc = "grown" /\ AppendSlots(p, file.size, h[p].max)
      /\ file.size \in Nat /\ h[p].max \in Nat /\ h[p].max < MaxSlots
  BY DEF GrowEnds, At, LockInv, Typed, FileTyped, HandleTyped
<1>2. ASSUME CallInv
      PROVE  /\ Alone(p) /\ ~h[p].ro /\ h[p].max = file.slots
             /\ file.size = ExpectedSize(h[p].max + 1, born, LogUnits)
  <2>1. Alone(p) BY <1>1, <1>2, InsideAlone DEF CallInv, Idle
  <2>2. HandleOK(p) /\ AtStep(p) BY <1>2 DEF CallInv, Handles
  <2>3. QED BY <1>1, <2>1, <2>2 DEF HandleOK, AtStep
<1>3. QED BY <1>1, <1>2, AppendStep

(* The growth of a database in a buffer is one step.                       *)
LEMMA GrowMemoryStep ==
  ASSUME NEW p \in Procs, LockInv, GrowMemory(p)
  PROVE  LockInv' /\ (Serial /\ CallInv => CallInv')
<1>1. /\ h[p].pc = "open" /\ ~h[p].ro /\ (Serial => Alone(p))
      /\ file.slots \in Nat /\ file.slots < MaxSlots /\ GrownSize(p) \in Nat
      /\ GrownSize(p) = ExpectedSize(file.slots + 1, h[p].cap, LogUnits)
  BY GrowFrom DEF GrowMemory
<1>2. /\ backend = "memory" /\ GrownSize(p) <= Capacity
      /\ AppendSlots(p, GrownSize(p), file.slots)
  BY DEF GrowMemory
<1>3. ASSUME CallInv PROVE h[p].cap = born /\ file.size = Capacity
  BY <1>1, <1>2, <1>3 DEF CallInv, Handles, HandleOK, InUse, Sizes, BufferSizes
<1>4. QED BY <1>1, <1>2, <1>3, AppendStep

-----------------------------------------------------------------------------
(* A handle is lost with its process, whatever the others are doing.  What *)
(* it would have put right is a change cut short.                          *)
LEMMA LossStep ==
  ASSUME NEW p \in Procs, LockInv, h[p].pc # "closed", Refuse(p),
         UNCHANGED <<backend, file, wrote, born, robbed>>,
         cut => cut', torn => torn', h[p].dirty => cut' \/ Agrees(file),
         h[p].pc \in {"created", "grown", "index"} => cut', h[p].pc = "upgrade" => torn'
  PROVE  LockInv' /\ (CallInv => CallInv')
<1>1. /\ Beside(p) /\ HandleTyped(p)' /\ Typed
      /\ h'[p].pc = "closed" /\ h'[p].map = 0 /\ ~h'[p].ro /\ ~h'[p].dirty /\ ~h'[p].active
  BY RefuseFields DEF LockInv
<1>2. FileTyped' /\ AuxTyped' /\ file'.size >= file.size /\ (file.size > 0 => file'.size > 0)
  BY <1>1, FileKept, AuxKept DEF Typed
<1>3. h'[p].pc \notin InUse /\ h'[p].pc \in Idle BY <1>1 DEF InUse, Idle
<1>4. LockInv' BY <1>1, <1>2, <1>3, LockKept
<1>5. ASSUME CallInv PROVE CallInv'
  <2>1. \A q \in Procs \ {p} : h'[q].pc = h[q].pc BY <1>1 DEF Beside, SameBeside
  <2>2. OneCall' BY <1>3, <1>5, <2>1 DEF CallInv, OneCall
  <2>3. CapKept' BY <1>5 DEF CallInv, CapKept
  <2>4. /\ Busy("index") => Busy("index")' \/ cut'
        /\ Busy("grown") => Busy("grown")' \/ cut'
        /\ Busy("created") => Busy("created")' \/ cut'
    BY <2>1 DEF Busy
  <2>5. LockSeen' BY <1>5, <2>4 DEF CallInv, LockSeen
  <2>6. Locked4' <=> Locked4 BY DEF Locked4
  <2>7. ASSUME NEW q \in Procs PROVE HandleOK(q)' /\ Covered(q)' /\ AtStep(q)'
    <3>1. CASE q = p BY <1>1, <1>2, <3>1, ClosedOK
    <3>2. CASE q # p
      <4>1. SameBeside(q) /\ HandleOK(q) /\ Covered(q) /\ AtStep(q)
        BY <1>1, <1>5, <3>2 DEF Beside, CallInv, Handles
      <4>2. HandleOK(q)' BY <2>6, <4>1 DEF HandleOK, SameBeside
      <4>3. Covered(q)' BY <2>6, <4>1 DEF Covered, SameBeside, Ready
      <4>4. AtStep(q)' BY <4>1 DEF AtStep, NewSize, SameBeside
      <4>5. QED BY <4>2, <4>3, <4>4
    <3>3. QED BY <3>1, <3>2
  <2>8. Handles' BY <2>7 DEF Handles
  <2>9. Sizes'
    <3>1. CASE backend = "file"
      <4>1. FileSizes' BY <1>5, <2>4, <2>6, <3>1 DEF CallInv, Sizes, FileSizes
      <4>2. QED BY <3>1, <4>1 DEF Sizes
    <3>2. CASE backend # "file" BY <1>5, <2>6, <3>2 DEF CallInv, Sizes, BufferSizes
    <3>3. QED BY <3>1, <3>2
  <2>10. Written'
    <3>1. ~torn' => (Busy("upgrade")' <=> Busy("upgrade")) BY <1>1, <2>1 DEF Busy
    <3>2. QED BY <1>5, <3>1 DEF CallInv, Written
  <2>11. Summed'
    <3>1. SameShape /\ SameTxn /\ SameSum /\ file'.b22 = file.b22 /\ file'.slot = file.slot
      BY DEF SameShape, SameTxn, SameSum
    <3>2. Typed' BY <1>4 DEF LockInv
    <3>3. CASE h[p].dirty => cut' BY <1>1, <1>5, <3>1, <3>2, <3>3, SumKept DEF CallInv
    <3>4. CASE Agrees(file) BY <3>4 DEF Agrees, Summed, Unlocked
    <3>5. QED BY <3>3, <3>4
  <2>12. QED BY <2>2, <2>3, <2>5, <2>8, <2>9, <2>10, <2>11 DEF CallInv
<1>6. QED BY <1>4, <1>5

(* ef_rebuild_free_list, with ef_upgrade_superblock, the checksums and     *)
(* the check of the size.                                                  *)
Rebuilt(p) ==
  /\ file' = Refreshed(file)
  /\ IF h[p].map >= V5Size(file) THEN Goto(p, "open")
     ELSE IF backend = "file" THEN Refuse(p)
     ELSE Step(p, [h[p] EXCEPT !.map = V5Size(file), !.pc = "open"])

LEMMA RebuiltStep ==
  ASSUME NEW p \in Procs, LockInv, h[p].pc = "rebuild", Rebuilt(p),
         UNCHANGED <<backend, wrote, born, cut, torn, robbed>>
  PROVE  LockInv' /\ (Serial /\ CallInv => CallInv')
<1> DEFINE f == [file EXCEPT !.version = IF @ = 0 THEN LEGACY ELSE @,
                             !.crc = IF file.version = 0 THEN FALSE ELSE @]
<1>1. /\ h[p].pc = "rebuild" /\ Typed /\ file.magic
      /\ UNCHANGED <<backend, wrote, born, cut, torn, robbed>>
      /\ file' = Stored(f)
  BY DEF Rebuilt, Refreshed, LockInv, MagicUsed, InUse
<1>2. /\ DOMAIN f = FileFields /\ f.b23 = file.b23
      /\ f.version = (IF file.version = 0 THEN 1 ELSE file.version) /\ f.size = file.size
      /\ f.magic = file.magic /\ f.slots = file.slots /\ f.cap = file.cap
      /\ f.b22 = file.b22 /\ f.b24 = file.b24 /\ f.b25 = file.b25 /\ f.slot = file.slot
      /\ file.version # 0 => f.crc = file.crc
  BY <1>1 DEF Typed, FileTyped, FileFields, LEGACY
<1> HIDE DEF f
<1>3. /\ DOMAIN file' = FileFields /\ SameSize /\ SameLocks /\ SameTxn /\ SameData
      /\ file'.magic = file.magic /\ file'.slots = file.slots /\ file'.cap = file.cap
      /\ file'.version = (IF file.version = 0 THEN 1 ELSE file.version)
      /\ file.version # 0 => file'.crc = file.crc
  BY <1>1, <1>2, StoredFields DEF SameSize, SameLocks, SameTxn, SameData
<1>4. FileTyped'
  BY <1>1, <1>3 DEF Typed, FileTyped, SameSize, SameLocks, SameTxn, SameData
<1>5. V5Size(file) \in Nat BY <1>1, SizeNat DEF Typed
<1>6. /\ Beside(p) /\ HandleTyped(p)' /\ (h'[p].active => h[p].active)
      /\ \/ h'[p].pc = "closed" /\ h'[p].map = 0 /\ ~h'[p].ro /\ ~h'[p].dirty
         \/ /\ h'[p].pc = "open" /\ h'[p].cap = h[p].cap /\ h'[p].ro = h[p].ro
            /\ \/ h'[p].map = h[p].map /\ h[p].map >= V5Size(file)
               \/ h'[p].map = V5Size(file) /\ backend # "file"
  <2>1. CASE h[p].map >= V5Size(file)
    <3>1. Goto(p, "open") BY <2>1 DEF Rebuilt
    <3>2. QED BY <1>1, <2>1, <3>1, GotoFields DEF SameHandle
  <2>2. CASE ~(h[p].map >= V5Size(file)) /\ backend = "file"
    <3>1. Refuse(p) BY <2>2 DEF Rebuilt
    <3>2. QED BY <1>1, <3>1, RefuseFields
  <2>3. CASE ~(h[p].map >= V5Size(file)) /\ backend # "file"
    <3>1. Step(p, [h[p] EXCEPT !.map = V5Size(file), !.pc = "open"]) BY <2>3 DEF Rebuilt
    <3>2. h'[p] = [h[p] EXCEPT !.map = V5Size(file), !.pc = "open"] /\ Beside(p)
      BY <1>1, <3>1, StepBeside
    <3>3. QED BY <1>1, <1>5, <2>3, <3>2 DEF Typed, HandleTyped, HandleFields
  <2>4. QED BY <2>1, <2>2, <2>3
<1>7. LockInv'
  <2>1. AuxTyped' BY <1>1, AuxKept DEF Typed
  <2>2. h'[p].pc # "created" BY <1>6
  <2>3. QED
    BY <1>1, <1>3, <1>4, <1>6, <2>1, <2>2, LockKept DEF SameTxn, SameSize
<1>8. ASSUME Serial, CallInv PROVE CallInv'
  <2>1. Alone(p) BY <1>1, <1>8, InsideAlone DEF CallInv, Idle
  <2>2. OneCall' BY <1>6, <2>1, OneCallKept
  <2>3. HandleOK(p) /\ Covered(p) /\ HandleTyped(p) /\ Handles
    BY <1>1, <1>8 DEF CallInv, Handles, Typed
  <2>4. ~Locked4 /\ h[p].cap = born /\ ~h[p].ro BY <1>1, <2>3 DEF HandleOK, InUse
  <2>5. CapKept'
    BY <1>1, <1>3, <1>8 DEF CallInv, CapKept, SameLocks, SameTxn, Typed, FileTyped
  <2>6. LockSeen' /\ (file.b23 = 0 \/ cut')
    BY <1>1, <1>3, <1>8, <2>1, IndexFree DEF LockSeen, SameLocks
  <2>7. Locked4' <=> Locked4 BY <1>3 DEF Locked4, SameLocks
  <2>8. V5Size(file) = ExpectedSize(file.slots, born, LogUnits)
    BY <1>1, <1>8, <2>4, CapBorn DEF CallInv, V5Size
  <2>9. HandleOK(p)' /\ Covered(p)' /\ AtStep(p)'
    <3>1. CASE h'[p].pc = "closed" BY <1>4, <1>6, <3>1, ClosedOK
    <3>2. CASE h'[p].pc = "open"
      <4>1. h'[p].map <= file'.size
        <5>1. CASE h'[p].map = h[p].map BY <1>3, <2>3, <5>1 DEF HandleOK, SameSize
        <5>2. CASE h'[p].map = V5Size(file) /\ backend # "file"
          BY <1>1, <1>3, <1>8, <2>4, <2>8, <5>2
          DEF CallInv, Sizes, BufferSizes, SameSize, HandleOK
        <5>3. QED BY <1>6, <3>2, <5>1, <5>2
      <4>2. HandleOK(p)'
        BY <1>1, <1>3, <1>6, <2>3, <2>4, <2>7, <3>2, <4>1 DEF HandleOK, InUse, Opening
      <4>3. Covered(p)'
        BY <1>1, <1>3, <1>5, <1>6, <2>3, <2>4, <2>7, <2>8, <3>2
        DEF Covered, Long, Ready, InUse, SameSize
      <4>4. AtStep(p)' BY <3>2 DEF AtStep
      <4>5. QED BY <4>2, <4>3, <4>4
    <3>3. QED BY <1>6, <3>1, <3>2
  <2>10. file'.size >= file.size /\ Typed'
    BY <1>1, <1>3, <1>7 DEF SameSize, Typed, FileTyped, LockInv
  <2>11. Handles' BY <1>1, <1>3, <1>6, <2>1, <2>3, <2>4, <2>7, <2>9, <2>10, HandlesKept
  <2>12. Sizes'
    <3>1. CASE backend = "file"
      <4>1. FileSizes'
        BY <1>1, <1>3, <1>6, <1>8, <2>1, <2>4, <2>7, <3>1, BusyStep
        DEF CallInv, Sizes, FileSizes, SameSize
      <4>2. QED BY <1>1, <3>1, <4>1 DEF Sizes
    <3>2. CASE backend # "file"
      BY <1>1, <1>3, <1>8, <2>4, <3>2 DEF CallInv, Sizes, BufferSizes, SameSize
    <3>3. QED BY <3>1, <3>2
  <2>13. Written'
    <3>1. ~Busy("upgrade") /\ ~Busy("upgrade")' BY <1>1, <1>6, <2>1, BusyStep
    <3>2. Place(file'.version) = Place(file.version) BY <1>3 DEF Place, LEGACY
    <3>3. QED BY <1>1, <1>3, <1>8, <3>1, <3>2 DEF CallInv, Written, SameData
  <2>14. Summed' BY <1>1, <1>2, <2>6, <2>10, SumStored
  <2>15. QED BY <2>2, <2>5, <2>6, <2>11, <2>12, <2>13, <2>14 DEF CallInv
<1>9. QED BY <1>7, <1>8

(* The same, or the process dies of it.                                    *)
LEMMA RebuildStep ==
  ASSUME NEW p \in Procs, LockInv, Rebuild(p)
  PROVE  LockInv' /\ (Serial /\ CallInv => CallInv')
<1>1. h[p].pc = "rebuild" /\ UNCHANGED <<backend, wrote, born, torn, robbed>>
      /\ \/ file' = file /\ cut' = TRUE /\ Refuse(p)
         \/ Rebuilt(p) /\ cut' = cut
  BY DEF Rebuild, At, Rebuilt
<1>2. CASE file' = file /\ cut' = TRUE /\ Refuse(p)
  BY <1>1, <1>2, LossStep
<1>3. CASE Rebuilt(p) /\ cut' = cut
  BY <1>1, <1>3, RebuiltStep
<1>4. QED BY <1>1, <1>2, <1>3

(* ef_close after a growth that failed.                                    *)
LEMMA CloseLostStep ==
  ASSUME NEW p \in Procs, LockInv, CloseLost(p)
  PROVE  LockInv' /\ (Serial /\ CallInv => CallInv')
<1>1. /\ h[p].pc = "lost" /\ Refuse(p) /\ UNCHANGED <<backend, file, wrote, born, torn, robbed>>
      /\ cut' = (cut \/ (h[p].dirty /\ ~Agrees(file)))
  BY DEF CloseLost, At, Refuse
<1>2. QED BY <1>1, LossStep

(* A process dies: its handle is gone, the file stays as it is.            *)
LEMMA DieStep ==
  ASSUME NEW p \in Procs, LockInv, Die(p)
  PROVE  LockInv' /\ (Serial /\ CallInv => CallInv')
<1>1. /\ h[p].pc # "closed" /\ Refuse(p) /\ UNCHANGED <<backend, file, wrote, born, robbed>>
      /\ cut' = (cut \/ (h[p].dirty /\ ~Agrees(file)) \/ h[p].pc \in {"created", "grown", "index"})
      /\ torn' = (torn \/ h[p].pc = "upgrade")
  BY DEF Die, At
<1>2. QED BY <1>1, LossStep

-----------------------------------------------------------------------------
(* ef_upgrade.                                                             *)

(* ef_upgrade_slots_v1_to_v2, one slot: its payload survives.              *)
LEMMA UpgradeSlotStep ==
  ASSUME NEW p \in Procs, LockInv, UpgradeSlot(p)
  PROVE  LockInv' /\ (Serial /\ CallInv => CallInv')
<1>1. h[p].pc = "upgrade" /\ Typed /\ h' = h
      /\ UNCHANGED <<backend, wrote, born, cut, torn, robbed>>
  BY DEF UpgradeSlot, At, auxVars, LockInv
<1>2. PICK s \in 1..file.slots : file.slot[s] = "legacy" /\ file' = [file EXCEPT !.slot[s] = "v2"]
  BY DEF UpgradeSlot
<1>3. s \in 1..MaxSlots BY <1>1, Numbers DEF Typed, FileTyped
<1>4. /\ DOMAIN file' = FileFields /\ SameShape /\ SameLocks /\ SameTxn /\ SameSum /\ SameSize
      /\ file'.slot = [file.slot EXCEPT ![s] = "v2"]
  BY <1>1, <1>2
  DEF Typed, FileTyped, FileFields, SameShape, SameLocks, SameTxn, SameSum, SameSize
<1>5. /\ file'.slot \in [1..MaxSlots -> Places]
      /\ \A r \in 1..MaxSlots : file'.slot[r] = "none" <=> file.slot[r] = "none"
  BY <1>1, <1>2, <1>3, <1>4 DEF Typed, FileTyped, Places
<1>6. FileTyped'
  BY <1>1, <1>4, <1>5 DEF Typed, FileTyped, SameShape, SameLocks, SameTxn, SameSize
<1>7. Beside(p) /\ HandleTyped(p)' BY <1>1 DEF Typed, Beside, SameBeside, HandleTyped
<1>8. LockInv'
  <2>1. AuxTyped' BY <1>1, AuxKept DEF Typed
  <2>2. file.magic BY <1>1 DEF LockInv, MagicUsed, InUse
  <2>3. QED
    BY <1>1, <1>4, <1>6, <1>7, <2>1, <2>2, LockKept DEF SameShape, SameTxn, SameSize
<1>9. ASSUME Serial, CallInv PROVE CallInv'
  <2>1. Alone(p) BY <1>1, <1>9, InsideAlone DEF CallInv, Idle
  <2>2. HandleOK(p) /\ Covered(p) /\ AtStep(p) BY <1>9 DEF CallInv, Handles
  <2>3. Locked4' <=> Locked4 BY <1>4 DEF Locked4, SameShape, SameLocks
  <2>4. HandleOK(p)' BY <1>1, <1>4, <2>2, <2>3 DEF HandleOK, SameShape, SameSize
  <2>5. Covered(p)' BY <1>1, <1>4, <2>2, <2>3 DEF Covered, SameShape, SameSize
  <2>6. AtStep(p)' BY <1>1, <1>4, <2>2 DEF AtStep, SameShape
  <2>7. Written'
    <3>1. Busy("upgrade") /\ Busy("upgrade")' BY <1>1 DEF Busy
    <3>2. wrote \subseteq 1..MaxSlots
      BY <1>1, <1>9, Numbers DEF CallInv, Written, Typed, FileTyped
    <3>3. file'.slots = file.slots /\ file'.magic = file.magic BY <1>4 DEF SameShape
    <3>4. QED BY <1>1, <1>5, <1>9, <3>1, <3>2, <3>3 DEF CallInv, Written
  <2>8. Summed'
    BY <1>1, <1>4, <1>5, <1>7, <1>8, <1>9, SumKept DEF CallInv, LockInv, SameLocks
  <2>9. file'.b23 = 1 => cut' BY <1>1, <1>4, <1>9, <2>1, IndexFree DEF SameLocks
  <2>10. QED
    BY <1>1, <1>4, <1>7, <1>8, <1>9, <2>1, <2>4, <2>5, <2>6, <2>7, <2>8, <2>9, ShapeKept
    DEF SameLocks, SameTxn
<1>10. QED BY <1>8, <1>9

(* The log of schema 5 begins where the file was lengthened for it.        *)
LEMMA UpgradeEndsStep ==
  ASSUME NEW p \in Procs, LockInv, UpgradeEnds(p)
  PROVE  LockInv' /\ (Serial /\ CallInv => CallInv')
<1> DEFINE f == [file EXCEPT !.version = V5, !.crc = TRUE]
<1>1. /\ h[p].pc = "upgrade" /\ Typed /\ file.magic
      /\ UNCHANGED <<backend, wrote, born, cut, torn, robbed>>
      /\ file' = Stored(f)
  BY DEF UpgradeEnds, At, LockInv, MagicUsed, InUse, auxVars
<1>2. /\ DOMAIN f = FileFields /\ f.b23 = file.b23 /\ f.version = 5 /\ f.size = file.size /\ f.crc
      /\ f.magic = file.magic /\ f.slots = file.slots /\ f.cap = file.cap
      /\ f.b22 = file.b22 /\ f.b24 = file.b24 /\ f.b25 = file.b25 /\ f.slot = file.slot
  BY <1>1 DEF Typed, FileTyped, FileFields, V5
<1> HIDE DEF f
<1>3. /\ DOMAIN file' = FileFields /\ SameSize /\ SameLocks /\ SameTxn /\ SameData
      /\ file'.magic = file.magic /\ file'.slots = file.slots /\ file'.cap = file.cap
      /\ file'.version = 5 /\ file'.crc
  BY <1>1, <1>2, StoredFields DEF SameSize, SameLocks, SameTxn, SameData
<1>4. FileTyped'
  BY <1>1, <1>3 DEF Typed, FileTyped, SameSize, SameLocks, SameTxn, SameData
<1>5. /\ Beside(p) /\ HandleTyped(p)' /\ SameHandle(p)
      /\ h'[p].pc = "open" /\ h'[p].dirty = h[p].dirty /\ h'[p].active = h[p].active
  BY <1>1, GotoFields DEF UpgradeEnds
<1>6. LockInv'
  <2>1. AuxTyped' BY <1>1, AuxKept DEF Typed
  <2>2. QED BY <1>1, <1>3, <1>4, <1>5, <2>1, LockKept DEF SameTxn, SameSize
<1>7. ASSUME Serial, CallInv PROVE CallInv'
  <2>1. Alone(p) BY <1>1, <1>7, InsideAlone DEF CallInv, Idle
  <2>2. HandleOK(p) /\ Covered(p) /\ Handles BY <1>7 DEF CallInv, Handles
  <2>3. ~Locked4 /\ h[p].cap = born /\ ~h[p].ro BY <1>1, <2>2 DEF HandleOK, InUse
  <2>4. ~Locked4' BY <1>3 DEF Locked4
  <2>5. OneCall' BY <1>5, <2>1, OneCallKept
  <2>6. CapKept' BY <1>1, <1>3, <1>7 DEF CallInv, CapKept
  <2>7. LockSeen' /\ (file.b23 = 0 \/ cut')
    BY <1>1, <1>3, <1>7, <2>1, IndexFree DEF LockSeen, SameLocks
  <2>8. HandleOK(p)'
    BY <1>1, <1>3, <1>5, <2>2, <2>3, <2>4 DEF HandleOK, InUse, Opening, SameHandle, SameSize
  <2>9. Covered(p)'
    BY <1>1, <1>3, <1>5, <2>2, <2>3 DEF Covered, Ready, Long, InUse, SameHandle, SameSize
  <2>10. AtStep(p)' BY <1>5 DEF AtStep
  <2>11. file'.size >= file.size /\ Typed'
    BY <1>1, <1>3, <1>6 DEF SameSize, Typed, FileTyped, LockInv
  <2>12. Handles'
    BY <1>1, <1>3, <1>5, <2>1, <2>2, <2>4, <2>8, <2>9, <2>10, <2>11, HandlesKept
  <2>13. Sizes'
    <3>1. CASE backend = "file"
      <4>1. file.size >= ExpectedSize(file.slots, born, LogUnits)
        BY <1>1, <2>2, <2>3, <3>1 DEF Covered, Long, InUse
      <4>2. file.size # ExpectedSize(file.slots, born, 0)
        BY <1>1, <4>1, Numbers DEF Typed, FileTyped, AuxTyped, ExpectedSize
      <4>3. ~Busy("grown") BY <1>1, <1>5, <2>1, BusyStep
      <4>4. FileSizes'
        BY <1>1, <1>3, <1>7, <2>3, <3>1, <4>2, <4>3 DEF CallInv, Sizes, FileSizes, SameSize
      <4>5. QED BY <1>1, <3>1, <4>4 DEF Sizes
    <3>2. CASE backend # "file"
      BY <1>1, <1>3, <1>7, <2>3, <3>2 DEF CallInv, Sizes, BufferSizes, SameSize
    <3>3. QED BY <3>1, <3>2
  <2>14. Written'
    <3>1. Busy("upgrade") /\ ~Busy("upgrade")' BY <1>1, <1>5, <2>1, BusyStep
    <3>2. Place(file'.version) = "v2" BY <1>3 DEF Place, LEGACY
    <3>3. wrote \subseteq 1..file.slots BY <1>7 DEF CallInv, Written
    <3>4. ASSUME ~torn', NEW s \in wrote PROVE file'.slot[s] = "v2"
      <4>1. s \in 1..file.slots /\ s \in 1..MaxSlots
        BY <1>1, <3>3, Numbers DEF Typed, FileTyped
      <4>2. file.slot[s] # "none" BY <1>1, <1>7, <3>1, <3>4 DEF CallInv, Written
      <4>3. file.slot[s] # "legacy" BY <4>1 DEF UpgradeEnds
      <4>4. file.slot[s] \in Places BY <1>1, <4>1 DEF Typed, FileTyped
      <4>5. QED BY <1>3, <4>2, <4>3, <4>4 DEF Places, SameData
    <3>5. QED BY <1>1, <1>3, <3>1, <3>2, <3>3, <3>4 DEF Written
  <2>15. Summed' BY <1>1, <1>2, <2>7, <2>11, SumStored
  <2>16. QED BY <2>5, <2>6, <2>7, <2>12, <2>13, <2>14, <2>15 DEF CallInv
<1>8. QED BY <1>6, <1>7

-----------------------------------------------------------------------------
(* The initial states.                                                     *)

(* Every old file is an Image; the lock of version 3 lies where version 4  *)
(* has a part of the capacity.                                             *)
OldFile(f, version, cap, used, b23, b24, b25) ==
  /\ f = Image(version, cap, used, b23, b24, b25)
  /\ cap < 65536 /\ ExpectedSize(InitSlots, cap, LogUnits) <= Capacity
  /\ version < 3 => cap = 0
  /\ version = 3 => b23 = 0 /\ b24 \in Locks3

(* The files found at the start are empty, or of one of the versions.      *)
LEMMA ImagesOld ==
  ASSUME NEW f \in Images, f # Zeroes(0)
  PROVE  \E version \in 0..5, cap \in Nat, used \in SUBSET (1..InitSlots),
            b23 \in 0..1, b24 \in 0..2, b25 \in 0..1 : OldFile(f, version, cap, used, b23, b24, b25)
<1>1. {1} \in SUBSET (1..InitSlots) BY Numbers
<1>2. 0 < 65536 /\ ExpectedSize(InitSlots, 0, LogUnits) <= Capacity
  <2>1. PICK c \in Caps : TRUE BY FileCapacities
  <2>2. c \in Nat /\ ExpectedSize(InitSlots, c, LogUnits) <= Capacity BY CapNumbers
  <2>3. QED BY <2>2, Numbers DEF ExpectedSize
<1>3. ASSUME NEW v \in 0..V2, NEW used \in SUBSET (1..InitSlots),
             f = Image(v, 0, used, 0, 0, 0)
      PROVE  OldFile(f, v, 0, used, 0, 0, 0) /\ v \in 0..5
  BY <1>2, <1>3 DEF OldFile, V2
<1>4. ASSUME NEW c \in Caps, NEW lock \in Locks3, f = Image(V3, c, {1}, 0, lock, 0)
      PROVE  OldFile(f, 3, c, {1}, 0, lock, 0) /\ c \in Nat /\ lock \in 0..2
  <2>1. lock \in 0..2 BY FileAssumption
  <2>2. QED BY <1>4, <2>1, CapNumbers DEF OldFile, V3
<1>5. ASSUME NEW c \in Caps, NEW low \in {0, 2}, NEW high \in 0..1,
             f = Image(V4, c, {1}, 0, low, high)
      PROVE  OldFile(f, 4, c, {1}, 0, low, high) /\ c \in Nat /\ low \in 0..2
  BY <1>5, CapNumbers DEF OldFile, V4
<1>6. ASSUME NEW c \in Caps, f = Image(V4, c, {1}, 1, 0, 0)
      PROVE  OldFile(f, 4, c, {1}, 1, 0, 0) /\ c \in Nat
  BY <1>6, CapNumbers DEF OldFile, V4
<1>7. ASSUME NEW c \in Caps, f = Image(V5, c, {1}, 0, 0, 0)
      PROVE  OldFile(f, 5, c, {1}, 0, 0, 0) /\ c \in Nat
  BY <1>7, CapNumbers DEF OldFile, V5
<1>8. \/ \E v \in 0..V2, used \in SUBSET (1..InitSlots) : f = Image(v, 0, used, 0, 0, 0)
      \/ \E c \in Caps, lock \in Locks3 : f = Image(V3, c, {1}, 0, lock, 0)
      \/ \E c \in Caps, low \in {0, 2}, high \in 0..1 : f = Image(V4, c, {1}, 0, low, high)
      \/ \E c \in Caps : f = Image(V4, c, {1}, 1, 0, 0)
      \/ \E c \in Caps : f = Image(V5, c, {1}, 0, 0, 0)
  BY DEF Images
<1>9. 0 \in 0..1 /\ 0 \in 0..2 /\ 1 \in 0..1 /\ 0 \in Nat /\ 3 \in 0..5 /\ 4 \in 0..5 /\ 5 \in 0..5
  OBVIOUS
<1>10. QED BY <1>1, <1>3, <1>4, <1>5, <1>6, <1>7, <1>8, <1>9

OldFields(f, version, cap, used, b23, b24, b25) ==
  /\ DOMAIN f = FileFields
  /\ f.size = ExpectedSize(InitSlots, cap, IF version = 5 THEN LogUnits ELSE 0)
  /\ f.magic /\ f.version = version /\ f.slots = InitSlots /\ f.cap = cap
  /\ f.b22 = 0 /\ f.b23 = b23 /\ f.b24 = b24 /\ f.b25 = b25
  /\ f.slot \in [1..MaxSlots -> Places]
  /\ \A s \in 1..MaxSlots : f.slot[s] = IF s \in used THEN Place(version) ELSE "none"
  /\ (f.crc <=> version >= 2) /\ (f.crc => f.sum = Superblock(f))

(* The fields of such a file.                                              *)
LEMMA ImageFields ==
  ASSUME NEW version \in 0..5, NEW cap \in Nat, NEW used \in SUBSET (1..InitSlots),
         NEW b23 \in 0..1, NEW b24 \in 0..2, NEW b25 \in 0..1,
         NEW f, OldFile(f, version, cap, used, b23, b24, b25)
  PROVE  OldFields(f, version, cap, used, b23, b24, b25)
<1> DEFINE g == [Zeroes(ExpectedSize(InitSlots, cap, IF version = V5 THEN LogUnits ELSE 0))
                   EXCEPT !.magic = TRUE, !.version = version, !.crc = version >= V2,
                          !.slots = InitSlots, !.cap = cap, !.b23 = b23, !.b24 = b24, !.b25 = b25,
                          !.slot = [s \in 1..MaxSlots |->
                                      IF s \in used THEN Place(version) ELSE "none"]]
<1>1. /\ DOMAIN g = FileFields
      /\ g.size = ExpectedSize(InitSlots, cap, IF version = 5 THEN LogUnits ELSE 0)
      /\ g.magic /\ g.version = version /\ g.slots = InitSlots /\ g.cap = cap
      /\ (g.crc <=> version >= 2)
      /\ g.b22 = 0 /\ g.b23 = b23 /\ g.b24 = b24 /\ g.b25 = b25
      /\ g.slot = [s \in 1..MaxSlots |-> IF s \in used THEN Place(version) ELSE "none"]
  BY DEF Zeroes, FileFields, V2, V5
<1>2. f = Stored(g) BY DEF OldFile, Image
<1> HIDE DEF g
<1>3. g.crc => Stored(g).sum = Superblock(Stored(g))
  <2> DEFINE t == Stored(g)
  <2>1. /\ t.version = g.version /\ t.crc = g.crc /\ t.slots = g.slots /\ t.cap = g.cap
        /\ t.b22 = g.b22 /\ t.b23 = g.b23 /\ t.b24 = g.b24 /\ t.b25 = g.b25 /\ t.slot = g.slot
        /\ g.crc => t.sum = Superblock(g)
    BY <1>1, StoredFields
  <2> HIDE DEF t
  <2>2. Superblock(t) = Superblock(g) BY <2>1, SuperblockSame
  <2>3. g.crc => t.sum = Superblock(t) BY <2>1, <2>2
  <2>4. QED BY <2>3 DEF t
<1>4. /\ g.slot \in [1..MaxSlots -> Places]
      /\ \A s \in 1..MaxSlots : g.slot[s] = IF s \in used THEN Place(version) ELSE "none"
  BY <1>1 DEF Place, Places
<1>5. QED BY <1>1, <1>2, <1>3, <1>4, StoredFields DEF OldFields

(* What a file is at the beginning.                                        *)
LEMMA InitFile ==
  ASSUME Init
  PROVE  /\ AuxTyped /\ h = [p \in Procs |-> NoHandle] /\ torn = FALSE /\ robbed = FALSE
         /\ FileTyped /\ SizeSet /\ (cut <=> file.b23 # 0)
         /\ Locks3 \subseteq {0} => CapKept
         /\ Sizes /\ wrote \subseteq 1..file.slots /\ (~file.magic => wrote = {})
         /\ \A s \in wrote : file.slot[s] = Place(file.version)
         /\ file.crc => file.sum = Superblock(file)
<1>1. /\ backend \in {"file", "memory"} /\ h = [p \in Procs |-> NoHandle]
      /\ torn = FALSE /\ robbed = FALSE
  BY FileAssumption DEF Init
<1>2. PICK f \in Images :
        /\ file = IF backend = "file" THEN f ELSE [f EXCEPT !.size = Capacity]
        /\ wrote = {s \in 1..MaxSlots : f.slot[s] # "none"}
        /\ born = f.cap
        /\ cut = (f.b23 # 0)
  BY DEF Init
<1>3. CASE f = Zeroes(0)
  <2>1. /\ DOMAIN file = FileFields /\ file.size = (IF backend = "file" THEN 0 ELSE Capacity)
        /\ ~file.magic /\ file.version = 0 /\ ~file.crc /\ file.slots = 0 /\ file.cap = 0
        /\ file.b22 = 0 /\ file.b23 = 0 /\ file.b24 = 0 /\ file.b25 = 0
        /\ file.slot = [s \in 1..MaxSlots |-> "none"]
    BY <1>2, <1>3 DEF Zeroes, FileFields
  <2>2. FileTyped BY <1>1, <2>1, Numbers DEF FileTyped, Places
  <2>3. wrote = {} /\ born = 0 /\ cut = FALSE BY <1>2, <1>3 DEF Zeroes
  <2>4. AuxTyped /\ SizeSet /\ CapKept BY <1>1, <2>1, <2>3 DEF AuxTyped, SizeSet, CapKept
  <2>5. Sizes BY <1>1, <2>1 DEF Sizes, FileSizes, BufferSizes
  <2>6. QED BY <1>1, <2>1, <2>2, <2>3, <2>4, <2>5
<1>4. CASE f # Zeroes(0)
  <2>1. PICK version \in 0..5, cap \in Nat, used \in SUBSET (1..InitSlots),
             b23 \in 0..1, b24 \in 0..2, b25 \in 0..1 : OldFile(f, version, cap, used, b23, b24, b25)
    BY <1>4, ImagesOld
  <2>2. /\ DOMAIN f = FileFields
        /\ f.size = ExpectedSize(InitSlots, cap, IF version = 5 THEN LogUnits ELSE 0)
        /\ f.magic /\ f.version = version /\ f.slots = InitSlots /\ f.cap = cap
        /\ f.b22 = 0 /\ f.b23 = b23 /\ f.b24 = b24 /\ f.b25 = b25
        /\ f.slot \in [1..MaxSlots -> Places]
        /\ \A s \in 1..MaxSlots : f.slot[s] = IF s \in used THEN Place(version) ELSE "none"
        /\ (f.crc <=> version >= 2) /\ (f.crc => f.sum = Superblock(f))
    <3>1. OldFields(f, version, cap, used, b23, b24, b25) BY <2>1, ImageFields
    <3>2. QED BY <3>1 DEF OldFields
  <2>3. /\ DOMAIN file = FileFields /\ file.size = (IF backend = "file" THEN f.size ELSE Capacity)
        /\ file.magic /\ file.version = version /\ file.slots = InitSlots /\ file.cap = cap
        /\ file.b22 = 0 /\ file.b23 = b23 /\ file.b24 = b24 /\ file.b25 = b25
        /\ file.slot = f.slot /\ file.crc = f.crc /\ file.sum = f.sum
    BY <1>2, <2>2 DEF FileFields
  <2>4. /\ cap < 65536 /\ ExpectedSize(InitSlots, cap, LogUnits) <= Capacity
        /\ version < 3 => cap = 0
        /\ version = 3 => b23 = 0 /\ b24 \in Locks3
    BY <2>1 DEF OldFile
  <2>5. f.size \in Nat /\ f.size > 0 BY <2>2, Numbers DEF ExpectedSize
  <2>6. file.slot \in [1..MaxSlots -> Places] /\ InitSlots \in 0..MaxSlots
    BY <2>2, <2>3, Numbers
  <2>7. FileTyped BY <1>1, <2>3, <2>5, <2>6, Numbers DEF FileTyped
  <2>8. AuxTyped /\ SizeSet
    BY <1>1, <1>2, <2>2, <2>3, <2>4, <2>5 DEF AuxTyped, SizeSet
  <2>9. Locks3 \subseteq {0} => CapKept BY <1>2, <2>2, <2>3, <2>4 DEF CapKept
  <2>10. Sizes
    <3>1. CASE backend = "file"
      <4>1. FileSizes BY <1>2, <2>2, <2>3, <3>1 DEF FileSizes
      <4>2. QED BY <3>1, <4>1 DEF Sizes
    <3>2. CASE backend # "file" BY <1>2, <2>2, <2>3, <2>4, <3>2 DEF Sizes, BufferSizes
    <3>3. QED BY <3>1, <3>2
  <2>11. ASSUME NEW s \in wrote PROVE s \in 1..file.slots /\ file.slot[s] = Place(file.version)
    <3>1. s \in 1..MaxSlots /\ f.slot[s] # "none" BY <1>2
    <3>2. f.slot[s] = IF s \in used THEN Place(version) ELSE "none" BY <2>2, <3>1
    <3>3. s \in used BY <3>1, <3>2
    <3>4. QED BY <2>3, <3>2, <3>3
  <2>12. file.crc => file.sum = Superblock(file)
    <3>1. Superblock(file) = Superblock(f) BY <2>2, <2>3, SuperblockSame
    <3>2. QED BY <2>2, <2>3, <3>1
  <2>13. QED BY <1>1, <1>2, <2>2, <2>3, <2>7, <2>8, <2>9, <2>10, <2>11, <2>12
<1>5. QED BY <1>3, <1>4

(* The invariants hold at the start.                                       *)
LEMMA InitInv ==
  ASSUME Init
  PROVE  LockInv /\ SerialInv /\ (Locks3 \subseteq {0} => CallInv)
<1>1. \A p \in Procs :
        /\ DOMAIN h[p] = HandleFields /\ h[p].pc = "closed" /\ h[p].map = 0 /\ h[p].cap = 0
        /\ h[p].max = 0 /\ ~h[p].ro /\ ~h[p].dirty /\ ~h[p].active
  BY InitFile DEF NoHandle, HandleFields
<1>2. LockInv
  <2>1. \A p \in Procs : HandleTyped(p) BY <1>1, Numbers DEF HandleTyped
  <2>2. DOMAIN h = Procs BY InitFile
  <2>3. Typed BY <2>1, <2>2, InitFile DEF Typed
  <2>4. LockOwned /\ CreatedOnce /\ MagicUsed
    BY <1>1 DEF LockOwned, CreatedOnce, MagicUsed, InUse
  <2>5. QED BY <2>3, <2>4, InitFile DEF LockInv
<1>3. ASSUME Locks3 \subseteq {0} PROVE CallInv
  <2>1. OneCall BY <1>1 DEF OneCall, Idle
  <2>2. CapKept BY <1>3, InitFile
  <2>3. LockSeen BY InitFile DEF LockSeen
  <2>4. Handles
    BY <1>1, InitFile
    DEF Handles, HandleOK, Covered, AtStep, InUse, Opening, Ready, Long, FileTyped
  <2>5. Sizes BY InitFile
  <2>6. ~Busy("upgrade") BY <1>1 DEF Busy
  <2>7. Written BY <2>6, InitFile DEF Written
  <2>8. Summed
    <3>1. CASE cut BY <3>1 DEF Summed
    <3>2. CASE ~cut
      <4>1. file.b23 = 0 /\ Typed BY <1>2, <3>2, InitFile DEF LockInv
      <4>2. Superblock(Unlocked) = Superblock(file) BY <4>1, SuperblockSame, UnlockedFields
      <4>3. QED BY <4>2, InitFile DEF Summed
    <3>3. QED BY <3>1, <3>2
  <2>9. QED BY <2>1, <2>2, <2>3, <2>4, <2>5, <2>7, <2>8 DEF CallInv
<1>4. SerialInv BY <1>1 DEF SerialInv, OneCall, CheckHolds, Idle
<1>5. QED BY <1>2, <1>3, <1>4

-----------------------------------------------------------------------------
(* One call at a time.                                                     *)

(* A step of the only process inside a call, not to a step after a check.  *)
Moves(p) == Beside(p) /\ (Quiet(p) \/ h[p].pc \notin Idle) /\ h'[p].pc \notin Checks

(* It leaves at most one process inside a call.                            *)
LEMMA MovesKeep ==
  ASSUME NEW p \in Procs, Serial, SerialInv, Moves(p)
  PROVE  SerialInv'
<1>1. Alone(p) BY QuietAlone, InsideAlone DEF Moves, SerialInv
<1>2. OneCall' BY <1>1, OneCallKept DEF Moves
<1>3. ASSUME NEW q \in Procs PROVE h'[q].pc \notin Checks
  BY <1>1 DEF Moves, Alone, Beside, SameBeside, Idle, Checks
<1>4. QED BY <1>2, <1>3 DEF SerialInv, CheckHolds, Checks

(* The steps of ef_open, but for the checks.                               *)
LEMMA OpensMove ==
  ASSUME NEW p \in Procs, Typed,
         \/ InitNew(p) \/ CreateFails(p) \/ Open(p) \/ GrowOld(p) \/ MapOld(p)
         \/ GrowOldFails(p) \/ LongEnough(p) \/ OpenReadonly(p) \/ InitMemory(p) \/ OpenMemory(p)
         \/ Validate(p) \/ MigrateV3(p) \/ MigrateV4(p) \/ Recover(p) \/ Rebuild(p)
  PROVE  Moves(p)
<1>1. DOMAIN h[p] = HandleFields /\ DOMAIN NoHandle = HandleFields /\ NoHandle.pc = "closed"
  BY DEF Typed, HandleTyped, NoHandle, HandleFields
<1>2. \E hd : Step(p, hd) /\ hd.pc \notin Checks
  <2>1. \A size, label : Bound(p, size, label).pc = label /\ DOMAIN Bound(p, size, label) = HandleFields
    BY BoundFields
  <2>2. \A hd : DOMAIN hd = HandleFields => Marked(hd, file).pc = hd.pc
    BY MarkedFields
  <2>3. \A label : label \notin Checks /\ Goto(p, label) => \E hd : Step(p, hd) /\ hd.pc \notin Checks
    BY <1>1 DEF Goto, HandleFields
  <2>4. Refuse(p) => \E hd : Step(p, hd) /\ hd.pc \notin Checks
    BY <1>1 DEF Refuse, Checks
  <2>5. CASE InitNew(p)
    <3> DEFINE hd == [h[p] EXCEPT !.map = NewSize(p), !.pc = "open"]
    <3>1. hd.pc = "open" BY <1>1 DEF HandleFields
    <3>2. Step(p, hd) BY <2>5 DEF InitNew
    <3> HIDE DEF hd
    <3>3. QED BY <3>1, <3>2 DEF Checks
  <2>6. CASE CreateFails(p) \/ GrowOldFails(p)
    BY <2>4, <2>6 DEF CreateFails, GrowOldFails
  <2>7. CASE Open(p)
    BY <2>1, <2>7 DEF Open, Checks
  <2>8. CASE GrowOld(p)
    BY <2>3, <2>8 DEF GrowOld, Checks
  <2>9. CASE MapOld(p)
    BY <2>1, <2>9 DEF MapOld, Checks
  <2>10. CASE LongEnough(p)
    BY <2>3, <2>10 DEF LongEnough, Checks
  <2>11. CASE OpenReadonly(p)
    BY <2>1, <2>11 DEF OpenReadonly, Checks, HandleFields
  <2>12. CASE InitMemory(p)
    <3>1. PICK c \in Caps : Step(p, [h[p] EXCEPT !.map = ExpectedSize(InitSlots, c, LogUnits),
                                                !.cap = c, !.pc = "open"])
      BY <2>12 DEF InitMemory
    <3> DEFINE hd == [h[p] EXCEPT !.map = ExpectedSize(InitSlots, c, LogUnits),
                                  !.cap = c, !.pc = "open"]
    <3>2. hd.pc = "open" BY <1>1 DEF HandleFields
    <3>3. Step(p, hd) BY <3>1
    <3> HIDE DEF hd
    <3>4. QED BY <3>2, <3>3 DEF Checks
  <2>13. CASE OpenMemory(p)
    BY <2>1, <2>4, <2>13 DEF OpenMemory, Checks
  <2>14. CASE Validate(p)
    BY <2>1, <2>4, <2>14 DEF Validate, Checks, HandleFields
  <2>15. CASE MigrateV3(p)
    <3> DEFINE hd == [h[p] EXCEPT !.cap = CapOf(MigratedV3(file)), !.pc = "migrate"]
    <3>1. DOMAIN hd = HandleFields /\ hd.pc = "migrate" BY <1>1 DEF HandleFields
    <3>2. Step(p, Marked(hd, file)) BY <2>15 DEF MigrateV3
    <3> HIDE DEF hd
    <3>3. QED BY <2>2, <3>1, <3>2 DEF Checks
  <2>16. CASE MigrateV4(p)
    <3> DEFINE hd == [h[p] EXCEPT !.pc = "migrate"]
    <3>1. DOMAIN hd = HandleFields /\ hd.pc = "migrate" BY <1>1 DEF HandleFields
    <3>2. Step(p, Marked(hd, file)) BY <2>16 DEF MigrateV4
    <3> HIDE DEF hd
    <3>3. QED BY <2>2, <3>1, <3>2 DEF Checks
  <2>17. CASE Recover(p)
    <3> DEFINE hd == [h[p] EXCEPT !.pc = "rebuild"]
    <3>1. DOMAIN hd = HandleFields /\ hd.pc = "rebuild" BY <1>1 DEF HandleFields
    <3>2. Step(p, Marked(hd, file)) \/ Goto(p, "rebuild") BY <2>17 DEF Recover
    <3> HIDE DEF hd
    <3>3. QED BY <2>2, <2>3, <3>1, <3>2 DEF Checks
  <2>18. CASE Rebuild(p)
    <3>1. \/ Refuse(p) \/ Goto(p, "open")
          \/ Step(p, [h[p] EXCEPT !.map = V5Size(file), !.pc = "open"])
      BY <2>18 DEF Rebuild
    <3>2. [h[p] EXCEPT !.map = V5Size(file), !.pc = "open"].pc = "open"
      BY <1>1 DEF HandleFields
    <3>3. QED BY <2>3, <2>4, <3>1, <3>2 DEF Checks
  <2>19. QED
    BY <2>5, <2>6, <2>7, <2>8, <2>9, <2>10, <2>11, <2>12, <2>13, <2>14, <2>15, <2>16, <2>17, <2>18
<1>3. Quiet(p) \/ h[p].pc \notin Idle
  BY DEF Idle, At, InitNew, CreateFails, Open, GrowOld, MapOld, GrowOldFails, LongEnough,
         OpenReadonly, InitMemory, OpenMemory, Validate, MigrateV3, MigrateV4, Recover, Rebuild
<1>4. QED BY <1>2, <1>3, StepBeside DEF Moves

(* The steps of the other calls.                                           *)
LEMMA CallsMove ==
  ASSUME NEW p \in Procs, Typed,
         \/ \E s \in 1..MaxSlots : Write(p, s)
         \/ IndexEnter(p) \/ IndexLeave(p) \/ Begin(p) \/ End(p) \/ Sync(p) \/ Close(p)
         \/ Grow(p) \/ GrowFails(p) \/ Upgrade(p) \/ UpgradeEnds(p)
  PROVE  Moves(p)
<1>1. DOMAIN h[p] = HandleFields /\ NoHandle.pc = "closed"
  BY DEF Typed, HandleTyped, NoHandle
<1>2. \A hd : DOMAIN hd = HandleFields => Marked(hd, file).pc = hd.pc
  BY MarkedFields
<1>3. \A label : label \notin Checks /\ Goto(p, label) => \E hd : Step(p, hd) /\ hd.pc \notin Checks
  BY <1>1 DEF Goto, HandleFields
<1>4. \E hd : Step(p, hd) /\ hd.pc \notin Checks
  <2>1. CASE \E s \in 1..MaxSlots : Write(p, s)
    BY <1>1, <1>2, <2>1 DEF Write, Writes, At, Checks
  <2>2. CASE IndexEnter(p)
    BY <1>3, <2>2 DEF IndexEnter, Checks
  <2>3. CASE IndexLeave(p)
    <3> DEFINE hd == [h[p] EXCEPT !.pc = "open"]
    <3>1. DOMAIN hd = HandleFields /\ hd.pc = "open" BY <1>1 DEF HandleFields
    <3>2. Step(p, Marked(hd, file)) \/ Goto(p, "open") BY <2>3 DEF IndexLeave
    <3> HIDE DEF hd
    <3>3. QED BY <1>2, <1>3, <3>1, <3>2 DEF Checks
  <2>4. CASE Begin(p) \/ End(p)
    <3> DEFINE on  == [h[p] EXCEPT !.active = TRUE]
               off == [h[p] EXCEPT !.active = FALSE]
    <3>1. /\ DOMAIN on = HandleFields /\ on.pc = h[p].pc
          /\ DOMAIN off = HandleFields /\ off.pc = h[p].pc
      BY <1>1 DEF HandleFields
    <3>2. h[p].pc = "open" /\ (Step(p, Marked(on, file)) \/ Step(p, Marked(off, file)))
      BY <2>4 DEF Begin, End, Writes, At
    <3> HIDE DEF on, off
    <3>3. QED BY <1>2, <3>1, <3>2 DEF Checks
  <2>5. CASE Sync(p)
    BY <1>1, <2>5 DEF Sync, Writes, At, HandleFields, Checks
  <2>6. CASE Close(p)
    BY <1>1, <2>6 DEF Close, Checks
  <2>7. CASE Grow(p)
    <3>1. Step(p, [h[p] EXCEPT !.max = file.slots, !.pc = "grown"]) \/ Goto(p, "lost")
      BY <2>7 DEF Grow
    <3>2. [h[p] EXCEPT !.max = file.slots, !.pc = "grown"].pc = "grown"
      BY <1>1 DEF HandleFields
    <3>3. QED BY <1>3, <3>1, <3>2 DEF Checks
  <2>8. CASE GrowFails(p) \/ Upgrade(p) \/ UpgradeEnds(p)
    BY <1>3, <2>8 DEF GrowFails, Upgrade, UpgradeEnds, Checks
  <2>9. QED BY <2>1, <2>2, <2>3, <2>4, <2>5, <2>6, <2>7, <2>8
<1>5. Quiet(p) \/ h[p].pc \notin Idle
  BY DEF Idle, At, Writes, MayGrow, Write, IndexEnter, IndexLeave, Begin, End, Sync, Close, Grow,
         GrowFails, Upgrade, UpgradeEnds
<1>6. QED BY <1>4, <1>5, StepBeside DEF Moves

(* No call begins while another is under way, and nothing is done between  *)
(* a check and the stores that it decides on.                              *)
LEMMA SerialStep ==
  ASSUME LockInv, SerialInv, Serial, NEW p \in Procs,
         \/ OpenEmpty(p) \/ Create(p) \/ InitNew(p) \/ CreateFails(p) \/ Open(p) \/ GrowOld(p)
         \/ MapOld(p) \/ GrowOldFails(p) \/ LongEnough(p) \/ OpenReadonly(p)
         \/ InitMemory(p) \/ OpenMemory(p) \/ Validate(p) \/ NeedsMigration(p) \/ MigrateV3(p)
         \/ MigrateV4(p) \/ Recover(p) \/ Rebuild(p)
         \/ \E s \in 1..MaxSlots : Write(p, s)
         \/ IndexEnter(p) \/ IndexLeave(p) \/ Begin(p) \/ End(p) \/ Sync(p) \/ Close(p)
         \/ Grow(p) \/ GrowFails(p) \/ GrowEnds(p) \/ GrowMemory(p) \/ CloseLost(p)
         \/ Upgrade(p) \/ UpgradeSlot(p) \/ UpgradeEnds(p) \/ Die(p)
  PROVE  SerialInv'
<1>1. Typed /\ DOMAIN h[p] = HandleFields BY DEF LockInv, Typed, HandleTyped
<1>2. ASSUME Alone(p), Beside(p), CheckHolds(p)' PROVE SerialInv'
  <2>1. OneCall' BY <1>2, OneCallKept
  <2>2. ASSUME NEW q \in Procs, q # p PROVE h'[q].pc \notin Checks
    BY <1>2, <2>2 DEF Alone, Beside, SameBeside, Idle, Checks
  <2>3. QED BY <1>2, <2>1, <2>2 DEF SerialInv, CheckHolds, Checks
<1>3. CASE OpenEmpty(p)
  <2>1. PICK c \in Caps : Step(p, [h[p] EXCEPT !.cap = c, !.pc = "new"])
    BY <1>3 DEF OpenEmpty
  <2>2. h'[p] = [h[p] EXCEPT !.cap = c, !.pc = "new"] /\ Beside(p)
    BY <1>1, <2>1, StepBeside
  <2>3. h'[p].pc = "new" /\ h'[p].cap = c BY <1>1, <2>2 DEF HandleFields
  <2>4. Alone(p) BY <1>3, QuietAlone DEF OpenEmpty
  <2>5. CheckHolds(p)' BY <1>3, <2>3 DEF CheckHolds, OpenEmpty
  <2>6. QED BY <1>2, <2>2, <2>4, <2>5
<1>4. CASE Create(p)
  <2>1. Beside(p) /\ h'[p].pc = "created" /\ h'[p].cap = h[p].cap
    BY <1>1, <1>4, GotoFields DEF Create, SameHandle
  <2>2. h[p].pc = "new" /\ Alone(p) /\ h[p].cap \in Caps
    BY <1>4, InsideAlone DEF Create, At, SerialInv, CheckHolds, Idle
  <2>3. CheckHolds(p)' BY <2>1, <2>2 DEF CheckHolds
  <2>4. QED BY <1>2, <2>1, <2>2, <2>3
<1>5. CASE NeedsMigration(p)
  <2> DEFINE label == IF file.version = V4 THEN "v4" ELSE "v3"
  <2>1. Goto(p, label) /\ h[p].pc = "migrate" /\ file' = file
    BY <1>5 DEF NeedsMigration, At
  <2>2. (file.version = 4 /\ label = "v4") \/ (file.version = 3 /\ label = "v3")
    BY <1>5 DEF NeedsMigration, NeedsV3, V3, V4
  <2> HIDE DEF label
  <2>3. Beside(p) /\ h'[p].pc = label BY <1>1, <2>1, GotoFields
  <2>4. Alone(p) BY <2>1, InsideAlone DEF SerialInv, Idle
  <2>5. CheckHolds(p)' BY <2>1, <2>2, <2>3 DEF CheckHolds
  <2>6. QED BY <1>2, <2>3, <2>4, <2>5
<1>6. CASE UpgradeSlot(p)
  <2>1. h' = h /\ h[p].pc = "upgrade" BY <1>6 DEF UpgradeSlot, At
  <2>2. Beside(p) BY <1>1, <2>1 DEF Beside, SameBeside, Typed
  <2>3. Moves(p) BY <2>1, <2>2 DEF Moves, Idle, Checks
  <2>4. QED BY <2>3, MovesKeep
<1>7. CASE GrowEnds(p) \/ GrowMemory(p)
  <2>1. \E size, max : AppendSlots(p, size, max) BY <1>7 DEF GrowEnds, GrowMemory
  <2>2. Beside(p) /\ h'[p].pc = "open"
    <3>1. PICK size, max : AppendSlots(p, size, max) BY <2>1
    <3> DEFINE hd == [Bound(p, size, "open") EXCEPT !.max = 0]
    <3>2. DOMAIN hd = HandleFields /\ hd.pc = "open"
      BY <1>1, BoundFields DEF HandleFields
    <3>3. h' = [q \in Procs |-> IF q = p THEN Marked(hd, file)
                               ELSE [h[q] EXCEPT !.stale = (h[q].pc # "closed")]]
      BY <3>1 DEF AppendSlots
    <3> HIDE DEF hd
    <3>4. h'[p].pc = "open" BY <3>2, <3>3, MarkedFields
    <3>5. ASSUME NEW q \in Procs \ {p} PROVE SameBeside(q)
      <4>1. h'[q] = [h[q] EXCEPT !.stale = (h[q].pc # "closed")] BY <3>3
      <4>2. QED BY <1>1, <4>1 DEF SameBeside, Typed, HandleTyped, HandleFields
    <3>6. DOMAIN h' = Procs BY <3>3
    <3>7. QED BY <3>4, <3>5, <3>6 DEF Beside
  <2>3. Quiet(p) \/ h[p].pc \notin Idle
    BY <1>7 DEF GrowEnds, GrowMemory, MayGrow, Writes, At, Idle
  <2>4. Moves(p) BY <2>2, <2>3 DEF Moves, Checks
  <2>5. QED BY <2>4, MovesKeep
<1>8. CASE Die(p) \/ CloseLost(p)
  <2>1. Refuse(p) /\ file' = file /\ backend' = backend BY <1>8 DEF Die, CloseLost, Refuse
  <2>2. Beside(p) /\ h'[p].pc = "closed" BY <1>1, <2>1, RefuseFields
  <2>3. \A q \in Procs \ {p} : h'[q].pc = h[q].pc /\ h'[q].cap = h[q].cap
    BY <2>2 DEF Beside, SameBeside
  <2>4. OneCall' BY <2>2, <2>3 DEF SerialInv, OneCall, Idle
  <2>5. ASSUME NEW q \in Procs PROVE CheckHolds(q)'
    BY <2>1, <2>2, <2>3 DEF SerialInv, CheckHolds
  <2>6. QED BY <2>4, <2>5 DEF SerialInv
<1>9. CASE \/ InitNew(p) \/ CreateFails(p) \/ Open(p) \/ GrowOld(p) \/ MapOld(p)
           \/ GrowOldFails(p) \/ LongEnough(p) \/ OpenReadonly(p) \/ InitMemory(p) \/ OpenMemory(p)
           \/ Validate(p) \/ MigrateV3(p) \/ MigrateV4(p) \/ Recover(p) \/ Rebuild(p)
  BY <1>1, <1>9, OpensMove, MovesKeep
<1>10. CASE \/ \E s \in 1..MaxSlots : Write(p, s)
            \/ IndexEnter(p) \/ IndexLeave(p) \/ Begin(p) \/ End(p) \/ Sync(p) \/ Close(p)
            \/ Grow(p) \/ GrowFails(p) \/ Upgrade(p) \/ UpgradeEnds(p)
  BY <1>1, <1>10, CallsMove, MovesKeep
<1>11. QED BY <1>3, <1>4, <1>5, <1>6, <1>7, <1>8, <1>9, <1>10

-----------------------------------------------------------------------------
(* Every step.                                                             *)

(* A stuttering step changes nothing.                                      *)
LEMMA StutterInv ==
  ASSUME LockInv, UNCHANGED vars
  PROVE  LockInv' /\ (SerialInv => SerialInv') /\ (CallInv => CallInv')
<1>1. /\ backend' = backend /\ file' = file /\ h' = h /\ wrote' = wrote /\ born' = born
      /\ cut' = cut /\ torn' = torn /\ robbed' = robbed
  BY DEF vars, auxVars
<1>2. Typed' BY <1>1 DEF LockInv, Typed, FileTyped, HandleTyped, AuxTyped
<1>3. LockOwned' BY <1>1 DEF LockInv, LockOwned, OnV5
<1>4. SizeSet' /\ CreatedOnce' /\ MagicUsed' BY <1>1 DEF LockInv, SizeSet, CreatedOnce, MagicUsed
<1>5. ASSUME CallInv PROVE CallInv'
  <2>1. OneCall' /\ CapKept' /\ LockSeen'
    BY <1>1, <1>5 DEF CallInv, OneCall, CapKept, LockSeen, Busy
  <2>2. Handles' BY <1>1, <1>5 DEF CallInv, Handles, HandleOK, Covered, AtStep, NewSize, Locked4
  <2>3. Sizes' BY <1>1, <1>5 DEF CallInv, Sizes, FileSizes, BufferSizes, Locked4, Busy
  <2>4. Written' BY <1>1, <1>5 DEF CallInv, Written, Busy
  <2>5. Summed' BY <1>1, <1>5 DEF CallInv, Summed, Unlocked
  <2>6. QED BY <2>1, <2>2, <2>3, <2>4, <2>5 DEF CallInv
<1>6. SerialInv => SerialInv' BY <1>1 DEF SerialInv, OneCall, CheckHolds
<1>7. QED BY <1>2, <1>3, <1>4, <1>5, <1>6 DEF LockInv

(* Every step keeps the invariants.                                        *)
LEMMA StepInv ==
  ASSUME Serial, LockInv, SerialInv, [Next]_vars
  PROVE  LockInv' /\ SerialInv' /\ (CallInv => CallInv')
<1>1. CASE UNCHANGED vars BY <1>1, StutterInv
<1>2. CASE Next
  <2>1. PICK p \in Procs :
          \/ OpenEmpty(p) \/ Create(p) \/ InitNew(p) \/ CreateFails(p) \/ Open(p) \/ GrowOld(p)
          \/ MapOld(p) \/ GrowOldFails(p) \/ LongEnough(p) \/ OpenReadonly(p)
          \/ InitMemory(p) \/ OpenMemory(p) \/ Validate(p) \/ NeedsMigration(p) \/ MigrateV3(p)
          \/ MigrateV4(p) \/ Recover(p) \/ Rebuild(p)
          \/ \E s \in 1..MaxSlots : Write(p, s)
          \/ IndexEnter(p) \/ IndexLeave(p) \/ Begin(p) \/ End(p) \/ Sync(p) \/ Close(p)
          \/ Grow(p) \/ GrowFails(p) \/ GrowEnds(p) \/ GrowMemory(p) \/ CloseLost(p)
          \/ Upgrade(p) \/ UpgradeSlot(p) \/ UpgradeEnds(p) \/ Die(p)
    BY <1>2 DEF Next
  <2>0. SerialInv' BY <2>1, SerialStep
  <2> SUFFICES LockInv' /\ (CallInv => CallInv') BY <2>0
  <2>2. CASE OpenEmpty(p) \/ Create(p) \/ InitNew(p) \/ CreateFails(p) \/ InitMemory(p)
    BY <2>2, OpenEmptyStep, CreateStep, InitNewStep, CreateFailsStep, InitMemoryStep
  <2>3. CASE Open(p) \/ OpenReadonly(p) \/ OpenMemory(p) \/ Validate(p)
    BY <2>3, OpenStep, OpenReadonlyStep, OpenMemoryStep, ValidateStep
  <2>4. CASE GrowOld(p) \/ MapOld(p) \/ GrowOldFails(p) \/ LongEnough(p)
    BY <2>4, GrowOldStep, MapOldStep, GrowOldFailsStep, LongEnoughStep
  <2>5. CASE NeedsMigration(p) \/ MigrateV3(p) \/ MigrateV4(p) \/ Recover(p) \/ Rebuild(p)
    BY <2>5, NeedsMigrationStep, MigrateV3Step, MigrateV4Step, RecoverStep, RebuildStep
  <2>6. CASE \E s \in 1..MaxSlots : Write(p, s)
    BY <2>6, WriteStep
  <2>7. CASE IndexEnter(p) \/ IndexLeave(p) \/ Begin(p) \/ End(p) \/ Sync(p) \/ Close(p)
    BY <2>7, IndexEnterStep, IndexLeaveStep, BeginStep, EndStep, SyncStep, CloseStep
  <2>8. CASE Grow(p) \/ GrowFails(p) \/ GrowEnds(p) \/ GrowMemory(p) \/ CloseLost(p)
    BY <2>8, GrowStep, GrowFailsStep, GrowEndsStep, GrowMemoryStep, CloseLostStep
  <2>9. CASE Upgrade(p) \/ UpgradeSlot(p) \/ UpgradeEnds(p) \/ Die(p)
    BY <2>9, UpgradeStep, UpgradeSlotStep, UpgradeEndsStep, DieStep
  <2>10. QED BY <2>1, <2>2, <2>3, <2>4, <2>5, <2>6, <2>7, <2>8, <2>9
<1>3. QED BY <1>1, <1>2

-----------------------------------------------------------------------------
(* When callers make one call at a time, wherever a process dies, and      *)
(* whatever lock a file of version 3 was left with: the files, the handles *)
(* and the sizes are of their types, what an ef_open has checked still     *)
(* holds when it stores, and every process in a transaction is on a file   *)
(* of schema 5 and, until an ef_open takes it for a stale one, has the     *)
(* lock byte.                                                              *)
THEOREM FileLocks ==
  ASSUME Serial
  PROVE  Spec => [](LockInv /\ SerialInv)
<1>1. Init => LockInv /\ SerialInv BY InitInv
<1>2. (LockInv /\ SerialInv) /\ [Next]_vars => (LockInv /\ SerialInv)' BY StepInv
<1>3. QED BY <1>1, <1>2, PTL DEF Spec

(* ef_sb_txn_lock_try_acquire, ef_txn_commit, ef_txn_abort, the migrations *)
(* and ef_upgrade leave one process at a time in a transaction, when       *)
(* callers make one call at a time, until ef_txn_recover_from_stale_lock   *)
(* replays that of a live process.                                         *)
THEOREM TxnLockTheorem ==
  ASSUME Serial
  PROVE  Spec => []TxnExcludes
<1>1. LockInv => TxnExcludes BY DEF LockInv, LockOwned, TxnExcludes
<1>2. QED BY <1>1, FileLocks, PTL

(* When callers make one call at a time and no file of version 3 was left  *)
(* with its queue lock: what each step of ef_open, ef_grow, ef_upgrade and *)
(* ef_close relies on, for every number of handles, slots and sizes.       *)
THEOREM FileInvariant ==
  ASSUME Serial, Locks3 \subseteq {0}
  PROVE  Spec => []CallInv
<1>1. Init => LockInv /\ SerialInv /\ CallInv BY InitInv
<1>2. (LockInv /\ SerialInv /\ CallInv) /\ [Next]_vars => (LockInv /\ SerialInv /\ CallInv)'
  BY StepInv
<1>3. QED BY <1>1, <1>2, PTL DEF Spec

(* The mapping of an open handle that no growth of another handle has made *)
(* stale lies within the file, and one that may write reaches to the end   *)
(* of the log of schema 5 (ef_port_grow_file, ef_grow, the size that       *)
(* ef_open checks after the free list is rebuilt).                         *)
THEOREM MappingTheorem ==
  ASSUME Serial, Locks3 \subseteq {0}
  PROVE  Spec => []MappingCovers
<1>1. CallInv => MappingCovers
  <2>1. SUFFICES ASSUME CallInv, NEW p \in Procs, h[p].pc = "open", ~h[p].stale
                 PROVE  /\ h[p].map <= file.size
                        /\ (~h[p].ro /\ ~cut) =>
                             h[p].map >= ExpectedSize(file.slots, h[p].cap, LogUnits)
    BY DEF MappingCovers
  <2>2. HandleOK(p) /\ Covered(p) BY <2>1 DEF CallInv, Handles
  <2>3. QED BY <2>1, <2>2 DEF HandleOK, Covered, InUse, Ready
<1>2. QED BY <1>1, FileInvariant, PTL

(* Migrations, growth, upgrades and the opens and closes of other handles  *)
(* leave every payload where ef_slot_payload_ptr looks for it, and every   *)
(* open handle with the capacity that places the slots.                    *)
THEOREM PayloadTheorem ==
  ASSUME Serial, Locks3 \subseteq {0}
  PROVE  Spec => []PayloadsKept
<1>1. CallInv => PayloadsKept
  <2>1. SUFFICES ASSUME CallInv, ~torn, \A q \in Procs : h[q].pc # "upgrade",
                        NEW p \in Procs, h[p].pc \in {"rebuild", "open"}
                 PROVE  h[p].cap = born /\ \A s \in wrote : file.slot[s] = Place(file.version)
    BY DEF PayloadsKept
  <2>2. h[p].cap = born BY <2>1 DEF CallInv, Handles, HandleOK, InUse
  <2>3. ~Busy("upgrade") BY <2>1 DEF Busy
  <2>4. QED BY <2>1, <2>2, <2>3 DEF CallInv, Written
<1>2. QED BY <1>1, FileInvariant, PTL

(* The file that is left when every handle that may write is closed has    *)
(* the size, the capacity and the checksum that ef_validate_superblock     *)
(* asks for, unless a change was cut short.                                *)
LEMMA AcceptedInv ==
  ASSUME LockInv, CallInv
  PROVE  Accepted
<1> SUFFICES ASSUME ~cut, \A p \in Procs : h[p].ro \/ h[p].pc = "closed", file.size # 0,
                    ~(backend = "memory" /\ ~file.magic)
             PROVE  Valid(file, IF backend = "file" THEN file.size ELSE OwnSize(file))
  BY DEF Accepted
<1>1. Typed /\ backend \in {"file", "memory"} BY DEF LockInv, Typed, AuxTyped
<1>2. \A p \in Procs : ~h[p].dirty /\ h[p].pc \in {"closed", "init", "open"}
  BY DEF CallInv, Handles, HandleOK, Opening
<1>3. ~Busy("created") /\ ~Busy("grown") /\ ~Busy("index") BY <1>2 DEF Busy
<1>4. file.magic BY <1>1, <1>3 DEF CallInv, Sizes, FileSizes
<1>5. file.b23 = 0 BY <1>1, <1>3 DEF CallInv, LockSeen, Typed, FileTyped
<1>6. ~Locked4 /\ CapOf(file) = born BY <1>1, <1>4, <1>5, CapBorn DEF CallInv, Locked4
<1>7. CapOf(file) < Big BY <1>1, <1>6 DEF Typed, AuxTyped, Big
<1>8. file.crc => file.sum = Superblock(file)
  <2>1. Superblock(Unlocked) = Superblock(file) BY <1>1, <1>5, SuperblockSame, UnlockedFields
  <2>2. QED BY <1>2, <2>1 DEF CallInv, Summed
<1>9. OwnSize(file) = ExpectedSize(file.slots, born, IF file.version = 5 THEN LogUnits ELSE 0)
  BY <1>6 DEF OwnSize, V5
<1>10. CASE backend = "file"
  <2>1. \/ file.version < 5 /\ file.size = ExpectedSize(file.slots, born, 0)
        \/ file.size = ExpectedSize(file.slots, born, LogUnits)
    BY <1>3, <1>4, <1>6, <1>10 DEF CallInv, Sizes, FileSizes
  <2>2. IF file.version = 5 THEN file.size = OwnSize(file) ELSE file.size >= OwnSize(file)
    BY <1>1, <1>9, <2>1, Numbers DEF Typed, FileTyped, AuxTyped, ExpectedSize
  <2>3. QED BY <1>4, <1>7, <1>8, <1>10, <2>2 DEF Valid, V5
<1>11. CASE backend # "file"
  <2>1. OwnSize(file) \in Nat BY <1>1, SizeNat DEF Typed
  <2>2. QED BY <1>4, <1>7, <1>8, <1>11, <2>1 DEF Valid
<1>12. QED BY <1>10, <1>11

(* In whatever order handles open, migrate, write, grow, upgrade and close *)
(* the file, the next ef_open accepts what they leave, unless a death or a *)
(* failed system call has cut a change of it short.                        *)
THEOREM AcceptedTheorem ==
  ASSUME Serial, Locks3 \subseteq {0}
  PROVE  Spec => []Accepted
<1>1. LockInv /\ CallInv => Accepted BY AcceptedInv
<1>2. QED BY <1>1, FileLocks, FileInvariant, PTL

=============================================================================
