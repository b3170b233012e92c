-------------------------- MODULE BufferPoolManager --------------------------
(***************************************************************************)
(* The buffer pool manager of src/buffer/buffer_pool_manager.cpp with the  *)
(* page guards of src/storage/page/page_guard.cpp, run by concurrent       *)
(* client threads, and the LRU-K replacer composed in as R.                *)
(*                                                                         *)
(* Granularity.  A BPM method that holds bpm_latch_ for its whole body and *)
(* touches no frame another thread may be using is one atomic step (its    *)
(* disk I/O included: it blocks on future.get() under the latch).  Steps   *)
(* are split where another thread can act in between: a guard takes the   *)
(* frame's rwlatch_ and records the access after bpm_latch_ is released;   *)
(* Drop releases rwlatch_ before it takes bpm_latch_; FlushPage holds      *)
(* bpm_latch_ but not rwlatch_ across its write, so writers run meanwhile. *)
(*                                                                         *)
(* Guards.  Guards is a pool of guard objects; a free one is unused or     *)
(* moved-from (is_valid_ false: inert).  A thread may hold several guards, *)
(* move them and drop them in any order.                                   *)
(*                                                                         *)
(* Data.  A page's bytes are one value: Zero (what Reset and a fresh disk  *)
(* slot hold) or a member of Values.  latest and deleted are history       *)
(* variables: the value last stored into each page by a writer, and the    *)
(* pages deleted and not written since.                                    *)
(***************************************************************************)
EXTENDS Integers, Sequences, FiniteSets, Functions

CONSTANTS
    Threads,        \* client threads
    Guards,         \* guard objects (model values)
    FlushCallers,   \* the threads that also call BufferPoolManager::FlushPage
    NumFrames,      \* num_frames_
    NumPages,       \* bound on page ids: 0 .. NumPages - 1
    K,              \* k_dist of the replacer
    Values,         \* page contents a writer may store (model values)
    Zero,           \* all-zero page contents (model value)
    NoThread,       \* "nobody holds it" (model value)
    NoGuard,        \* "no guard" (model value)
    MaxOps,         \* bound on the BPM calls clients start
    EagerReadLimit, \* NewPage reads page ids <= 16 back from disk
    FetchAhead,     \* TRUE: clients also fetch ids NewPage has not handed out
    DeleteAbsent,   \* TRUE: clients also delete pages that are not in memory
    PointerOutlivesFlush  \* TRUE: a writer keeps storing through a GetDataMut
                          \* pointer taken before its guard's Flush

VARIABLES
    pageTable,      \* page_table_: page id -> frame id, or NoFrame
    freeFrames,     \* free_frames_ (front = head)
    pinCount,       \* FrameHeader::pin_count_
    isDirty,        \* FrameHeader::is_dirty_
    frameData,      \* FrameHeader::data_
    disk,           \* page contents on disk, behind the disk scheduler
    nextPageId,     \* next_page_id_
    bpmLatch,       \* holder of bpm_latch_ across a blocking step, or NoThread
    readers,        \* threads holding a frame's rwlatch_ shared
    writer,         \* thread holding a frame's rwlatch_ exclusively, or NoThread
    pc,             \* "idle"; "flushing" (inside FlushPage's write);
                    \* "flushAll" (in FlushAllPages' loop); "allFlushing"
                    \* (inside the write of a FlushPage that loop called)
    flushFrame,     \* the frame FlushPage is writing
    allLeft,        \* FlushAllPages: the entries its iterator has still to visit
    allTable,       \* FlushAllPages: page_table_ as its iteration began
    gOwner,         \* thread owning each guard object, NoThread if free
    gPhase,         \* "free", "latch", "record", "held" or "unpin"
    gPage,          \* page_id_
    gFrame,         \* frame_
    gMode,          \* "read" for a ReadPageGuard, "write" for a WritePageGuard
    gMut,           \* GetDataMut has handed this guard's client a mutable pointer
    gMoveFrom,      \* operator=: the guard being moved in once Drop is done
    latest,         \* history: last value stored into each page
    deleted,        \* history: pages deleted and not written since
    opsLeft,        \* BPM calls still to be started
    nodeStore, history, isEvictable, coldFrames, hotFrames,
    currentTimestamp, currSize

FrameIds == 0 .. NumFrames - 1
PageIds == 0 .. NumPages - 1

R == INSTANCE LRUKReplacer

replacerVars ==
    <<nodeStore, history, isEvictable, coldFrames, hotFrames,
      currentTimestamp, currSize>>
bpmVars == <<pageTable, freeFrames, pinCount, isDirty, frameData, disk, nextPageId>>
threadVars == <<bpmLatch, readers, writer, pc, flushFrame, allLeft, allTable, opsLeft>>
guardVars == <<gOwner, gPhase, gPage, gFrame, gMode, gMut, gMoveFrom>>
histVars == <<latest, deleted>>
vars == <<bpmVars, threadVars, guardVars, histVars, replacerVars>>

NoFrame == R!NoFrame
Data == Values \cup {Zero}

(* Guard phases.  "latch": pinned, the constructor waits for rwlatch_;    *)
(* "record": latched, RecordAccess pending; "held": valid; "unpin": Drop  *)
(* released rwlatch_ and waits for bpm_latch_.                            *)
Pinned == {"latch", "record", "held", "unpin"}
Latched == {"record", "held"}

Resident(p) == pageTable[p] # NoFrame

(* FindPage: the page the frame holds, by a scan of page_table_. *)
FindPage(f) == CHOOSE p \in PageIds : pageTable[p] = f

(* What a page reads as: its frame if resident, else its disk slot. *)
Image(p) == IF Resident(p) THEN frameData[pageTable[p]] ELSE disk[p]

(* disk_scheduler_->DeallocatePage: the slot is reclaimed, so a later read *)
(* of the page yields zeros like a never-written page.                     *)
Deallocate(d, p) == [d EXCEPT ![p] = Zero]

Init ==
    /\ pageTable = [p \in PageIds |-> NoFrame]
    /\ freeFrames = [i \in 1 .. NumFrames |-> i - 1]
    /\ pinCount = [f \in FrameIds |-> 0]
    /\ isDirty = [f \in FrameIds |-> FALSE]
    /\ frameData = [f \in FrameIds |-> Zero]
    /\ disk = [p \in PageIds |-> Zero]
    /\ nextPageId = 0
    /\ bpmLatch = NoThread
    /\ readers = [f \in FrameIds |-> {}]
    /\ writer = [f \in FrameIds |-> NoThread]
    /\ pc = [t \in Threads |-> "idle"]
    /\ flushFrame = [t \in Threads |-> NoFrame]
    /\ allLeft = [t \in Threads |-> {}]
    /\ allTable = [t \in Threads |-> [p \in PageIds |-> NoFrame]]
    /\ gOwner = [g \in Guards |-> NoThread]
    /\ gPhase = [g \in Guards |-> "free"]
    /\ gPage = [g \in Guards |-> 0]
    /\ gFrame = [g \in Guards |-> NoFrame]
    /\ gMode = [g \in Guards |-> "read"]
    /\ gMut = [g \in Guards |-> FALSE]
    /\ gMoveFrom = [g \in Guards |-> NoGuard]
    /\ latest = [p \in PageIds |-> Zero]
    /\ deleted = {}
    /\ opsLeft = MaxOps
    /\ R!ReplacerInit
-----------------------------------------------------------------------------
(* Steps shared by the BPM methods. *)

Owned(t) == {g \in Guards : gOwner[g] = t}

(* The thread is inside a flush call, or blocked in a guard constructor   *)
(* or Drop.                                                               *)
Busy(t) == pc[t] # "idle" \/ \E g \in Owned(t) : gPhase[g] \in Pinned \ {"held"}

(* A BPM call or a guard move spends one of the clients' calls. *)
Spend == opsLeft > 0 /\ opsLeft' = opsLeft - 1

(* A client starts a BPM call: it takes bpm_latch_, which nobody may be   *)
(* holding across a blocking step.                                        *)
StartCall(t) ==
    /\ ~Busy(t)
    /\ bpmLatch = NoThread
    /\ Spend

(* The fetch returns a guard, still to be constructed, on frame f. *)
BeginGuard(t, p, f, mode) ==
    \E g \in Guards :
        /\ gPhase[g] = "free"
        /\ gOwner' = [gOwner EXCEPT ![g] = t]
        /\ gPhase' = [gPhase EXCEPT ![g] = "latch"]
        /\ gPage' = [gPage EXCEPT ![g] = p]
        /\ gFrame' = [gFrame EXCEPT ![g] = f]
        /\ gMode' = [gMode EXCEPT ![g] = mode]
        /\ UNCHANGED <<gMut, gMoveFrom>>

(* Guard a takes over b's fields and b is left invalid (the member-wise   *)
(* moves of the move constructor and operator=, then that.is_valid_ =     *)
(* false and the nulled pointers).                                        *)
MoveFields(b, a) ==
    /\ gOwner' = [gOwner EXCEPT ![a] = gOwner[b], ![b] = NoThread]
    /\ gPhase' = [gPhase EXCEPT ![a] = gPhase[b], ![b] = "free"]
    /\ gPage' = [gPage EXCEPT ![a] = gPage[b], ![b] = 0]
    /\ gFrame' = [gFrame EXCEPT ![a] = gFrame[b], ![b] = NoFrame]
    /\ gMode' = [gMode EXCEPT ![a] = gMode[b], ![b] = "read"]
    /\ gMut' = [gMut EXCEPT ![a] = gMut[b], ![b] = FALSE]
    /\ gMoveFrom' = [gMoveFrom EXCEPT ![a] = NoGuard, ![b] = NoGuard]

(* The guard object is invalid and inert again. *)
EndGuard(g) ==
    /\ gOwner' = [gOwner EXCEPT ![g] = NoThread]
    /\ gPhase' = [gPhase EXCEPT ![g] = "free"]
    /\ gPage' = [gPage EXCEPT ![g] = 0]
    /\ gFrame' = [gFrame EXCEPT ![g] = NoFrame]
    /\ gMode' = [gMode EXCEPT ![g] = "read"]
    /\ gMut' = [gMut EXCEPT ![g] = FALSE]
    /\ gMoveFrom' = [gMoveFrom EXCEPT ![g] = NoGuard]

-----------------------------------------------------------------------------
(* CheckedReadPage / CheckedWritePage: the two are the same code up to the *)
(* guard type, so each case is one action with the mode as a parameter.   *)

(* Mutant: the hit path pins but leaves the frame evictable. *)
FetchResidentStaysEvictable(t, p, mode) ==
    LET f == pageTable[p] IN
    /\ StartCall(t)
    /\ Resident(p)
    /\ pinCount' = [pinCount EXCEPT ![f] = @ + 1]
    /\ UNCHANGED replacerVars
    /\ BeginGuard(t, p, f, mode)
    /\ UNCHANGED <<pageTable, freeFrames, isDirty, frameData, disk, nextPageId,
                   bpmLatch, readers, writer, pc, flushFrame, allLeft, allTable, histVars>>

(* Case 1: the page is resident.  Pin it and make it non-evictable.       *)
FetchResident(t, p, mode) ==
    LET f == pageTable[p] IN
    /\ StartCall(t)
    /\ Resident(p)
    /\ pinCount' = [pinCount EXCEPT ![f] = @ + 1]
    /\ R!SetEvictable(f, FALSE)
    /\ BeginGuard(t, p, f, mode)
    /\ UNCHANGED <<pageTable, freeFrames, isDirty, frameData, disk, nextPageId,
                   bpmLatch, readers, writer, pc, flushFrame, allLeft, allTable, histVars>>

(* Case 2: take the head of free_frames_, pin it, SetEvictable(false)     *)
(* (the frame may still have a node left behind by DeletePage), map the   *)
(* page and read it from disk.                                            *)
FetchFree(t, p, mode) ==
    LET f == Head(freeFrames) IN
    /\ StartCall(t)
    /\ ~Resident(p)
    /\ freeFrames # <<>>
    /\ freeFrames' = Tail(freeFrames)
    /\ pinCount' = [pinCount EXCEPT ![f] = @ + 1]
    /\ R!SetEvictable(f, FALSE)
    /\ pageTable' = [pageTable EXCEPT ![p] = f]
    /\ frameData' = [frameData EXCEPT ![f] = disk[p]]
    /\ BeginGuard(t, p, f, mode)
    /\ UNCHANGED <<isDirty, disk, nextPageId, bpmLatch, readers, writer, pc,
                   flushFrame, allLeft, allTable, histVars>>

(* Mutant: Pin before Reset, so the new pin is wiped. *)
FetchEvictPinThenReset(t, p, mode) ==
    LET v == R!Victim  old == FindPage(v) IN
    /\ StartCall(t)
    /\ ~Resident(p)
    /\ freeFrames = <<>>
    /\ v # NoFrame
    /\ R!Evict
    /\ disk' = IF isDirty[v] THEN [disk EXCEPT ![old] = frameData[v]] ELSE disk
    /\ isDirty' = [isDirty EXCEPT ![v] = FALSE]
    /\ pinCount' = [pinCount EXCEPT ![v] = 0]
    /\ pageTable' = [pageTable EXCEPT ![old] = NoFrame, ![p] = v]
    /\ frameData' = [frameData EXCEPT ![v] = disk'[p]]
    /\ BeginGuard(t, p, v, mode)
    /\ UNCHANGED <<freeFrames, nextPageId, bpmLatch, readers, writer, pc,
                   flushFrame, allLeft, allTable, histVars>>

(* Mutant: the old page_table_ entry is not erased. *)
FetchEvictKeepsOldEntry(t, p, mode) ==
    LET v == R!Victim  old == FindPage(v) IN
    /\ StartCall(t)
    /\ ~Resident(p)
    /\ freeFrames = <<>>
    /\ v # NoFrame
    /\ R!Evict
    /\ disk' = IF isDirty[v] THEN [disk EXCEPT ![old] = frameData[v]] ELSE disk
    /\ isDirty' = [isDirty EXCEPT ![v] = FALSE]
    /\ pinCount' = [pinCount EXCEPT ![v] = 1]
    /\ pageTable' = [pageTable EXCEPT ![p] = v]
    /\ frameData' = [frameData EXCEPT ![v] = disk'[p]]
    /\ BeginGuard(t, p, v, mode)
    /\ UNCHANGED <<freeFrames, nextPageId, bpmLatch, readers, writer, pc,
                   flushFrame, allLeft, allTable, histVars>>

(* Mutant: a dirty victim is not written back. *)
FetchEvictNoWriteBack(t, p, mode) ==
    LET v == R!Victim  old == FindPage(v) IN
    /\ StartCall(t)
    /\ ~Resident(p)
    /\ freeFrames = <<>>
    /\ v # NoFrame
    /\ R!Evict
    /\ UNCHANGED disk
    /\ isDirty' = [isDirty EXCEPT ![v] = FALSE]
    /\ pinCount' = [pinCount EXCEPT ![v] = 1]
    /\ pageTable' = [pageTable EXCEPT ![old] = NoFrame, ![p] = v]
    /\ frameData' = [frameData EXCEPT ![v] = disk'[p]]
    /\ BeginGuard(t, p, v, mode)
    /\ UNCHANGED <<freeFrames, nextPageId, bpmLatch, readers, writer, pc,
                   flushFrame, allLeft, allTable, histVars>>

(* Case 3: no free frame.  Evict a victim, find its page by FindPage      *)
(* (.value() would throw if none; FrameAccounting shows there always is   *)
(* one), write it back if dirty, Reset then Pin the frame, remap, and     *)
(* read the page in.  The SetEvictable(false) after Evict is a no-op:     *)
(* Evict erased the node.                                                 *)
FetchEvict(t, p, mode) ==
    LET v   == R!Victim
        old == FindPage(v)
    IN
    /\ StartCall(t)
    /\ ~Resident(p)
    /\ freeFrames = <<>>
    /\ v # NoFrame
    /\ R!Evict
    /\ disk' = IF isDirty[v] THEN [disk EXCEPT ![old] = frameData[v]] ELSE disk
    /\ isDirty' = [isDirty EXCEPT ![v] = FALSE]
    /\ pinCount' = [pinCount EXCEPT ![v] = 1]   \* Reset to 0, then Pin
    /\ pageTable' = [pageTable EXCEPT ![old] = NoFrame, ![p] = v]
    /\ frameData' = [frameData EXCEPT ![v] = disk'[p]]
    /\ BeginGuard(t, p, v, mode)
    /\ UNCHANGED <<freeFrames, nextPageId, bpmLatch, readers, writer, pc,
                   flushFrame, allLeft, allTable, histVars>>

(* Case 4: Evict found nothing: unlock and return std::nullopt. *)
FetchOutOfMemory(t, p) ==
    /\ StartCall(t)
    /\ ~Resident(p)
    /\ freeFrames = <<>>
    /\ R!Victim = NoFrame
    /\ UNCHANGED <<bpmVars, bpmLatch, readers, writer, pc, flushFrame, allLeft, allTable, guardVars,
                   histVars, replacerVars>>

(* The two entry points: the same four cases in the same order. *)
CheckedReadPage(t, p) ==
    \/ FetchResident(t, p, "read")
    \/ FetchFree(t, p, "read")
    \/ FetchEvict(t, p, "read")
    \/ FetchOutOfMemory(t, p)

CheckedWritePage(t, p) ==
    \/ FetchResident(t, p, "write")
    \/ FetchFree(t, p, "write")
    \/ FetchEvict(t, p, "write")
    \/ FetchOutOfMemory(t, p)

-----------------------------------------------------------------------------
(* The page guards. *)

(* ReadPageGuard constructor: lock_shared blocks while a writer holds it. *)
LatchShared(g) ==
    LET f == gFrame[g] IN
    /\ gPhase[g] = "latch"
    /\ gMode[g] = "read"
    /\ writer[f] = NoThread
    /\ readers' = [readers EXCEPT ![f] = @ \cup {gOwner[g]}]
    /\ gPhase' = [gPhase EXCEPT ![g] = "record"]
    /\ UNCHANGED <<bpmVars, bpmLatch, writer, pc, flushFrame, allLeft, allTable, opsLeft, gOwner, gPage,
                   gFrame, gMode, gMut, gMoveFrom, histVars, replacerVars>>

(* Mutant: lock() does not wait for the readers to leave. *)
LatchExclusiveIgnoresReaders(g) ==
    LET f == gFrame[g] IN
    /\ gPhase[g] = "latch"
    /\ gMode[g] = "write"
    /\ writer[f] = NoThread
    /\ writer' = [writer EXCEPT ![f] = gOwner[g]]
    /\ gPhase' = [gPhase EXCEPT ![g] = "record"]
    /\ UNCHANGED <<bpmVars, bpmLatch, readers, pc, flushFrame, allLeft, allTable, opsLeft, gOwner, gPage,
                   gFrame, gMode, gMut, gMoveFrom, histVars, replacerVars>>

(* WritePageGuard constructor: lock blocks while anyone holds it. *)
LatchExclusive(g) ==
    LET f == gFrame[g] IN
    /\ gPhase[g] = "latch"
    /\ gMode[g] = "write"
    /\ writer[f] = NoThread
    /\ readers[f] = {}
    /\ writer' = [writer EXCEPT ![f] = gOwner[g]]
    /\ gPhase' = [gPhase EXCEPT ![g] = "record"]
    /\ UNCHANGED <<bpmVars, bpmLatch, readers, pc, flushFrame, allLeft, allTable, opsLeft, gOwner, gPage,
                   gFrame, gMode, gMut, gMoveFrom, histVars, replacerVars>>

(* Both constructors then call RecordAccess, without bpm_latch_, and set  *)
(* is_valid_.                                                             *)
RecordGuardAccess(g) ==
    /\ gPhase[g] = "record"
    /\ R!RecordAccess(gFrame[g])
    /\ gPhase' = [gPhase EXCEPT ![g] = "held"]
    /\ UNCHANGED <<bpmVars, threadVars, gOwner, gPage, gFrame, gMode, gMut, gMoveFrom,
                   histVars>>

(* The owner uses a valid guard while it is not blocked elsewhere. *)
Usable(g) == gPhase[g] = "held" /\ ~Busy(gOwner[g])

(* Mutant: GetDataMut hands out the pointer without setting is_dirty_. *)
GetDataMutNoDirty(g) ==
    /\ Usable(g)
    /\ gMode[g] = "write"
    /\ gMut' = [gMut EXCEPT ![g] = TRUE]
    /\ UNCHANGED <<bpmVars, threadVars, gOwner, gPhase, gPage, gFrame, gMode,
                   gMoveFrom, histVars, replacerVars>>

(* WritePageGuard::GetDataMut: mark the frame dirty and hand out the      *)
(* mutable pointer.                                                       *)
GetDataMut(g) ==
    /\ Usable(g)
    /\ gMode[g] = "write"
    /\ isDirty' = [isDirty EXCEPT ![gFrame[g]] = TRUE]
    /\ gMut' = [gMut EXCEPT ![g] = TRUE]
    /\ UNCHANGED <<pageTable, freeFrames, pinCount, frameData, disk, nextPageId,
                   threadVars, gOwner, gPhase, gPage, gFrame, gMode, gMoveFrom,
                   histVars, replacerVars>>

(* The holder of a mutable pointer (FrameHeader::GetDataMut) stores new   *)
(* contents into the frame; latest and deleted record it.                 *)
Store(g, val) ==
    /\ Usable(g)
    /\ gMut[g]
    /\ frameData' = [frameData EXCEPT ![gFrame[g]] = val]
    /\ latest' = [latest EXCEPT ![gPage[g]] = val]
    /\ deleted' = deleted \ {gPage[g]}
    /\ UNCHANGED <<pageTable, freeFrames, pinCount, isDirty, disk, nextPageId,
                   threadVars, guardVars, replacerVars>>

(* ReadPageGuard::Flush / WritePageGuard::Flush (same body): if dirty,    *)
(* write the frame to the page's slot, wait, clear is_dirty_.  No         *)
(* bpm_latch_; the guard's own rwlatch_ excludes writers (or is the       *)
(* writer).  When clean it does nothing.  Unless PointerOutlivesFlush,   *)
(* the client calls GetDataMut again before storing after a Flush.        *)
Flush(g) ==
    LET f == gFrame[g] IN
    /\ Usable(g)
    /\ isDirty[f]
    /\ disk' = [disk EXCEPT ![gPage[g]] = frameData[f]]
    /\ isDirty' = [isDirty EXCEPT ![f] = FALSE]
    /\ gMut' = IF PointerOutlivesFlush THEN gMut ELSE [gMut EXCEPT ![g] = FALSE]
    /\ UNCHANGED <<pageTable, freeFrames, pinCount, frameData, nextPageId,
                   threadVars, gOwner, gPhase, gPage, gFrame, gMode, gMoveFrom,
                   histVars, replacerVars>>

(* rwlatch_.unlock_shared() or unlock() by the guard's owner. *)
ReleaseLatch(g) ==
    LET f == gFrame[g] IN
    /\ readers' = [readers EXCEPT ![f] = @ \ {gOwner[g]}]
    /\ writer' = IF writer[f] = gOwner[g] THEN [writer EXCEPT ![f] = NoThread] ELSE writer

(* Mutant: unlock_shared is missing from ReadPageGuard::Drop. *)
DropReleaseKeepsShared(g) ==
    LET f == gFrame[g] IN
    /\ Usable(g)
    /\ writer' = IF writer[f] = gOwner[g] THEN [writer EXCEPT ![f] = NoThread] ELSE writer
    /\ gPhase' = [gPhase EXCEPT ![g] = "unpin"]
    /\ UNCHANGED <<bpmVars, bpmLatch, readers, pc, flushFrame, allLeft, allTable, opsLeft, gOwner, gPage,
                   gFrame, gMode, gMut, gMoveFrom, histVars, replacerVars>>

(* Drop (or the destructor) of a valid guard, first half: release         *)
(* rwlatch_.                                                              *)
DropRelease(g) ==
    /\ Usable(g)
    /\ ReleaseLatch(g)
    /\ gPhase' = [gPhase EXCEPT ![g] = "unpin"]
    /\ UNCHANGED <<bpmVars, bpmLatch, pc, flushFrame, allLeft, allTable, opsLeft, gOwner, gPage,
                   gFrame, gMode, gMut, gMoveFrom, histVars, replacerVars>>

(* Mutant: the second half of Drop unpins but never calls SetEvictable. *)
DropUnpinNoSetEvictable(g) ==
    LET f == gFrame[g] IN
    /\ gPhase[g] = "unpin"
    /\ bpmLatch = NoThread
    /\ pinCount' = [pinCount EXCEPT ![f] = @ - 1]
    /\ UNCHANGED replacerVars
    /\ IF gMoveFrom[g] = NoGuard THEN EndGuard(g) ELSE MoveFields(gMoveFrom[g], g)
    /\ UNCHANGED <<pageTable, freeFrames, isDirty, frameData, disk, nextPageId,
                   threadVars, histVars>>

(* Drop, second half, under bpm_latch_: invalidate, Unpin, and make the   *)
(* frame evictable if the pin count reached zero.  Inside operator= the   *)
(* guard then takes over the moved-in guard.                              *)
DropUnpin(g) ==
    LET f == gFrame[g] IN
    /\ gPhase[g] = "unpin"
    /\ bpmLatch = NoThread
    /\ pinCount' = [pinCount EXCEPT ![f] = @ - 1]
    /\ IF pinCount'[f] = 0 THEN R!SetEvictable(f, TRUE) ELSE UNCHANGED replacerVars
    /\ IF gMoveFrom[g] = NoGuard THEN EndGuard(g) ELSE MoveFields(gMoveFrom[g], g)
    /\ UNCHANGED <<pageTable, freeFrames, isDirty, frameData, disk, nextPageId,
                   threadVars, histVars>>

(* Mutant: the move constructor does not invalidate the moved-from guard. *)
MoveConstructKeepsSource(b, a) ==
    /\ Usable(b)
    /\ gPhase[a] = "free"
    /\ gOwner' = [gOwner EXCEPT ![a] = gOwner[b]]
    /\ gPhase' = [gPhase EXCEPT ![a] = gPhase[b]]
    /\ gPage' = [gPage EXCEPT ![a] = gPage[b]]
    /\ gFrame' = [gFrame EXCEPT ![a] = gFrame[b]]
    /\ gMode' = [gMode EXCEPT ![a] = gMode[b]]
    /\ gMut' = [gMut EXCEPT ![a] = gMut[b]]
    /\ Spend
    /\ UNCHANGED <<gMoveFrom, bpmVars, bpmLatch, readers, writer, pc, flushFrame, allLeft, allTable,
                   histVars, replacerVars>>

(* Move constructor: a fresh guard object a takes over valid guard b. *)
MoveConstruct(b, a) ==
    /\ Usable(b)
    /\ gPhase[a] = "free"
    /\ MoveFields(b, a)
    /\ Spend
    /\ UNCHANGED <<bpmVars, bpmLatch, readers, writer, pc, flushFrame, allLeft, allTable, histVars,
                   replacerVars>>

(* Mutant: operator= moves b in without dropping a first. *)
MoveAssignNoDrop(a, b) ==
    /\ a # b
    /\ Usable(a)
    /\ Usable(b)
    /\ gOwner[a] = gOwner[b]
    /\ gMode[a] = gMode[b]
    /\ MoveFields(b, a)
    /\ Spend
    /\ UNCHANGED <<bpmVars, bpmLatch, readers, writer, pc, flushFrame, allLeft, allTable, histVars,
                   replacerVars>>

(* operator=(that) of a valid guard a with another valid guard b of the   *)
(* same type: this->Drop() releases a's rwlatch_ now, DropUnpin unpins a  *)
(* and then moves b's fields into a.  Assigning to an invalid guard is    *)
(* MoveConstruct (its Drop is a no-op); self-assignment does nothing.     *)
MoveAssign(a, b) ==
    /\ a # b
    /\ Usable(a)
    /\ Usable(b)
    /\ gOwner[a] = gOwner[b]
    /\ gMode[a] = gMode[b]
    /\ ReleaseLatch(a)
    /\ gPhase' = [gPhase EXCEPT ![a] = "unpin"]
    /\ gMoveFrom' = [gMoveFrom EXCEPT ![a] = b]
    /\ Spend
    /\ UNCHANGED <<bpmVars, bpmLatch, pc, flushFrame, allLeft, allTable, gOwner, gPage, gFrame,
                   gMode, gMut, histVars, replacerVars>>

-----------------------------------------------------------------------------
(* FlushPage and FlushPageUnsafe. *)

(* Absent or clean: return false. *)
CleanOrAbsent(p) == IF Resident(p) THEN ~isDirty[pageTable[p]] ELSE TRUE

(* Dirty: schedule the write of the frame and block on the future, still  *)
(* holding bpm_latch_ and no rwlatch_; the thread then waits at "at".     *)
WriteOut(t, p, at) ==
    LET f == pageTable[p] IN
    /\ Resident(p)
    /\ isDirty[f]
    /\ disk' = [disk EXCEPT ![p] = frameData[f]]
    /\ bpmLatch' = t
    /\ pc' = [pc EXCEPT ![t] = at]
    /\ flushFrame' = [flushFrame EXCEPT ![t] = f]
    /\ UNCHANGED <<pageTable, freeFrames, pinCount, isDirty, frameData, nextPageId,
                   readers, writer, guardVars, histVars, replacerVars>>

FlushPageClean(t, p) ==
    /\ StartCall(t)
    /\ CleanOrAbsent(p)
    /\ UNCHANGED <<bpmVars, bpmLatch, readers, writer, pc, flushFrame, allLeft, allTable,
                   guardVars, histVars, replacerVars>>

FlushPageWrite(t, p) ==
    /\ StartCall(t)
    /\ WriteOut(t, p, "flushing")
    /\ UNCHANGED <<allLeft, allTable>>

(* The future returns: clear is_dirty_, return true, unlock; back to the  *)
(* caller, FlushAllPages' loop if it made the call.                       *)
FlushPageDone(t) ==
    /\ pc[t] \in {"flushing", "allFlushing"}
    /\ isDirty' = [isDirty EXCEPT ![flushFrame[t]] = FALSE]
    /\ bpmLatch' = NoThread
    /\ pc' = [pc EXCEPT ![t] = IF pc[t] = "flushing" THEN "idle" ELSE "flushAll"]
    /\ flushFrame' = [flushFrame EXCEPT ![t] = NoFrame]
    /\ UNCHANGED <<pageTable, freeFrames, pinCount, frameData, disk, nextPageId,
                   readers, writer, opsLeft, allLeft, allTable, guardVars, histVars,
                   replacerVars>>

(* The entry points: FlushPageUnsafe has FlushPage's body, bpm_latch_     *)
(* included, so both are the same two outcomes.                           *)
FlushPage(t, p) == FlushPageClean(t, p) \/ FlushPageWrite(t, p)

FlushPageUnsafe(t, p) == FlushPageClean(t, p) \/ FlushPageWrite(t, p)

-----------------------------------------------------------------------------
(* FlushAllPages and FlushAllPagesUnsafe: a range-for over page_table_,   *)
(* calling FlushPage (FlushPageUnsafe) on each key, with no bpm_latch_    *)
(* held by the loop itself.  FlushPage takes and releases bpm_latch_ per  *)
(* entry, so other threads insert and erase entries between iterations.   *)
(* Iterating a std::unordered_map that another thread modifies is a data  *)
(* race; once the table differs from the one the iteration began on, the  *)
(* iterator may yield any key (stale, new or repeated) or stop.           *)

(* The loop begins: begin() is read without bpm_latch_. *)
FlushAllStart(t) ==
    /\ ~Busy(t)
    /\ Spend
    /\ pc' = [pc EXCEPT ![t] = "flushAll"]
    /\ allLeft' = [allLeft EXCEPT ![t] = {p \in PageIds : Resident(p)}]
    /\ allTable' = [allTable EXCEPT ![t] = pageTable]
    /\ UNCHANGED <<bpmVars, bpmLatch, readers, writer, flushFrame, guardVars, histVars,
                   replacerVars>>

FlushAllPages(t) == FlushAllStart(t)

FlushAllPagesUnsafe(t) == FlushAllStart(t)

(* page_table_ changed under the iterator. *)
Raced(t) == pageTable # allTable[t]

(* The keys the iterator can yield next. *)
NextEntries(t) == IF Raced(t) THEN PageIds ELSE allLeft[t]

(* One iteration: FlushPage(key) under bpm_latch_, clean or absent. *)
FlushAllVisitClean(t, p) ==
    /\ pc[t] = "flushAll"
    /\ bpmLatch = NoThread
    /\ p \in NextEntries(t)
    /\ CleanOrAbsent(p)
    /\ allLeft' = [allLeft EXCEPT ![t] = @ \ {p}]
    /\ UNCHANGED <<bpmVars, bpmLatch, readers, writer, pc, flushFrame, opsLeft, allTable,
                   guardVars, histVars, replacerVars>>

(* One iteration: FlushPage(key) of a dirty page, which blocks on its write. *)
FlushAllVisitWrite(t, p) ==
    /\ pc[t] = "flushAll"
    /\ bpmLatch = NoThread
    /\ p \in NextEntries(t)
    /\ WriteOut(t, p, "allFlushing")
    /\ allLeft' = [allLeft EXCEPT ![t] = @ \ {p}]
    /\ UNCHANGED <<opsLeft, allTable>>

(* The iterator reaches end(): every entry visited, or early after a race. *)
FlushAllEnd(t) ==
    /\ pc[t] = "flushAll"
    /\ allLeft[t] = {} \/ Raced(t)
    /\ pc' = [pc EXCEPT ![t] = "idle"]
    /\ allLeft' = [allLeft EXCEPT ![t] = {}]
    /\ allTable' = [allTable EXCEPT ![t] = [p \in PageIds |-> NoFrame]]
    /\ UNCHANGED <<bpmVars, bpmLatch, readers, writer, flushFrame, opsLeft, guardVars,
                   histVars, replacerVars>>

-----------------------------------------------------------------------------
(* NewPage. *)

(* NewPage once it has frame f: if f still holds a page (the scan of      *)
(* page_table_), write that page out whatever its dirty flag and unmap    *)
(* it; Reset the frame; map next_page_id_ to it and bump the counter;     *)
(* for ids <= 16 read the new page back from disk.  The frame is neither  *)
(* pinned nor given to the replacer (those calls are commented out).      *)
NewPageInto(f) ==
    LET hasOld == \E q \in PageIds : pageTable[q] = f
        old    == FindPage(f)
        new    == nextPageId
        table1 == IF hasOld THEN [pageTable EXCEPT ![old] = NoFrame] ELSE pageTable
    IN
    /\ disk' = IF hasOld THEN [disk EXCEPT ![old] = frameData[f]] ELSE disk
    /\ pageTable' = [table1 EXCEPT ![new] = f]
    /\ frameData' = [frameData EXCEPT ![f] = IF new <= EagerReadLimit THEN disk'[new] ELSE Zero]
    /\ pinCount' = [pinCount EXCEPT ![f] = 0]
    /\ isDirty' = [isDirty EXCEPT ![f] = FALSE]
    /\ nextPageId' = new + 1

(* A frame from free_frames_. *)
NewPageFree(t) ==
    /\ StartCall(t)
    /\ nextPageId < NumPages
    /\ freeFrames # <<>>
    /\ freeFrames' = Tail(freeFrames)
    /\ NewPageInto(Head(freeFrames))
    /\ UNCHANGED <<bpmLatch, readers, writer, pc, flushFrame, allLeft, allTable, guardVars, histVars,
                   replacerVars>>

(* A frame from replacer_->Evict(). *)
NewPageEvict(t) ==
    /\ StartCall(t)
    /\ nextPageId < NumPages
    /\ freeFrames = <<>>
    /\ R!Victim # NoFrame
    /\ NewPageInto(R!Victim)
    /\ R!Evict
    /\ UNCHANGED <<freeFrames, bpmLatch, readers, writer, pc, flushFrame, allLeft, allTable, guardVars,
                   histVars>>

(* Evict found nothing: return INVALID_PAGE_ID. *)
NewPageInvalid(t) ==
    /\ StartCall(t)
    /\ nextPageId < NumPages
    /\ freeFrames = <<>>
    /\ R!Victim = NoFrame
    /\ UNCHANGED <<bpmVars, bpmLatch, readers, writer, pc, flushFrame, allLeft, allTable, guardVars,
                   histVars, replacerVars>>

-----------------------------------------------------------------------------
(* DeletePage. *)

(* Not in page_table_: return true at once.  DeallocatePage is not        *)
(* called, so the page's slot on disk keeps its contents.                 *)
DeletePageAbsent(t, p) ==
    /\ StartCall(t)
    /\ ~Resident(p)
    /\ deleted' = deleted \cup {p}
    /\ UNCHANGED <<bpmVars, bpmLatch, readers, writer, pc, flushFrame, allLeft, allTable, guardVars,
                   latest, replacerVars>>

(* Pinned: return false. *)
DeletePagePinned(t, p) ==
    /\ StartCall(t)
    /\ Resident(p)
    /\ pinCount[pageTable[p]] > 0
    /\ UNCHANGED <<bpmVars, bpmLatch, readers, writer, pc, flushFrame, allLeft, allTable, guardVars,
                   histVars, replacerVars>>

(* Unpinned: write back if dirty, unmap, push the frame on free_frames_,  *)
(* DeallocatePage, Reset the frame.  replacer_->Remove is not called, so  *)
(* the frame's node (history and evictable flag) stays in the replacer.   *)
(* The page's contents are gone, so latest goes back to Zero.             *)
DeletePageFree(t, p) ==
    LET f == pageTable[p] IN
    /\ StartCall(t)
    /\ Resident(p)
    /\ pinCount[f] = 0
    /\ disk' = Deallocate(IF isDirty[f] THEN [disk EXCEPT ![p] = frameData[f]] ELSE disk, p)
    /\ pageTable' = [pageTable EXCEPT ![p] = NoFrame]
    /\ freeFrames' = Append(freeFrames, f)
    /\ frameData' = [frameData EXCEPT ![f] = Zero]
    /\ pinCount' = [pinCount EXCEPT ![f] = 0]
    /\ isDirty' = [isDirty EXCEPT ![f] = FALSE]
    /\ latest' = [latest EXCEPT ![p] = Zero]
    /\ deleted' = deleted \cup {p}
    /\ UNCHANGED <<nextPageId, bpmLatch, readers, writer, pc, flushFrame, allLeft, allTable, guardVars,
                   replacerVars>>

-----------------------------------------------------------------------------
(* The clients.  Page ids used are those NewPage handed out (or all of    *)
(* PageIds with FetchAhead).  A thread latches pages in increasing id     *)
(* order: it fetches only ids above those of the guards it holds, as a    *)
(* client must to avoid deadlocking on rwlatch_ (and never locks a        *)
(* std::shared_mutex it already holds).                                   *)

Ids == IF FetchAhead THEN PageIds ELSE 0 .. nextPageId - 1

Fetchable(t) == {p \in Ids : \A g \in Owned(t) : p > gPage[g]}

ThreadNext(t) ==
    \/ \E p \in Fetchable(t) : CheckedReadPage(t, p)
    \/ \E p \in Fetchable(t) : CheckedWritePage(t, p)
    \/ NewPageFree(t)
    \/ NewPageEvict(t)
    \/ NewPageInvalid(t)
    \/ DeleteAbsent /\ \E p \in Ids : DeletePageAbsent(t, p)
    \/ \E p \in Ids : DeletePagePinned(t, p)
    \/ \E p \in Ids : DeletePageFree(t, p)
    \/ t \in FlushCallers /\ \E p \in Ids : FlushPage(t, p)
    \/ t \in FlushCallers /\ \E p \in Ids : FlushPageUnsafe(t, p)
    \/ FlushPageDone(t)
    \/ t \in FlushCallers /\ FlushAllPages(t)
    \/ t \in FlushCallers /\ FlushAllPagesUnsafe(t)
    \/ \E p \in PageIds : FlushAllVisitClean(t, p)
    \/ \E p \in PageIds : FlushAllVisitWrite(t, p)
    \/ FlushAllEnd(t)

GuardNext(g) ==
    \/ LatchShared(g)
    \/ LatchExclusive(g)
    \/ RecordGuardAccess(g)
    \/ GetDataMut(g)
    \/ \E val \in Values : Store(g, val)
    \/ Flush(g)
    \/ DropRelease(g)
    \/ DropUnpin(g)
    \/ \E a \in Guards : MoveConstruct(g, a)
    \/ \E b \in Guards : MoveAssign(g, b)

(* All calls spent, every thread idle and every guard dropped. *)
Terminated ==
    /\ opsLeft = 0
    /\ \A t \in Threads : pc[t] = "idle"
    /\ \A g \in Guards : gPhase[g] = "free"
    /\ UNCHANGED vars

Next ==
    \/ \E t \in Threads : ThreadNext(t)
    \/ \E g \in Guards : GuardNext(g)
    \/ Terminated

(* Threads keep being scheduled: a guard constructor gets its rwlatch_    *)
(* once it stays free, a dropping or flushing thread finishes, and every  *)
(* guard is eventually dropped (guards are scoped objects).  A            *)
(* FlushAllPages loop keeps iterating and ends: a range-for over a finite  *)
(* map; a raced iterator is assumed to end too.                            *)
Fairness ==
    /\ \A g \in Guards :
          /\ WF_vars(LatchShared(g) \/ LatchExclusive(g))
          /\ WF_vars(RecordGuardAccess(g))
          /\ WF_vars(DropRelease(g))
          /\ WF_vars(DropUnpin(g))
    /\ \A t \in Threads :
          /\ WF_vars(FlushPageDone(t))
          /\ WF_vars(\E p \in PageIds : FlushAllVisitClean(t, p) \/ FlushAllVisitWrite(t, p))
          /\ WF_vars(FlushAllEnd(t))

Spec == Init /\ [][Next]_vars /\ Fairness
-----------------------------------------------------------------------------
(* Properties. *)

TypeOK ==
    /\ pageTable \in [PageIds -> FrameIds \cup {NoFrame}]
    /\ freeFrames \in Seq(FrameIds)
    /\ pinCount \in [FrameIds -> Nat]
    /\ isDirty \in [FrameIds -> BOOLEAN]
    /\ frameData \in [FrameIds -> Data]
    /\ disk \in [PageIds -> Data]
    /\ nextPageId \in 0 .. NumPages
    /\ bpmLatch \in Threads \cup {NoThread}
    /\ readers \in [FrameIds -> SUBSET Threads]
    /\ writer \in [FrameIds -> Threads \cup {NoThread}]
    /\ pc \in [Threads -> {"idle", "flushing", "flushAll", "allFlushing"}]
    /\ flushFrame \in [Threads -> FrameIds \cup {NoFrame}]
    /\ allLeft \in [Threads -> SUBSET PageIds]
    /\ allTable \in [Threads -> [PageIds -> FrameIds \cup {NoFrame}]]
    /\ gOwner \in [Guards -> Threads \cup {NoThread}]
    /\ gPhase \in [Guards -> Pinned \cup {"free"}]
    /\ gPage \in [Guards -> PageIds]
    /\ gFrame \in [Guards -> FrameIds \cup {NoFrame}]
    /\ gMode \in [Guards -> {"read", "write"}]
    /\ gMut \in [Guards -> BOOLEAN]
    /\ gMoveFrom \in [Guards -> Guards \cup {NoGuard}]
    /\ latest \in [PageIds -> Data]
    /\ deleted \subseteq PageIds
    /\ opsLeft \in 0 .. MaxOps
    /\ R!ReplacerTypeOK

(* Every frame is either on free_frames_ (once) or the frame of exactly   *)
(* one page of page_table_, never both and never neither.  NewPage,       *)
(* DeletePage and the eviction path of the fetches each move a frame      *)
(* between the two; FetchEvict's FindPage(...).value() relies on this.    *)
FrameAccounting ==
    LET mapped == {pageTable[p] : p \in {q \in PageIds : Resident(q)}} IN
    /\ \A f \in FrameIds : (f \in Range(freeFrames)) # (f \in mapped)
    /\ IsInjective(freeFrames)
    /\ \A p, q \in PageIds : Resident(p) /\ pageTable[p] = pageTable[q] => p = q

(* pin_count_ of every frame equals the number of guard objects that hold *)
(* a pin on it: fetched and not yet through the second half of Drop,      *)
(* whatever moves (constructor or operator=) happened in between.  The    *)
(* pin is taken under bpm_latch_ in the fetch and given back under it in  *)
(* Drop, with the guard constructor and the rwlatch_ release in between.  *)
PinsMatchGuards ==
    \A f \in FrameIds :
        pinCount[f] = Cardinality({g \in Guards : gPhase[g] \in Pinned /\ gFrame[g] = f})

(* Each frame's rwlatch_ is held by exactly the owners of the constructed, *)
(* not yet dropped guards on it: shared by read guards, exclusively by one *)
(* write guard.  Moves and operator='s Drop must hand latches over or      *)
(* release them, never leak or duplicate them.                            *)
LatchesMatchGuards ==
    \A f \in FrameIds :
        LET on(m) == {g \in Guards : gPhase[g] \in Latched /\ gFrame[g] = f /\ gMode[g] = m}
        IN  /\ readers[f] = {gOwner[g] : g \in on("read")}
            /\ writer[f] = IF on("write") = {} THEN NoThread
                           ELSE gOwner[CHOOSE g \in on("write") : TRUE]
            /\ Cardinality(on("write")) <= 1

(* The replacer and the pin counts agree: a mapped frame the replacer     *)
(* tracks is evictable exactly when it is unpinned.  The fetches clear     *)
(* the flag under bpm_latch_ when they pin, the last Drop sets it when it *)
(* unpins, RecordAccess (outside bpm_latch_) creates nodes non-evictable,  *)
(* and a frame DeletePage freed keeps its stale node into its next page.   *)
EvictableIffUnpinned ==
    \A p \in PageIds :
        Resident(p) /\ pageTable[p] \in nodeStore =>
            (isEvictable[pageTable[p]] <=> pinCount[pageTable[p]] = 0)

(* While a guard holds a pin, its page stays in its frame: no eviction    *)
(* by another thread's fetch or NewPage and no DeletePage takes the frame *)
(* away, through the window between the fetch releasing bpm_latch_ and    *)
(* the guard taking rwlatch_, and the one between Drop's unlock and unpin.*)
GuardedPageResident ==
    \A g \in Guards : gPhase[g] \in Pinned => pageTable[gPage[g]] = gFrame[g]

(* No write is lost: every page reads (from its frame if resident, else   *)
(* from disk) as the last value a writer stored into it.  Eviction writes *)
(* back only frames whose is_dirty_ is set, so this needs every path that *)
(* clears is_dirty_ (guard Flush, FlushPage, eviction) to clear it only   *)
(* when the disk holds the frame's current contents.                      *)
NoLostUpdate == \A p \in PageIds : Image(p) = latest[p]

(* A resident page whose frame differs from its disk slot is dirty (spec  *)
(* section 3, invariant 6: is_dirty_ is set when mutable access is handed *)
(* out and cleared only by a flush of the current contents).  Eviction    *)
(* and DeletePage trust is_dirty_ to decide whether to write back.        *)
ModifiedImpliesDirty ==
    \A p \in PageIds : Resident(p) /\ frameData[pageTable[p]] # disk[p] => isDirty[pageTable[p]]

(* No thread changes page_table_ while FlushAllPages (or the Unsafe        *)
(* variant) iterates it: the loop holds no bpm_latch_ between entries, and  *)
(* the specification has the one BPM mutex guard every access to the page  *)
(* table.  A fetch, NewPage or DeletePage in that window races with the    *)
(* iterator.                                                               *)
TableStableDuringFlushAll ==
    \A t \in Threads : pc[t] \in {"flushAll", "allFlushing"} => pageTable = allTable[t]

(* A page DeletePage reported deleted reads as zeros until written again  *)
(* (spec section 8: a deleted page's prior contents are never read back). *)
DeletedPageReadsZero == \A p \in deleted : Image(p) = Zero

(* A fetch returns std::nullopt, and NewPage INVALID_PAGE_ID, only when   *)
(* every frame is pinned (the OutOfMemory case of the spec).              *)
OutOfMemoryOnlyWhenAllPinned ==
    [][\A t \in Threads :
          ((\E p \in PageIds : FetchOutOfMemory(t, p)) \/ NewPageInvalid(t))
              => \A f \in FrameIds : pinCount[f] > 0]_vars

(* A fetch that pinned its frame always ends with a valid guard: the      *)
(* constructor blocked on rwlatch_ gets it, because Drop releases rwlatch_ *)
(* before it waits for bpm_latch_, no thread waits for rwlatch_ while     *)
(* holding bpm_latch_, and clients latch pages in id order.               *)
GuardEventuallyValid == \A g \in Guards : gPhase[g] = "latch" ~> gPhase[g] = "held"

(* The buffer pool, seen through the pages' images and the guards that    *)
(* hold them, is the page store of PageStore: a page's contents change    *)
(* only by a store of the client holding it exclusively or by DeletePage *)
(* of a page nobody holds, and read and write holders exclude each other *)
(* page by page.                                                          *)
Abstract == INSTANCE PageStore
    WITH Pages <- PageIds, Clients <- Threads, NoClient <- NoThread,
         store <- [p \in PageIds |-> Image(p)],
         writerOf <- [p \in PageIds |->
             IF \E g \in Guards : gPhase[g] \in Latched /\ gMode[g] = "write" /\ gPage[g] = p
             THEN gOwner[CHOOSE g \in Guards : gPhase[g] \in Latched /\ gMode[g] = "write"
                                                 /\ gPage[g] = p]
             ELSE NoThread],
         readersOf <- [p \in PageIds |->
             {gOwner[g] : g \in {h \in Guards : gPhase[h] \in Latched /\ gMode[h] = "read"
                                                /\ gPage[h] = p}}],
         nextPage <- nextPageId

ImplementsPageStore == Abstract!Spec
=============================================================================
