----------------------------- MODULE MemoryCard -----------------------------
(***************************************************************************)
(* A raw memory card (Core/HW/GCMemcardRaw.cpp): the guest reads and       *)
(* writes an image of the card in memory, and a thread copies the image to *)
(* the host's file from time to time and when the card is destroyed.       *)
(*                                                                         *)
(* The thread sleeps in WaitFor() on m_flush_trigger, an Event taken here  *)
(* as its abstraction AutoResetEvent; the destructor raises it to make the *)
(* thread write once more and exit.  m_dirty says that the image changed;  *)
(* m_flush_mutex protects the copy of the image, which takes several steps,*)
(* from the guest's writes, which do too.                                  *)
(*                                                                         *)
(* The owner is the thread that runs the guest, creates the card and       *)
(* destroys it.  What the guest writes, and the size and the format of the *)
(* card, are left out; a write to the file succeeds once it is open.       *)
(***************************************************************************)
CONSTANTS
  Blocks,       \* the blocks of the card
  Contents,     \* what a block may contain
  Erased,       \* what ClearBlock() leaves
  Formatted,    \* what a new card holds in each block
  NoFile,       \* the host has no file for the card
  Owner, Flusher, Nobody,  \* who holds m_flush_mutex
  Savestates    \* whether states that contain the card are loaded

ASSUME CardAssumption ==
  /\ Erased \in Contents /\ Formatted \in Contents
  /\ NoFile \notin [Blocks -> Contents]
  /\ Owner # Flusher /\ Nobody \notin {Owner, Flusher}
  /\ Savestates \in BOOLEAN

VARIABLES
  m_memcard_data, m_flush_buffer, m_dirty, m_flush_mutex,
  signal, phase,   \* m_flush_trigger
  file,            \* the card on the host's disk
  at,              \* where the owner is
  job,             \* the blocks its operation has still to change, with their contents
  thread,          \* where the flush thread is
  do_exit,
  copied,          \* the blocks copied since the flush thread took the mutex
  pending,         \* auxiliary: blocks that the guest changed since they were copied
  gaveUp,          \* auxiliary: no thread, or it returned without being asked to
  loaded           \* auxiliary: a state was loaded since it took the mutex

card == <<m_memcard_data, pending>>
flush == <<m_flush_buffer, copied, do_exit>>
trigger == <<signal, phase>>
owner == <<at, job>>
vars == <<card, flush, trigger, owner, m_dirty, m_flush_mutex, file, thread, gaveUp, loaded>>

m_flush_trigger == INSTANCE AutoResetEvent WITH Waiters <- {Flusher}

Image == [Blocks -> Contents]

TypeOK ==
  /\ m_memcard_data \in Image /\ m_flush_buffer \in Image
  /\ file \in Image \cup {NoFile}
  /\ m_dirty \in BOOLEAN /\ do_exit \in BOOLEAN /\ gaveUp \in BOOLEAN /\ loaded \in BOOLEAN
  /\ m_flush_mutex \in {Owner, Flusher, Nobody}
  /\ m_flush_trigger!TypeOK
  /\ at \in {"off", "running", "writing", "makeDirty", "joining"}
  /\ thread \in {"start", "wait", "test", "open", "lock", "copy", "write", "gone"}
  /\ copied \subseteq Blocks /\ pending \subseteq Blocks
  /\ \E todo \in SUBSET Blocks : job \in [todo -> Contents]
  /\ m_flush_mutex = Owner <=> at = "writing"
  /\ m_flush_mutex = Flusher <=> thread = "copy"

Goto(from, to) == at = from /\ at' = to

Step(from, to) == thread = from /\ thread' = to

Lock(who) == m_flush_mutex = Nobody /\ m_flush_mutex' = who

Unlock(who) == m_flush_mutex = who /\ m_flush_mutex' = Nobody

Init ==
  /\ file \in Image \cup {NoFile}
  /\ m_memcard_data = [b \in Blocks |-> Formatted] /\ m_flush_buffer = m_memcard_data
  /\ m_dirty = FALSE /\ do_exit = FALSE /\ gaveUp = TRUE /\ loaded = FALSE
  /\ m_flush_mutex = Nobody
  /\ m_flush_trigger!Init
  /\ at = "off" /\ job = <<>>
  /\ thread = "gone"
  /\ copied = {} /\ pending = {}

-----------------------------------------------------------------------------
(* The owner. *)

\* The constructor reads the file, if there is one, and starts the flush thread.
MemoryCard ==
  /\ Goto("off", "running")
  /\ m_memcard_data' = IF file = NoFile THEN [b \in Blocks |-> Formatted] ELSE file
  /\ m_dirty' = FALSE /\ do_exit' = FALSE /\ gaveUp' = FALSE /\ loaded' = FALSE
  /\ signal' = FALSE /\ phase' = [w \in {Flusher} |-> "idle"]
  /\ m_flush_mutex' = Nobody
  /\ thread' = "start"
  /\ pending' = {}
  /\ UNCHANGED <<m_flush_buffer, file, job, copied>>

\* A mutant: not waiting for the lock.
Change_NoLock(todo) ==
  /\ Goto("running", "writing")
  /\ m_flush_mutex' = Owner
  /\ job' = todo
  /\ UNCHANGED <<card, flush, trigger, m_dirty, file, thread, gaveUp, loaded>>

\* An operation that changes the image takes the lock ...
Change(todo) ==
  /\ Goto("running", "writing")
  /\ Lock(Owner)
  /\ job' = todo
  /\ UNCHANGED <<card, flush, trigger, m_dirty, file, thread, gaveUp, loaded>>

Write(b, content) == Change([x \in {b} |-> content])

ClearBlock(b) == Change([x \in {b} |-> Erased])

ClearAll == Change([x \in Blocks |-> Erased])

\* ... changes one block after the other ...
ChangeBlock(b) ==
  /\ at = "writing"
  /\ b \in DOMAIN job
  /\ m_memcard_data' = [m_memcard_data EXCEPT ![b] = job[b]]
  /\ pending' = pending \cup {b}
  /\ job' = [x \in DOMAIN job \ {b} |-> job[x]]
  /\ UNCHANGED <<flush, trigger, m_dirty, m_flush_mutex, file, at, thread, gaveUp, loaded>>

\* ... and releases it.
ChangeEnd ==
  /\ Goto("writing", "makeDirty")
  /\ DOMAIN job = {}
  /\ Unlock(Owner)
  /\ UNCHANGED <<card, flush, trigger, m_dirty, file, job, thread, gaveUp, loaded>>

MakeDirty ==
  /\ Goto("makeDirty", "running")
  /\ m_dirty' = TRUE
  /\ UNCHANGED <<card, flush, trigger, m_flush_mutex, file, job, thread, gaveUp, loaded>>

\* DoState() replaces the image, without the lock and without marking it as dirty.
LoadState(image) ==
  /\ Savestates
  /\ at = "running"
  /\ m_memcard_data' = image
  /\ loaded' = TRUE
  /\ UNCHANGED <<pending, flush, trigger, owner, m_dirty, m_flush_mutex, file, thread, gaveUp>>

\* The destructor asks the thread to exit and waits until it has.
Destroy ==
  /\ Goto("running", "joining")
  /\ m_flush_trigger!Set
  /\ UNCHANGED <<card, flush, job, m_dirty, m_flush_mutex, file, thread, gaveUp, loaded>>

Joined ==
  /\ Goto("joining", "off")
  /\ thread = "gone"
  /\ UNCHANGED <<card, flush, trigger, job, m_dirty, m_flush_mutex, file, thread, gaveUp, loaded>>

-----------------------------------------------------------------------------
(* The flush thread. *)

FlushThread ==
  /\ \/ Step("start", "wait") /\ UNCHANGED gaveUp
     \/ Step("start", "gone") /\ gaveUp' = TRUE      \* ~bEnableMemcardSdWriting
  /\ UNCHANGED <<card, flush, trigger, owner, m_dirty, m_flush_mutex, file, loaded>>

\* m_flush_trigger.WaitFor(flush_interval)
Sleep ==
  /\ thread = "wait"
  /\ \/ m_flush_trigger!Block(Flusher, TRUE)
     \/ m_flush_trigger!SeeSignal(Flusher)
     \/ m_flush_trigger!Expire(Flusher)
  /\ UNCHANGED <<card, flush, owner, m_dirty, m_flush_mutex, file, thread, gaveUp, loaded>>

\* A mutant: looking at m_dirty before exiting as well.
WakeToExit_Test ==
  /\ thread = "wait"
  /\ thread' = IF m_dirty THEN "open" ELSE "gone"
  /\ \/ m_flush_trigger!TakeAtOnce(Flusher)
     \/ phase[Flusher] = "released" /\ m_flush_trigger!Return(Flusher)
  /\ do_exit' = TRUE
  /\ UNCHANGED <<card, m_flush_buffer, copied, owner, m_dirty, m_flush_mutex, file, gaveUp,
                 loaded>>

WakeToExit ==
  /\ Step("wait", "open")
  /\ \/ m_flush_trigger!TakeAtOnce(Flusher)
     \/ phase[Flusher] = "released" /\ m_flush_trigger!Return(Flusher)
  /\ do_exit' = TRUE
  /\ UNCHANGED <<card, m_flush_buffer, copied, owner, m_dirty, m_flush_mutex, file, gaveUp,
                 loaded>>

WakeToLook ==
  /\ Step("wait", "test")
  /\ phase[Flusher] = "expired" /\ m_flush_trigger!Return(Flusher)
  /\ do_exit' = FALSE
  /\ UNCHANGED <<card, m_flush_buffer, copied, owner, m_dirty, m_flush_mutex, file, gaveUp,
                 loaded>>

\* m_dirty.TestAndClear()
TestDirty ==
  /\ Step("test", IF m_dirty THEN "open" ELSE "wait")
  /\ m_dirty' = FALSE
  /\ UNCHANGED <<card, flush, trigger, owner, m_flush_mutex, file, gaveUp, loaded>>

\* The file may fail to open, and then the thread gives up for good.
OpenFile ==
  /\ \/ Step("open", "lock") /\ UNCHANGED gaveUp
     \/ Step("open", "gone") /\ gaveUp' = TRUE
  /\ UNCHANGED <<card, flush, trigger, owner, m_dirty, m_flush_mutex, file, loaded>>

CopyBegin ==
  /\ Step("lock", "copy")
  /\ Lock(Flusher)
  /\ copied' = {} /\ loaded' = FALSE
  /\ UNCHANGED <<card, m_flush_buffer, do_exit, trigger, owner, m_dirty, file, gaveUp>>

CopyBlock(b) ==
  /\ thread = "copy"
  /\ b \notin copied
  /\ m_flush_buffer' = [m_flush_buffer EXCEPT ![b] = m_memcard_data[b]]
  /\ copied' = copied \cup {b}
  /\ pending' = pending \ {b}
  /\ UNCHANGED <<m_memcard_data, do_exit, trigger, owner, m_dirty, m_flush_mutex, file, thread,
                 gaveUp, loaded>>

CopyEnd ==
  /\ Step("copy", "write")
  /\ copied = Blocks
  /\ Unlock(Flusher)
  /\ UNCHANGED <<card, flush, trigger, owner, m_dirty, file, gaveUp, loaded>>

\* A mutant: clearing m_dirty once the file is written.
WriteFile_Clear ==
  /\ Step("write", IF do_exit THEN "gone" ELSE "wait")
  /\ file' = m_flush_buffer
  /\ m_dirty' = FALSE
  /\ UNCHANGED <<card, flush, trigger, owner, m_flush_mutex, gaveUp, loaded>>

\* A mutant: leaving the loop after the first flush.
WriteFile_Return ==
  /\ Step("write", "gone")
  /\ file' = m_flush_buffer
  /\ UNCHANGED <<card, flush, trigger, owner, m_dirty, m_flush_mutex, gaveUp, loaded>>

WriteFile ==
  /\ Step("write", IF do_exit THEN "gone" ELSE "wait")
  /\ file' = m_flush_buffer
  /\ UNCHANGED <<card, flush, trigger, owner, m_dirty, m_flush_mutex, gaveUp, loaded>>

-----------------------------------------------------------------------------

FlushStep ==
  \/ FlushThread \/ Sleep \/ WakeToExit \/ WakeToLook \/ TestDirty \/ OpenFile
  \/ CopyBegin \/ (\E b \in Blocks : CopyBlock(b)) \/ CopyEnd \/ WriteFile

OwnerContinues == (\E b \in Blocks : ChangeBlock(b)) \/ ChangeEnd \/ MakeDirty \/ Joined

Next ==
  \/ MemoryCard \/ Destroy
  \/ \E b \in Blocks : ClearBlock(b) \/ \E content \in Contents : Write(b, content)
  \/ ClearAll
  \/ \E image \in Image : LoadState(image)
  \/ OwnerContinues
  \/ FlushStep

Spec == Init /\ [][Next]_vars

\* The threads run, 15 seconds pass, and the guest does not write all the time, so that
\* the flush thread gets the mutex some time.
Fairness == WF_vars(OwnerContinues) /\ WF_vars(FlushStep) /\ SF_vars(CopyBegin)

FairSpec == Spec /\ Fairness

-----------------------------------------------------------------------------
(* Properties. *)

\* What the guest wrote and no flush has copied is never forgotten: m_dirty says so, or
\* the owner is about to set it, or a flush has begun and has still to copy it.
NoWriteForgotten ==
  \A b \in pending :
    \/ m_dirty
    \/ at \in {"writing", "makeDirty"}
    \/ thread \in {"open", "lock"}
    \/ thread = "copy" /\ b \notin copied
    \/ gaveUp

\* A flush copies the card as it was between two operations of the guest, never the
\* half of one.  Only loading a state may change the card under it.
CopyIsWhole ==
  thread = "copy" /\ ~loaded =>
    /\ at # "writing"
    /\ \A b \in copied : m_flush_buffer[b] = m_memcard_data[b]

\* A card that was destroyed is on the disk as it last was, loaded states included,
\* unless the user does not want it or the file could not be opened.
ShutdownSaves == at = "off" => file = m_memcard_data \/ gaveUp

\* What the guest writes reaches the disk while the machine runs: every block written is
\* copied in the end, unless the thread gave up.
WritesAreFlushed == \A b \in Blocks : b \in pending ~> (b \notin pending \/ gaveUp)

\* "If triggered, we're exiting" (GCMemcardRaw.cpp:83): a thread that was asked to exit
\* does, so that the destructor returns.
DestructorReturns == at = "joining" ~> at = "off"
=============================================================================
