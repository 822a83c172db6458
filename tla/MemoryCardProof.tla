-------------------------- MODULE MemoryCardProof --------------------------
(***************************************************************************)
(* Proofs about MemoryCard for a card of any size and any contents.        *)
(*                                                                         *)
(* NoWriteForgotten is inductive: m_dirty is cleared before the image is   *)
(* copied and set after it is changed.  CopyIsWhole follows from TypeOK,   *)
(* which says where who has the mutex.  ShutdownSaves needs ExitInv: once  *)
(* m_flush_trigger is raised the owner only waits, so that the image no    *)
(* longer changes while the thread copies and writes it for the last time. *)
(***************************************************************************)
EXTENDS MemoryCard, TLAPS

USE DEF card, flush, trigger, owner

LEMMA InitType == Init => TypeOK
<1> SUFFICES ASSUME Init PROVE TypeOK
  OBVIOUS
<1>1. m_memcard_data \in Image /\ m_flush_buffer \in Image
  BY CardAssumption DEF Init, Image
<1>2. job \in [{} -> Contents]
  BY DEF Init
<1>3. m_flush_trigger!TypeOK
  BY DEF Init, m_flush_trigger!Init, m_flush_trigger!TypeOK, m_flush_trigger!Phases
<1> QED
  BY <1>1, <1>2, <1>3, CardAssumption DEF Init, TypeOK

\* Changing some blocks of an image gives an image, and leaves a job to do.
LEMMA JobType ==
  ASSUME TypeOK, NEW b \in DOMAIN job
  PROVE  /\ b \in Blocks /\ job[b] \in Contents
         /\ [m_memcard_data EXCEPT ![b] = job[b]] \in Image
         /\ \E todo \in SUBSET Blocks : [x \in DOMAIN job \ {b} |-> job[x]] \in [todo -> Contents]
<1>1. PICK todo \in SUBSET Blocks : job \in [todo -> Contents]
  BY DEF TypeOK
<1>2. b \in Blocks /\ job[b] \in Contents /\ DOMAIN job = todo
  BY <1>1
<1>3. [x \in DOMAIN job \ {b} |-> job[x]] \in [todo \ {b} -> Contents]
  BY <1>1, <1>2
<1>4. todo \ {b} \in SUBSET Blocks
  BY <1>1
<1> QED
  BY <1>2, <1>3, <1>4 DEF TypeOK, Image

LEMMA TypeStep ==
  ASSUME TypeOK, [Next]_vars PROVE TypeOK'
<1> USE CardAssumption DEF TypeOK, m_flush_trigger!TypeOK, m_flush_trigger!Phases, Goto, Step,
                       Lock, Unlock
<1>1. CASE MemoryCard
  <2>1. [b \in Blocks |-> Formatted] \in Image
    BY DEF Image
  <2>2. m_memcard_data' \in Image
    BY <1>1, <2>1 DEF MemoryCard
  <2>3. phase' \in [{Flusher} -> {"idle"}]
    BY <1>1 DEF MemoryCard
  <2>4. /\ UNCHANGED <<m_flush_buffer, file, job, copied>> /\ m_flush_mutex' = Nobody
        /\ at = "off" /\ at' = "running" /\ thread' = "start" /\ pending' = {}
        /\ {m_dirty', do_exit', gaveUp', loaded', signal'} \subseteq BOOLEAN
    BY <1>1 DEF MemoryCard
  <2> QED
    BY <2>2, <2>3, <2>4
<1>2. ASSUME NEW todo, \E d \in SUBSET Blocks : todo \in [d -> Contents], Change(todo)
      PROVE  TypeOK'
  BY <1>2 DEF Change
<1>3. ASSUME NEW b \in Blocks, ClearBlock(b) \/ \E content \in Contents : Write(b, content)
      PROVE  TypeOK'
  <2>1. ASSUME NEW content \in Contents
        PROVE  \E d \in SUBSET Blocks : [x \in {b} |-> content] \in [d -> Contents]
    <3>1. [x \in {b} |-> content] \in [{b} -> Contents] /\ {b} \in SUBSET Blocks
      OBVIOUS
    <3> QED
      BY <3>1
  <2> QED
    BY <1>2, <1>3, <2>1 DEF ClearBlock, Write
<1>4. CASE ClearAll
  <2>1. [x \in Blocks |-> Erased] \in [Blocks -> Contents]
    OBVIOUS
  <2> QED
    BY <1>2, <1>4, <2>1 DEF ClearAll
<1>5. ASSUME NEW b \in Blocks, ChangeBlock(b) PROVE TypeOK'
  BY ZenonT(90), <1>5, JobType DEF ChangeBlock
<1>6. CASE ChangeEnd \/ MakeDirty
  BY ZenonT(90), <1>6 DEF ChangeEnd, MakeDirty
<1>7. ASSUME NEW image \in Image, LoadState(image) PROVE TypeOK'
  BY <1>7 DEF LoadState
<1>8. CASE Destroy \/ Joined
  BY <1>8 DEF Destroy, Joined, m_flush_trigger!Set
<1>9. CASE FlushThread
  BY <1>9 DEF FlushThread
<1>10. CASE Sleep
  BY <1>10 DEF Sleep, m_flush_trigger!Block, m_flush_trigger!SeeSignal, m_flush_trigger!Expire,
                      m_flush_trigger!Goto
<1>11. CASE WakeToExit \/ WakeToLook
  BY <1>11 DEF WakeToExit, WakeToLook, m_flush_trigger!TakeAtOnce, m_flush_trigger!Return,
                      m_flush_trigger!Goto
<1>12. CASE TestDirty \/ OpenFile
  BY ZenonT(90), <1>12 DEF TestDirty, OpenFile
<1>13. CASE CopyBegin
  BY <1>13 DEF CopyBegin
<1>14. ASSUME NEW b \in Blocks, CopyBlock(b) PROVE TypeOK'
  <2>1. m_flush_buffer' \in Image
    BY <1>14 DEF CopyBlock, Image
  <2> QED
    BY <1>14, <2>1 DEF CopyBlock
<1>15. CASE CopyEnd
  BY <1>15 DEF CopyEnd
<1>16. CASE WriteFile
  BY <1>16 DEF WriteFile
<1>17. CASE UNCHANGED vars
  BY <1>17 DEF vars
<1> QED
  BY <1>1, <1>3, <1>4, <1>5, <1>6, <1>7, <1>8, <1>9, <1>10, <1>11, <1>12, <1>13, <1>14, <1>15,
     <1>16, <1>17 DEF Next, OwnerContinues, FlushStep

-----------------------------------------------------------------------------

\* Every variable keeps its type, and each thread has m_flush_mutex exactly while it changes
\* or copies the image.
THEOREM TypeCorrect == Spec => []TypeOK
<1>1. TypeOK /\ [Next]_vars => TypeOK'
  BY TypeStep
<1> QED
  BY InitType, <1>1, PTL DEF Spec

LEMMA WholeStep ==
  ASSUME TypeOK, CopyIsWhole, [Next]_vars PROVE CopyIsWhole'
<1>0. thread' = "copy" => at' # "writing"
  BY TypeStep, CardAssumption DEF TypeOK
<1> USE <1>0 DEF Goto, Step, CopyIsWhole
<1>1. CASE UNCHANGED <<m_flush_buffer, m_memcard_data, copied, loaded, thread>>
  BY <1>1
<1>2. ASSUME NEW b \in Blocks, CopyBlock(b) PROVE CopyIsWhole'
  <2>1. m_flush_buffer \in [Blocks -> Contents] /\ copied \subseteq Blocks
    BY DEF TypeOK, Image
  <2> QED
    BY <1>2, <2>1 DEF CopyBlock
<1>3. CASE CopyBegin
  BY <1>3 DEF CopyBegin
<1>4. ASSUME NEW b \in Blocks, ChangeBlock(b) PROVE CopyIsWhole'
  BY <1>4 DEF ChangeBlock
<1>5. ASSUME NEW image \in Image, LoadState(image) PROVE CopyIsWhole'
  BY <1>5 DEF LoadState
<1>6. ASSUME NEW todo, Change(todo) PROVE CopyIsWhole'
  BY <1>1, <1>6 DEF Change
<1>7. CASE ClearAll
  BY <1>6, <1>7 DEF ClearAll
<1>8. ASSUME NEW b \in Blocks, ClearBlock(b) \/ \E content \in Contents : Write(b, content)
      PROVE  CopyIsWhole'
  BY <1>6, <1>8 DEF ClearBlock, Write
<1>9. CASE MemoryCard \/ UNCHANGED vars
  BY <1>9 DEF MemoryCard, vars
<1>10. CASE Destroy \/ ChangeEnd \/ MakeDirty \/ Joined
  BY <1>10 DEF Destroy, ChangeEnd, MakeDirty, Joined
<1>11. CASE FlushThread \/ Sleep \/ WakeToExit \/ WakeToLook
  BY <1>11 DEF FlushThread, Sleep, WakeToExit, WakeToLook
<1>12. CASE TestDirty \/ OpenFile \/ CopyEnd \/ WriteFile
  BY <1>12 DEF TestDirty, OpenFile, CopyEnd, WriteFile
<1> QED
  BY <1>2, <1>3, <1>4, <1>5, <1>7, <1>8, <1>9, <1>10, <1>11, <1>12
     DEF Next, OwnerContinues, FlushStep

\* A flush copies the image of one moment: the guest cannot change it meanwhile.
THEOREM FlushIsWhole == Spec => []CopyIsWhole
<1>1. Init => CopyIsWhole
  BY DEF Init, CopyIsWhole
<1>2. TypeOK /\ [Next]_vars => TypeOK'
  BY TypeStep
<1>3. TypeOK /\ CopyIsWhole /\ [Next]_vars => CopyIsWhole'
  BY WholeStep
<1> QED
  BY InitType, <1>1, <1>2, <1>3, PTL DEF Spec

\* A flush never forgets what the guest wrote, whenever the write falls.
THEOREM WritesAreRemembered == Spec => []NoWriteForgotten
<1>1. Init => TypeOK
  BY InitType
<1>2. Init => NoWriteForgotten
  BY DEF Init, NoWriteForgotten
<1>3. TypeOK /\ [Next]_vars => TypeOK'
  BY TypeStep
<1>4. TypeOK /\ NoWriteForgotten /\ [Next]_vars => NoWriteForgotten'
  <2> SUFFICES ASSUME TypeOK, NoWriteForgotten, [Next]_vars PROVE NoWriteForgotten'
    OBVIOUS
  <2> USE DEF NoWriteForgotten, Goto, Step
  <2>1. CASE MemoryCard
    BY <2>1 DEF MemoryCard
  <2>2. ASSUME NEW todo, Change(todo) PROVE NoWriteForgotten'
    BY <2>2 DEF Change
  <2>3. ASSUME NEW b \in Blocks, ClearBlock(b) \/ \E content \in Contents : Write(b, content)
        PROVE  NoWriteForgotten'
    BY <2>2, <2>3 DEF ClearBlock, Write
  <2>4. CASE ClearAll
    BY <2>2, <2>4 DEF ClearAll
  <2>5. ASSUME NEW b \in Blocks, ChangeBlock(b) PROVE NoWriteForgotten'
    BY <2>5 DEF ChangeBlock
  <2>6. CASE ChangeEnd \/ MakeDirty
    BY <2>6 DEF ChangeEnd, MakeDirty
  <2>7. ASSUME NEW image \in Image, LoadState(image) PROVE NoWriteForgotten'
    BY <2>7 DEF LoadState
  <2>8. CASE Destroy \/ Joined
    BY <2>8 DEF Destroy, Joined
  <2>9. CASE FlushThread \/ Sleep \/ WakeToExit \/ WakeToLook
    <3>1. CASE FlushThread
      BY <3>1 DEF FlushThread
    <3>2. CASE Sleep
      BY <3>2 DEF Sleep
    <3>3. CASE WakeToExit \/ WakeToLook
      BY <3>3 DEF WakeToExit, WakeToLook
    <3> QED
      BY <2>9, <3>1, <3>2, <3>3
  <2>10. CASE TestDirty \/ OpenFile
    BY <2>10 DEF TestDirty, OpenFile
  <2>11. CASE CopyBegin
    BY <2>11 DEF CopyBegin
  <2>12. ASSUME NEW b \in Blocks, CopyBlock(b) PROVE NoWriteForgotten'
    BY <2>12 DEF CopyBlock
  <2>13. CASE CopyEnd
    <3>1. copied = Blocks /\ pending \subseteq Blocks
      BY <2>13 DEF CopyEnd, TypeOK
    <3> QED
      BY <2>13, <3>1 DEF CopyEnd
  <2>14. CASE WriteFile
    BY <2>14 DEF WriteFile
  <2>15. CASE UNCHANGED vars
    BY <2>15 DEF vars
  <2> QED
    BY <2>1, <2>3, <2>4, <2>5, <2>6, <2>7, <2>8, <2>9, <2>10, <2>11, <2>12, <2>13, <2>14, <2>15
       DEF Next, OwnerContinues, FlushStep
<1> QED
  BY <1>1, <1>2, <1>3, <1>4, PTL DEF Spec

-----------------------------------------------------------------------------

ExitInv ==
  /\ thread # "gone" => at # "off"
  /\ signal \/ phase[Flusher] = "released" => at \in {"joining", "off"}
  /\ do_exit /\ thread # "gone" =>
       at = "joining" /\ thread \in {"open", "lock", "copy", "write"}
  /\ do_exit /\ thread = "copy" =>
       \A b \in copied : m_flush_buffer[b] = m_memcard_data[b]
  /\ do_exit /\ thread = "write" => m_flush_buffer = m_memcard_data
  /\ thread = "gone" /\ ~gaveUp => at \in {"joining", "off"} /\ file = m_memcard_data

LEMMA ExitStep ==
  ASSUME TypeOK, ExitInv, [Next]_vars PROVE ExitInv'
<1> USE DEF ExitInv, Goto, Step
<1>1. CASE MemoryCard
  BY <1>1 DEF MemoryCard
<1>2. ASSUME NEW todo, Change(todo) PROVE ExitInv'
  BY <1>2 DEF Change
<1>3. ASSUME NEW b \in Blocks, ClearBlock(b) \/ \E content \in Contents : Write(b, content)
      PROVE  ExitInv'
  BY <1>2, <1>3 DEF ClearBlock, Write
<1>4. CASE ClearAll
  BY <1>2, <1>4 DEF ClearAll
<1>5. ASSUME NEW b \in Blocks, ChangeBlock(b) PROVE ExitInv'
  BY <1>5 DEF ChangeBlock
<1>6. CASE ChangeEnd \/ MakeDirty
  BY <1>6 DEF ChangeEnd, MakeDirty
<1>7. ASSUME NEW image \in Image, LoadState(image) PROVE ExitInv'
  BY <1>7 DEF LoadState
<1>8. CASE Destroy
  BY <1>8 DEF Destroy, m_flush_trigger!Set
<1>9. CASE Joined
  BY <1>9 DEF Joined
<1>10. CASE FlushThread
  BY <1>10 DEF FlushThread
<1>11. CASE Sleep
  BY <1>11 DEF Sleep, m_flush_trigger!Block, m_flush_trigger!SeeSignal, m_flush_trigger!Expire,
                     m_flush_trigger!Goto, TypeOK, m_flush_trigger!TypeOK
<1>12. CASE WakeToExit \/ WakeToLook
  BY <1>12 DEF WakeToExit, WakeToLook, m_flush_trigger!TakeAtOnce, m_flush_trigger!Return,
                     m_flush_trigger!Goto, TypeOK, m_flush_trigger!TypeOK
<1>13. CASE TestDirty \/ OpenFile
  BY <1>13 DEF TestDirty, OpenFile
<1>14. CASE CopyBegin
  BY <1>14 DEF CopyBegin
<1>15. ASSUME NEW b \in Blocks, CopyBlock(b) PROVE ExitInv'
  <2>1. m_flush_buffer \in [Blocks -> Contents] /\ copied \subseteq Blocks
    BY DEF TypeOK, Image
  <2> QED
    BY <1>15, <2>1 DEF CopyBlock
<1>16. CASE CopyEnd
  <2>1. m_flush_buffer \in [Blocks -> Contents] /\ m_memcard_data \in [Blocks -> Contents]
    BY DEF TypeOK, Image
  <2>2. copied = Blocks /\ thread = "copy"
    BY <1>16 DEF CopyEnd
  <2>3. do_exit => m_flush_buffer = m_memcard_data
    BY <2>1, <2>2
  <2> QED
    BY <1>16, <2>3 DEF CopyEnd
<1>17. CASE WriteFile
  BY <1>17 DEF WriteFile
<1>18. CASE UNCHANGED vars
  BY <1>18 DEF vars
<1> QED
  BY <1>1, <1>3, <1>4, <1>5, <1>6, <1>7, <1>8, <1>9, <1>10, <1>11, <1>12, <1>13, <1>14, <1>15,
     <1>16, <1>17, <1>18 DEF Next, OwnerContinues, FlushStep

\* A card that was destroyed is on the disk as it last was, or its thread gave up.
THEOREM CardIsSaved == Spec => []ShutdownSaves
<1>1. Init => TypeOK /\ ExitInv
  BY InitType DEF Init, ExitInv, m_flush_trigger!Init
<1>2. TypeOK /\ [Next]_vars => TypeOK'
  BY TypeStep
<1>3. TypeOK /\ ExitInv /\ [Next]_vars => ExitInv'
  BY ExitStep
<1>4. ExitInv => ShutdownSaves
  BY DEF ExitInv, ShutdownSaves
<1> QED
  BY <1>1, <1>2, <1>3, <1>4, PTL DEF Spec
=============================================================================
