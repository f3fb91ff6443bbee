---------------------------- MODULE FrameSyncProofs ----------------------------
(* Proofs about FrameSync: types, and that the fences and semaphores of a     *)
(* slot and of an image are reused only when whatever used them is through,   *)
(* for any number of frames in flight and of images, and any window changes.  *)
EXTENDS FrameSync, FiniteSetTheorems, SequenceTheorems, TLAPS

-----------------------------------------------------------------------------
(* The inductive invariant.                                                   *)

\* A submission of the slot is under way.
Busy(s) == \E k \in 1..Len(graphicsQueue) : graphicsQueue[k].slot = s

\* A slot with a signalled fence is at rest; one with an unsignalled fence has
\* its acquire pending or signalled, never both.
FenceTellsRest ==
  \A s \in Slots :
    /\ inFlightFences_[s] => ~Busy(s) /\ s \notin acquiring /\ ~imageAvailableSemaphores_[s]
    /\ ~inFlightFences_[s] => (s \in acquiring <=> ~imageAvailableSemaphores_[s])

\* The main thread acquires for a slot at rest, and records for one with its
\* fence reset and nothing submitted.
CurrentSlot ==
  /\ pc = "acquire" => inFlightFences_[currentFrame_]
  /\ pc = "record" => ~inFlightFences_[currentFrame_] /\ ~Busy(currentFrame_)

\* At most one submission per slot.
SlotsDiffer ==
  \A k, l \in 1..Len(graphicsQueue) :
    graphicsQueue[k].slot = graphicsQueue[l].slot => k = l

SlotsInv == FenceTellsRest /\ CurrentSlot /\ SlotsDiffer /\ FenceWillSignal

\* The application holds the image of the frame under way and no other.
HeldImage ==
  /\ pc \in {"record", "present"} => imageIndex \in Images /\ owner[imageIndex] = "app"
  /\ \A i \in Images : owner[i] = "app" =>
       pc \in {"record", "present", "thrown"} /\ i = imageIndex

\* A submission draws an image that is not shown yet, one per image, and no
\* semaphore it will signal is signalled.
Drawing ==
  /\ \A k \in 1..Len(graphicsQueue) :
       /\ graphicsQueue[k].sem \in Images
       /\ owner[graphicsQueue[k].sem] \in {"app", "queued"}
       /\ ~renderFinishedSemaphores_[graphicsQueue[k].sem]
  /\ \A k, l \in 1..Len(graphicsQueue) :
       graphicsQueue[k].sem = graphicsQueue[l].sem => k = l

\* A semaphore stays signalled until its image is shown; the image being
\* recorded has neither a submission nor a signalled semaphore.
Finishing ==
  /\ \A i \in Images : renderFinishedSemaphores_[i] => owner[i] \in {"app", "queued"}
  /\ pc = "record" =>
       /\ ~renderFinishedSemaphores_[imageIndex]
       /\ \A k \in 1..Len(graphicsQueue) : graphicsQueue[k].sem # imageIndex

\* The presents are of different images, each owned by the engine.
Presenting ==
  /\ \A k \in 1..Len(presentQueue) :
       /\ presentQueue[k].sem = presentQueue[k].image
       /\ presentQueue[k].image \in Images
       /\ owner[presentQueue[k].image] = "queued"
  /\ \A k, l \in 1..Len(presentQueue) :
       presentQueue[k].image = presentQueue[l].image => k = l

ImagesInv == HeldImage /\ Drawing /\ Finishing /\ Presenting

-----------------------------------------------------------------------------
(* Queues.                                                                    *)

LEMMA Appended ==
  ASSUME NEW S, NEW q \in Seq(S), NEW e \in S, NEW r, r = Append(q, e)
  PROVE  /\ r \in Seq(S) /\ Len(q) \in Nat /\ Len(r) = Len(q) + 1
         /\ \A k \in 1..Len(q) : r[k] = q[k]
         /\ r[Len(q) + 1] = e
BY AppendProperties, LenProperties

LEMMA Removed ==
  ASSUME NEW S, NEW q \in Seq(S), q # <<>>, NEW r, r = Tail(q)
  PROVE  /\ r \in Seq(S) /\ Len(r) \in Nat /\ Len(q) = Len(r) + 1
         /\ \A k \in 1..Len(r) : r[k] = q[k + 1]
         /\ Head(q) = q[1] /\ Head(q) \in S
<1>1. r \in Seq(S) /\ Len(r) = Len(q) - 1 /\ Head(q) \in S
      /\ \A k \in 1..Len(r) : r[k] = q[k + 1]
  BY HeadTailProperties
<1>2. Len(q) \in Nat /\ Len(r) \in Nat /\ Head(q) = q[1]
  BY <1>1, LenProperties
<1> QED
  BY <1>1, <1>2

Submission == [slot : Slots, image : Nat, sem : Nat]
Presentation == [image : Nat, sem : Nat]

-----------------------------------------------------------------------------
(* Types.                                                                     *)

LEMMA InitTypes == Init => TypeOK
<1> SUFFICES ASSUME Init PROVE TypeOK
  OBVIOUS
<1>1. currentFrame_ \in Slots /\ extent \in 0..MaxChanges /\ window \in 0..MaxChanges
  BY FrameAssumption DEF Init, Slots
<1>2. /\ inFlightFences_ \in [Slots -> BOOLEAN]
      /\ imageAvailableSemaphores_ \in [Slots -> BOOLEAN] /\ acquiring \subseteq Slots
  BY DEF Init
<1>3. /\ imageCount \in ImageCounts /\ imageIndex \in Nat
      /\ renderFinishedSemaphores_ \in [Images -> BOOLEAN]
      /\ owner \in [Images -> {"free", "app", "queued", "shown"}]
  BY DEF Init
<1>4. /\ graphicsQueue \in Seq([slot : Slots, image : Nat, sem : Nat])
      /\ presentQueue \in Seq([image : Nat, sem : Nat])
  BY DEF Init
<1>5. /\ pc = "loop" /\ framebufferResized_ \in BOOLEAN /\ shouldClose \in BOOLEAN
      /\ sized \in BOOLEAN /\ minimised \in BOOLEAN
      /\ events \subseteq {"resize", "close", "other"}
  BY DEF Init
<1> QED
  BY <1>1, <1>2, <1>3, <1>4, <1>5 DEF TypeOK

\* The steps of the main thread and of the window that leave the GPU alone.
LEMMA PacingTypes ==
  ASSUME TypeOK,
         \/ PollEvents \/ Measure \/ Reread \/ WaitEvents \/ Throw \/ WaitForFence
         \/ AcquireOutOfDate \/ Cleanup
         \/ WindowChanges \/ WindowEvent("close") \/ WindowEvent("other")
  PROVE  TypeOK'
<1>1. CASE PollEvents \/ WaitEvents
  BY <1>1 DEF TypeOK, PollEvents, WaitEvents, Dispatch, Images, chainVars, gpuVars
<1>2. CASE Measure \/ Reread \/ Throw \/ WaitForFence \/ AcquireOutOfDate \/ Cleanup
  BY <1>2 DEF TypeOK, Measure, Reread, Throw, WaitForFence, AcquireOutOfDate, Cleanup,
              Images, chainVars, gpuVars, windowVars
<1>3. CASE WindowChanges
  <2>1. window' \in 0..MaxChanges
    BY <1>3, FrameAssumption DEF TypeOK, WindowChanges
  <2> QED
    BY <1>3, <2>1 DEF TypeOK, WindowChanges, Images, chainVars, gpuVars, cpuVars
<1>4. ASSUME NEW e \in {"close", "other"}, WindowEvent(e) PROVE TypeOK'
  BY <1>4 DEF TypeOK, WindowEvent, Images, chainVars, gpuVars, cpuVars
<1> QED
  BY <1>1, <1>2, <1>3, <1>4

LEMMA FrameTypes ==
  ASSUME TypeOK, Recreate \/ Acquire \/ Submit \/ Present
  PROVE  TypeOK'
<1>1. CASE Recreate
  <2>1. PICK n \in ImageCounts :
          /\ imageCount' = n
          /\ renderFinishedSemaphores_' = [i \in 1..n |-> FALSE]
          /\ owner' = [i \in 1..n |-> "free"]
    BY <1>1 DEF Recreate, SemaphoresMade
  <2>2. /\ renderFinishedSemaphores_' \in [1..imageCount' -> BOOLEAN]
        /\ owner' \in [1..imageCount' -> {"free", "app", "queued", "shown"}]
    BY <2>1
  <2> QED
    BY <1>1, <2>1, <2>2 DEF TypeOK, Recreate, Images, windowVars
<1>2. CASE Acquire
  <2>1. PICK i \in Images :
          owner[i] = "free" /\ imageIndex' = i /\ owner' = [owner EXCEPT ![i] = "app"]
    BY <1>2 DEF Acquire
  <2>2. imageIndex' \in Nat
    BY <2>1, FrameAssumption DEF Images, TypeOK
  <2> QED
    BY <1>2, <2>1, <2>2 DEF TypeOK, Acquire, Images, chainVars, windowVars
<1>3. CASE Submit
  <2> DEFINE work == [slot |-> currentFrame_, image |-> imageIndex, sem |-> Finished]
  <2>1. work \in Submission
    BY DEF TypeOK, Finished, Submission
  <2>2. graphicsQueue' \in Seq(Submission)
    BY <1>3, <2>1, Appended DEF TypeOK, Submit, Submission
  <2> QED
    BY <1>3, <2>2 DEF TypeOK, Submit, Images, Submission, chainVars, windowVars
<1>4. CASE Present
  <2> DEFINE it == [image |-> imageIndex, sem |-> Finished]
  <2>1. it \in Presentation
    BY DEF TypeOK, Finished, Presentation
  <2>2. presentQueue' \in Seq(Presentation)
    BY <1>4, <2>1, Appended DEF TypeOK, Present, Presentation
  <2>3. currentFrame_' \in Slots
    BY <1>4, FrameAssumption DEF TypeOK, Present, Slots
  <2> QED
    BY <1>4, <2>2, <2>3 DEF TypeOK, Present, Images, Presentation, chainVars, windowVars
<1> QED
  BY <1>1, <1>2, <1>3, <1>4

LEMMA GpuTypes ==
  ASSUME TypeOK, Gpu
  PROVE  TypeOK'
<1>1. ASSUME NEW s \in Slots, AcquireSignals(s) PROVE TypeOK'
  BY <1>1 DEF TypeOK, AcquireSignals, Images, cpuVars, chainVars, windowVars
<1>2. CASE Execute
  <2>1. graphicsQueue' \in Seq(Submission)
    BY <1>2, Removed DEF TypeOK, Execute, Submission
  <2> QED
    BY <1>2, <2>1 DEF TypeOK, Execute, Images, Submission, cpuVars, chainVars, windowVars
<1>3. CASE Show
  <2>1. presentQueue' \in Seq(Presentation)
    BY <1>3, Removed DEF TypeOK, Show, Presentation
  <2>2. owner' \in [Images -> {"free", "app", "queued", "shown"}]
    BY <1>3 DEF TypeOK, Show
  <2> QED
    BY <1>3, <2>1, <2>2 DEF TypeOK, Show, Images, Presentation, cpuVars, chainVars, windowVars
<1> QED
  BY <1>1, <1>2, <1>3 DEF Gpu

LEMMA TypesKept == TypeOK /\ [Next]_vars => TypeOK'
<1> SUFFICES ASSUME TypeOK, [Next]_vars PROVE TypeOK'
  OBVIOUS
<1>1. CASE UNCHANGED vars
  BY <1>1 DEF vars, cpuVars, chainVars, gpuVars, windowVars, TypeOK, Images
<1>2. CASE Next
  BY <1>2, PacingTypes, FrameTypes, GpuTypes DEF Next, Main
<1> QED
  BY <1>1, <1>2

\* The variables keep their types, whatever the window does and whichever calls fail.
THEOREM TypeCorrect == Spec => []TypeOK
<1> QED
  BY InitTypes, TypesKept, PTL DEF Spec

-----------------------------------------------------------------------------
(* The invariant.                                                             *)

Inv == TypeOK /\ SlotsInv /\ ImagesInv

LEMMA InitInv == Init => Inv
<1> SUFFICES ASSUME Init PROVE Inv
  OBVIOUS
<1>1. Len(graphicsQueue) = 0 /\ Len(presentQueue) = 0
  BY DEF Init
<1>2. \A s \in Slots : ~Busy(s) /\ inFlightFences_[s] /\ ~imageAvailableSemaphores_[s]
  BY <1>1 DEF Init, Busy
<1>3. \A i \in Images : owner[i] = "free" /\ ~renderFinishedSemaphores_[i]
  BY DEF Init
<1>4. SlotsInv
  BY <1>1, <1>2 DEF Init, SlotsInv, FenceTellsRest, CurrentSlot, SlotsDiffer, FenceWillSignal
<1>5. ImagesInv
  BY <1>1, <1>3 DEF Init, ImagesInv, HeldImage, Drawing, Finishing, Presenting
<1> QED
  BY <1>4, <1>5, InitTypes DEF Inv

\* What every step between two frames, and every event, amounts to: the GPU is
\* left alone, no frame is begun, and one that was is only continued by throwing.
Paces ==
  /\ UNCHANGED <<gpuVars, imageCount, currentFrame_, imageIndex>>
  /\ \/ pc' = pc
     \/ /\ pc' \notin {"record", "present"}
        /\ pc \in {"record", "present", "thrown"} => pc' = "thrown"
        /\ pc' = "acquire" => inFlightFences_[currentFrame_]

LEMMA PacingSteps ==
  ASSUME \/ PollEvents \/ Measure \/ Reread \/ WaitEvents \/ Throw \/ WaitForFence
         \/ AcquireOutOfDate \/ Cleanup
         \/ WindowChanges \/ WindowEvent("close") \/ WindowEvent("other")
         \/ UNCHANGED vars
  PROVE  Paces
<1>1. CASE PollEvents \/ WaitEvents
  BY <1>1 DEF Paces, PollEvents, WaitEvents, chainVars
<1>2. CASE Measure \/ Reread \/ Throw \/ WaitForFence \/ AcquireOutOfDate \/ Cleanup
  BY <1>2 DEF Paces, Measure, Reread, Throw, WaitForFence, FenceWaited, AcquireOutOfDate,
              Cleanup, chainVars
<1>3. CASE WindowChanges \/ WindowEvent("close") \/ WindowEvent("other") \/ UNCHANGED vars
  BY <1>3 DEF Paces, WindowChanges, WindowEvent, chainVars, cpuVars, vars
<1> QED
  BY <1>1, <1>2, <1>3

LEMMA PacesKeep ==
  ASSUME Inv, Paces
  PROVE  SlotsInv' /\ ImagesInv'
<1>1. \A s : Busy(s)' <=> Busy(s)
  BY DEF Paces, Busy, gpuVars
<1>2. FenceTellsRest' /\ SlotsDiffer'
  BY <1>1 DEF Inv, SlotsInv, FenceTellsRest, SlotsDiffer, Paces, gpuVars
<1>3. CurrentSlot'
  BY <1>1 DEF Inv, SlotsInv, CurrentSlot, Paces, gpuVars
<1>4. FenceWillSignal'
  BY DEF Inv, SlotsInv, FenceWillSignal, Paces, gpuVars
<1>5. HeldImage'
  BY DEF Inv, ImagesInv, HeldImage, Paces, gpuVars, Images
<1>6. Drawing' /\ Presenting'
  BY DEF Inv, ImagesInv, Drawing, Presenting, Paces, gpuVars, Images
<1>7. Finishing'
  BY DEF Inv, ImagesInv, Finishing, Paces, gpuVars, Images
<1> QED
  BY <1>2, <1>3, <1>4, <1>5, <1>6, <1>7 DEF SlotsInv, ImagesInv

\* The device is idle: every slot is at rest.
LEMMA IdleRests ==
  ASSUME Inv, pc \in {"idle", "done"}, Idle
  PROVE  IdleMeansInitial /\ Len(graphicsQueue) = 0 /\ Len(presentQueue) = 0
<1>1. Len(graphicsQueue) = 0 /\ Len(presentQueue) = 0
  BY DEF Idle
<1>2. \A s \in Slots : inFlightFences_[s]
  BY <1>1 DEF Inv, SlotsInv, FenceWillSignal
<1>3. acquiring = {} /\ \A s \in Slots : ~imageAvailableSemaphores_[s]
  BY <1>2 DEF Inv, SlotsInv, FenceTellsRest, TypeOK
<1>4. \A i \in Images : owner[i] # "app"
  BY DEF Inv, ImagesInv, HeldImage
<1> QED
  BY <1>1, <1>2, <1>3, <1>4 DEF IdleMeansInitial

LEMMA RecreateKeeps ==
  ASSUME Inv, Recreate
  PROVE  SlotsInv' /\ ImagesInv'
<1>1. Len(graphicsQueue') = 0 /\ Len(presentQueue') = 0 /\ pc' = "loop"
  BY IdleRests DEF Recreate
<1>2. \A i \in Images' : owner'[i] = "free" /\ ~renderFinishedSemaphores_'[i]
  BY DEF Recreate, SemaphoresMade, Images
<1>3. SlotsInv'
  BY <1>1 DEF Recreate, Inv, SlotsInv, FenceTellsRest, CurrentSlot, SlotsDiffer,
              FenceWillSignal, Busy
<1>4. ImagesInv'
  BY <1>1, <1>2 DEF ImagesInv, HeldImage, Drawing, Finishing, Presenting
<1> QED
  BY <1>3, <1>4

LEMMA AcquireKeeps ==
  ASSUME Inv, Acquire
  PROVE  SlotsInv' /\ ImagesInv'
<1>1. PICK i \in Images :
        owner[i] = "free" /\ imageIndex' = i /\ owner' = [owner EXCEPT ![i] = "app"]
  BY DEF Acquire
<1>2. \A s : Busy(s)' <=> Busy(s)
  BY DEF Acquire, Busy
<1>3. /\ pc = "acquire" /\ pc' = "record" /\ currentFrame_ \in Slots
      /\ UNCHANGED <<currentFrame_, imageCount, graphicsQueue, presentQueue,
                     imageAvailableSemaphores_, renderFinishedSemaphores_>>
      /\ acquiring' = acquiring \cup {currentFrame_}
      /\ inFlightFences_' = [inFlightFences_ EXCEPT ![currentFrame_] = FALSE]
  BY DEF Acquire, Inv, TypeOK, chainVars
<1>4. inFlightFences_[currentFrame_]
  BY <1>3 DEF Inv, SlotsInv, CurrentSlot
<1>5. FenceTellsRest' /\ CurrentSlot'
  BY <1>2, <1>3, <1>4 DEF Inv, TypeOK, SlotsInv, FenceTellsRest, CurrentSlot
<1>6. SlotsDiffer' /\ FenceWillSignal'
  BY <1>3 DEF Inv, TypeOK, SlotsInv, SlotsDiffer, FenceWillSignal
<1>7. HeldImage'
  BY <1>1, <1>3 DEF Inv, TypeOK, ImagesInv, HeldImage, Images
<1>8. Drawing' /\ Presenting'
  BY <1>1, <1>3 DEF Inv, TypeOK, ImagesInv, Drawing, Presenting, Images
<1>9. Finishing'
  BY <1>1, <1>3 DEF Inv, TypeOK, ImagesInv, Finishing, Drawing, Images
<1> QED
  BY <1>5, <1>6, <1>7, <1>8, <1>9 DEF SlotsInv, ImagesInv

LEMMA SubmitKeeps ==
  ASSUME Inv, Submit
  PROVE  SlotsInv' /\ ImagesInv'
<1> DEFINE work == [slot |-> currentFrame_, image |-> imageIndex, sem |-> imageIndex]
<1>1. /\ graphicsQueue \in Seq(Submission) /\ work \in Submission
      /\ graphicsQueue' = Append(graphicsQueue, work)
  BY DEF Submit, Finished, Inv, TypeOK, Submission
<1> DEFINE n == Len(graphicsQueue)
<1>2. /\ n \in Nat /\ Len(graphicsQueue') = n + 1
      /\ \A k \in 1..n : graphicsQueue'[k] = graphicsQueue[k]
      /\ graphicsQueue'[n + 1] = work
  BY <1>1, Appended
<1>3. /\ pc = "record" /\ pc' = "present" /\ currentFrame_ \in Slots
      /\ UNCHANGED <<currentFrame_, imageIndex, imageCount, inFlightFences_,
                     imageAvailableSemaphores_, renderFinishedSemaphores_, acquiring,
                     presentQueue, owner>>
  BY DEF Submit, Inv, TypeOK, chainVars
<1>4. work.slot = currentFrame_ /\ work.sem = imageIndex
  OBVIOUS
<1> HIDE DEF work, n
<1>5. \A s \in Slots : Busy(s)' <=> Busy(s) \/ s = currentFrame_
  BY <1>2, <1>4 DEF Busy, n
<1>6. FenceTellsRest' /\ CurrentSlot'
  BY <1>3, <1>5 DEF Inv, SlotsInv, FenceTellsRest, CurrentSlot
<1>7. SlotsDiffer'
  BY <1>2, <1>3, <1>4 DEF Inv, SlotsInv, CurrentSlot, SlotsDiffer, Busy, n
<1>8. FenceWillSignal'
  BY <1>3, <1>5 DEF Inv, SlotsInv, FenceWillSignal, Busy
<1>9. HeldImage' /\ Finishing' /\ Presenting'
  BY <1>3 DEF Inv, ImagesInv, HeldImage, Finishing, Presenting, Images
<1>10. Drawing'
  <2>1. /\ imageIndex \in Images /\ owner[imageIndex] = "app"
        /\ ~renderFinishedSemaphores_[imageIndex]
        /\ \A k \in 1..n : graphicsQueue[k].sem # imageIndex
    BY <1>3 DEF Inv, ImagesInv, HeldImage, Finishing, n
  <2>2. \A k \in 1..n : /\ graphicsQueue[k].sem \in Images
                        /\ owner[graphicsQueue[k].sem] \in {"app", "queued"}
                        /\ ~renderFinishedSemaphores_[graphicsQueue[k].sem]
    BY DEF Inv, ImagesInv, Drawing, n
  <2>3. \A k, l \in 1..n : graphicsQueue[k].sem = graphicsQueue[l].sem => k = l
    BY DEF Inv, ImagesInv, Drawing, n
  <2>4. Images' = Images
    BY <1>3 DEF Images
  <2>5. \A k \in 1..(n + 1) :
          \/ k = n + 1 /\ graphicsQueue'[k].sem = imageIndex
          \/ k \in 1..n /\ graphicsQueue'[k].sem = graphicsQueue[k].sem
    BY <1>2, <1>4
  <2>6. \A k \in 1..(n + 1) : /\ graphicsQueue'[k].sem \in Images
                              /\ owner[graphicsQueue'[k].sem] \in {"app", "queued"}
                              /\ ~renderFinishedSemaphores_[graphicsQueue'[k].sem]
    BY <2>1, <2>2, <2>5
  <2>7. \A k, l \in 1..(n + 1) : graphicsQueue'[k].sem = graphicsQueue'[l].sem => k = l
    BY <2>1, <2>3, <2>5
  <2> QED
    BY <1>2, <1>3, <2>4, <2>6, <2>7 DEF Drawing
<1> QED
  BY <1>6, <1>7, <1>8, <1>9, <1>10 DEF SlotsInv, ImagesInv

LEMMA PresentKeeps ==
  ASSUME Inv, Present
  PROVE  SlotsInv' /\ ImagesInv'
<1> DEFINE it == [image |-> imageIndex, sem |-> imageIndex]
<1>1. /\ presentQueue \in Seq(Presentation) /\ it \in Presentation
      /\ presentQueue' = Append(presentQueue, it)
  BY DEF Present, Finished, Inv, TypeOK, Presentation
<1> DEFINE n == Len(presentQueue)
<1>2. /\ n \in Nat /\ Len(presentQueue') = n + 1
      /\ \A k \in 1..n : presentQueue'[k] = presentQueue[k]
      /\ presentQueue'[n + 1] = it
  BY <1>1, Appended
<1>3. /\ pc = "present" /\ pc' \in {"loop", "measure"}
      /\ UNCHANGED <<imageIndex, imageCount, inFlightFences_, imageAvailableSemaphores_,
                     renderFinishedSemaphores_, acquiring, graphicsQueue>>
      /\ owner' = [owner EXCEPT ![imageIndex] = "queued"]
      /\ imageIndex \in Images /\ owner[imageIndex] = "app"
  BY DEF Present, Inv, ImagesInv, HeldImage, chainVars
<1>4. it.image = imageIndex /\ it.sem = imageIndex
  OBVIOUS
<1> HIDE DEF it, n
<1>5. \A s : Busy(s)' <=> Busy(s)
  BY <1>3 DEF Busy
<1>6. FenceTellsRest' /\ SlotsDiffer' /\ CurrentSlot'
  BY <1>3, <1>5 DEF Inv, SlotsInv, FenceTellsRest, SlotsDiffer, CurrentSlot
<1>7. FenceWillSignal'
  BY <1>3 DEF Inv, SlotsInv, FenceWillSignal
<1>8. HeldImage' /\ Drawing' /\ Finishing'
  BY <1>3 DEF Inv, TypeOK, ImagesInv, HeldImage, Drawing, Finishing, Images
<1>9. Presenting'
  <2>1. \A k \in 1..n :
          /\ presentQueue[k].image \in Images /\ presentQueue[k].image # imageIndex
          /\ presentQueue[k].sem = presentQueue[k].image
          /\ owner[presentQueue[k].image] = "queued"
    BY <1>3 DEF Inv, ImagesInv, Presenting, n
  <2>2. \A i \in Images : owner'[i] = IF i = imageIndex THEN "queued" ELSE owner[i]
    BY <1>3 DEF Inv, TypeOK
  <2>3. \A k \in 1..(n + 1) :
          /\ presentQueue'[k].sem = presentQueue'[k].image
          /\ presentQueue'[k].image \in Images
          /\ owner'[presentQueue'[k].image] = "queued"
    BY <1>2, <1>3, <1>4, <2>1, <2>2
  <2>4. \A k, l \in 1..(n + 1) :
          presentQueue'[k].image = presentQueue'[l].image => k = l
    BY <1>2, <1>4, <2>1 DEF Inv, ImagesInv, Presenting, n
  <2> QED
    BY <1>2, <1>3, <2>3, <2>4 DEF Presenting, Images
<1> QED
  BY <1>6, <1>7, <1>8, <1>9 DEF SlotsInv, ImagesInv

LEMMA AcquireSignalsKeeps ==
  ASSUME Inv, NEW s \in Slots, AcquireSignals(s)
  PROVE  SlotsInv' /\ ImagesInv'
<1>1. UNCHANGED <<pc, currentFrame_, imageIndex, imageCount, inFlightFences_,
                  renderFinishedSemaphores_, graphicsQueue, presentQueue, owner>>
  BY DEF AcquireSignals, cpuVars, chainVars
<1>2. \A r : Busy(r)' <=> Busy(r)
  BY <1>1 DEF Busy
<1>3. FenceTellsRest'
  BY <1>1, <1>2 DEF AcquireSignals, Inv, TypeOK, SlotsInv, FenceTellsRest
<1>4. CurrentSlot' /\ SlotsDiffer'
  BY <1>1, <1>2 DEF Inv, SlotsInv, CurrentSlot, SlotsDiffer
<1>5. FenceWillSignal'
  BY <1>1 DEF Inv, SlotsInv, FenceWillSignal
<1>6. ImagesInv'
  BY <1>1 DEF Inv, ImagesInv, HeldImage, Drawing, Finishing, Presenting, Images
<1> QED
  BY <1>3, <1>4, <1>5, <1>6 DEF SlotsInv

LEMMA ExecuteKeeps ==
  ASSUME Inv, Execute
  PROVE  SlotsInv' /\ ImagesInv'
<1> DEFINE work == Head(graphicsQueue)
           n == Len(graphicsQueue')
<1>1. /\ graphicsQueue \in Seq(Submission) /\ graphicsQueue # <<>>
      /\ graphicsQueue' = Tail(graphicsQueue)
  BY DEF Execute, Inv, TypeOK, Submission
<1>2. /\ n \in Nat /\ Len(graphicsQueue) = n + 1
      /\ \A k \in 1..n : graphicsQueue'[k] = graphicsQueue[k + 1]
      /\ work = graphicsQueue[1] /\ work \in Submission
  BY <1>1, Removed
<1>3. /\ imageAvailableSemaphores_[work.slot]
      /\ imageAvailableSemaphores_' =
           [imageAvailableSemaphores_ EXCEPT ![work.slot] = FALSE]
      /\ renderFinishedSemaphores_' = [renderFinishedSemaphores_ EXCEPT ![work.sem] = TRUE]
      /\ inFlightFences_' = [inFlightFences_ EXCEPT ![work.slot] = TRUE]
      /\ UNCHANGED <<pc, currentFrame_, imageIndex, imageCount, acquiring, presentQueue,
                     owner>>
  BY DEF Execute, cpuVars, chainVars
<1> HIDE DEF work, n
<1>0. work.slot \in Slots
  BY <1>2 DEF Submission
<1>4. \A s \in Slots : Busy(s)' <=> Busy(s) /\ s # work.slot
  <2>1. ASSUME NEW s \in Slots, Busy(s)' PROVE Busy(s) /\ s # work.slot
    <3>1. PICK k \in 1..n : graphicsQueue'[k].slot = s
      BY <2>1 DEF Busy, n
    <3>2. k + 1 \in 1..Len(graphicsQueue) /\ 1 \in 1..Len(graphicsQueue) /\ k + 1 # 1
          /\ graphicsQueue[k + 1].slot = s
      BY <3>1, <1>2
    <3> QED
      BY <3>2, <1>2 DEF Busy, Inv, SlotsInv, SlotsDiffer
  <2>2. ASSUME NEW s \in Slots, Busy(s), s # work.slot PROVE Busy(s)'
    <3>1. PICK k \in 1..Len(graphicsQueue) : graphicsQueue[k].slot = s
      BY <2>2 DEF Busy
    <3>2. k # 1
      BY <3>1, <2>2, <1>2
    <3>3. k - 1 \in 1..n /\ graphicsQueue'[k - 1].slot = s
      BY <3>1, <3>2, <1>2
    <3> QED
      BY <3>3 DEF Busy, n
  <2> QED
    BY <2>1, <2>2
<1>5. Busy(work.slot)
  BY <1>2 DEF Busy
<1>6. FenceTellsRest'
  BY <1>0, <1>3, <1>4, <1>5 DEF Inv, TypeOK, SlotsInv, FenceTellsRest
<1>7. CurrentSlot'
  BY <1>0, <1>3, <1>4, <1>5 DEF Inv, TypeOK, SlotsInv, CurrentSlot
<1>8. SlotsDiffer'
  BY <1>2 DEF Inv, SlotsInv, SlotsDiffer, n
<1>9. FenceWillSignal'
  BY <1>0, <1>3, <1>4 DEF Inv, TypeOK, SlotsInv, FenceWillSignal, Busy
<1>10. HeldImage' /\ Presenting'
  BY <1>3 DEF Inv, ImagesInv, HeldImage, Presenting, Images
<1>11. /\ work.sem \in Images /\ owner[work.sem] \in {"app", "queued"}
       /\ \A k \in 1..n : graphicsQueue'[k].sem # work.sem
       /\ pc = "record" => work.sem # imageIndex
  BY <1>2 DEF Inv, ImagesInv, Drawing, Finishing
<1>12. \A i \in Images :
         renderFinishedSemaphores_'[i] = IF i = work.sem THEN TRUE
                                         ELSE renderFinishedSemaphores_[i]
  BY <1>3 DEF Inv, TypeOK
<1>13. ASSUME NEW k \in 1..n
       PROVE  /\ graphicsQueue'[k].sem \in Images
              /\ owner[graphicsQueue'[k].sem] \in {"app", "queued"}
              /\ ~renderFinishedSemaphores_[graphicsQueue'[k].sem]
              /\ pc = "record" => graphicsQueue'[k].sem # imageIndex
  <2>1. k + 1 \in 1..Len(graphicsQueue) /\ graphicsQueue'[k] = graphicsQueue[k + 1]
    BY <1>2
  <2> QED
    BY <2>1 DEF Inv, ImagesInv, Drawing, Finishing
<1>14. Drawing'
  <2>1. \A k \in 1..n :
          /\ graphicsQueue'[k].sem \in Images
          /\ owner[graphicsQueue'[k].sem] \in {"app", "queued"}
          /\ ~renderFinishedSemaphores_'[graphicsQueue'[k].sem]
    BY <1>11, <1>12, <1>13
  <2>2. \A k, l \in 1..n :
          graphicsQueue'[k].sem = graphicsQueue'[l].sem => k = l
    BY <1>2 DEF Inv, ImagesInv, Drawing
  <2> QED
    BY <1>3, <2>1, <2>2 DEF Drawing, Images, n
<1>15. Finishing'
  <2>1. \A i \in Images : renderFinishedSemaphores_'[i] => owner[i] \in {"app", "queued"}
    BY <1>11, <1>12 DEF Inv, ImagesInv, Finishing
  <2>2. ASSUME pc = "record"
        PROVE  /\ ~renderFinishedSemaphores_'[imageIndex]
               /\ \A k \in 1..n : graphicsQueue'[k].sem # imageIndex
    BY <1>11, <1>12, <1>13, <2>2 DEF Inv, ImagesInv, HeldImage, Finishing
  <2> QED
    BY <1>3, <2>1, <2>2 DEF Finishing, Images, n
<1> QED
  BY <1>6, <1>7, <1>8, <1>9, <1>10, <1>14, <1>15 DEF SlotsInv, ImagesInv

LEMMA ShowKeeps ==
  ASSUME Inv, Show
  PROVE  SlotsInv' /\ ImagesInv'
<1> DEFINE it == Head(presentQueue)
           n == Len(presentQueue')
<1>1. /\ presentQueue \in Seq(Presentation) /\ presentQueue # <<>>
      /\ presentQueue' = Tail(presentQueue)
  BY DEF Show, Inv, TypeOK, Presentation
<1>2. /\ n \in Nat /\ Len(presentQueue) = n + 1
      /\ \A k \in 1..n : presentQueue'[k] = presentQueue[k + 1]
      /\ it = presentQueue[1]
  BY <1>1, Removed
<1>3. /\ renderFinishedSemaphores_[it.sem]
      /\ renderFinishedSemaphores_' = [renderFinishedSemaphores_ EXCEPT ![it.sem] = FALSE]
      /\ owner' = [i \in Images |-> IF i = it.image THEN "shown"
                                    ELSE IF owner[i] = "shown" THEN "free" ELSE owner[i]]
      /\ UNCHANGED <<pc, currentFrame_, imageIndex, imageCount, acquiring, graphicsQueue,
                     inFlightFences_, imageAvailableSemaphores_>>
  BY DEF Show, cpuVars, chainVars
<1> HIDE DEF it, n
<1>4. \A s : Busy(s)' <=> Busy(s)
  BY <1>3 DEF Busy
<1>5. FenceTellsRest' /\ CurrentSlot' /\ SlotsDiffer'
  BY <1>3, <1>4 DEF Inv, SlotsInv, FenceTellsRest, CurrentSlot, SlotsDiffer
<1>6. FenceWillSignal'
  BY <1>3 DEF Inv, SlotsInv, FenceWillSignal
<1>7. /\ it.image \in Images /\ it.sem = it.image /\ owner[it.image] = "queued"
      /\ \A k \in 1..n : presentQueue'[k].image # it.image
  BY <1>2 DEF Inv, ImagesInv, Presenting
<1>8. HeldImage'
  BY <1>3, <1>7 DEF Inv, TypeOK, ImagesInv, HeldImage, Images
<1>9. \A k \in 1..Len(graphicsQueue) : graphicsQueue[k].sem # it.image
  BY <1>3, <1>7 DEF Inv, ImagesInv, Drawing
<1>10. Drawing'
  BY <1>3, <1>7, <1>9 DEF Inv, TypeOK, ImagesInv, Drawing, Images
<1>11. Finishing'
  BY <1>3, <1>7 DEF Inv, TypeOK, ImagesInv, HeldImage, Finishing, Images
<1>12. Presenting'
  <2>1. \A k \in 1..n :
          /\ presentQueue'[k].sem = presentQueue'[k].image
          /\ presentQueue'[k].image \in Images
          /\ owner[presentQueue'[k].image] = "queued"
    BY <1>2 DEF Inv, ImagesInv, Presenting
  <2>2. \A k, l \in 1..n :
          presentQueue'[k].image = presentQueue'[l].image => k = l
    BY <1>2 DEF Inv, ImagesInv, Presenting
  <2>3. \A k \in 1..n : owner'[presentQueue'[k].image] = "queued"
    BY <1>3, <1>7, <2>1
  <2> QED
    BY <1>3, <2>1, <2>2, <2>3 DEF Presenting, Images, n
<1> QED
  BY <1>5, <1>6, <1>8, <1>10, <1>11, <1>12 DEF SlotsInv, ImagesInv

LEMMA InvKept == Inv /\ [Next]_vars => Inv'
<1> SUFFICES ASSUME Inv, [Next]_vars PROVE SlotsInv' /\ ImagesInv'
  BY TypesKept DEF Inv
<1>1. CASE Recreate \/ Acquire \/ Submit \/ Present
  BY <1>1, RecreateKeeps, AcquireKeeps, SubmitKeeps, PresentKeeps
<1>2. CASE Gpu
  BY <1>2, AcquireSignalsKeeps, ExecuteKeeps, ShowKeeps DEF Gpu
<1>3. CASE ~(Recreate \/ Acquire \/ Submit \/ Present) /\ ~Gpu
  BY <1>3, PacingSteps, PacesKeep DEF Next, Main
<1> QED
  BY <1>1, <1>2, <1>3

-----------------------------------------------------------------------------
(* What follows.                                                              *)

LEMMA InvReuses == Inv => ReusedWhenFree
<1> SUFFICES ASSUME Inv PROVE ReusedWhenFree
  OBVIOUS
<1>1. ASSUME NEW i \in Images
      PROVE  LET Signals == {k \in 1..Len(graphicsQueue) : graphicsQueue[k].sem = i} IN
               Cardinality(Signals) + (IF renderFinishedSemaphores_[i] THEN 1 ELSE 0) <= 1
  <2> DEFINE Signals == {k \in 1..Len(graphicsQueue) : graphicsQueue[k].sem = i}
  <2> DEFINE flag == IF renderFinishedSemaphores_[i] THEN 1 ELSE 0
  <2>1. CASE Signals = {}
    <3>1. Cardinality(Signals) = 0
      BY <2>1, FS_EmptySet
    <3>2. Cardinality(Signals) + flag <= 1
      BY <3>1
    <3> QED
      BY <3>2
  <2>2. CASE Signals # {}
    <3>1. PICK k \in Signals : TRUE
      BY <2>2
    <3>2. Signals = {k} /\ ~renderFinishedSemaphores_[i]
      BY <3>1 DEF Inv, ImagesInv, Drawing
    <3>3. Cardinality({k}) = 1 /\ flag = 0
      BY <3>2, FS_Singleton
    <3>4. Cardinality(Signals) = 1
      BY <3>2, <3>3
    <3> HIDE DEF Signals, flag
    <3> QED
      BY <3>3, <3>4 DEF Signals, flag
  <2> QED
    BY <2>1, <2>2
<1>2. \A s \in Slots : ~(s \in acquiring /\ imageAvailableSemaphores_[s])
  BY DEF Inv, SlotsInv, FenceTellsRest
<1>3. pc = "acquire" =>
        currentFrame_ \notin acquiring /\ ~imageAvailableSemaphores_[currentFrame_]
  BY DEF Inv, TypeOK, SlotsInv, FenceTellsRest, CurrentSlot
<1>4. SlotUnused
  BY DEF Inv, SlotsInv, CurrentSlot, Busy, SlotUnused
<1> QED
  BY <1>1, <1>2, <1>3, <1>4 DEF ReusedWhenFree, SignalledOnce

LEMMA InvReturns == Inv => FencesReturn
<1> SUFFICES ASSUME Inv PROVE FencesReturn
  OBVIOUS
<1>1. FenceWillSignal
  BY DEF Inv, SlotsInv
<1>2. IdleMeansInitial
  BY IdleRests DEF IdleMeansInitial
<1> QED
  BY <1>1, <1>2 DEF FencesReturn

LEMMA InvCorrect == Spec => []Inv
<1> QED
  BY InitInv, InvKept, PTL DEF Spec

\* No semaphore is signalled twice without a wait between, and no slot is
\* recorded into while a submission reads it, however the frames of the main
\* thread, the GPU, the presentation engine and the window interleave.
THEOREM ReuseCorrect == Spec => []ReusedWhenFree
<1> QED
  BY InvCorrect, InvReuses, PTL

\* Every fence that is waited for will be signalled, and a recreation or the end
\* finds the objects of the slots as they were created.
THEOREM FencesCorrect == Spec => []FencesReturn
<1> QED
  BY InvCorrect, InvReturns, PTL

================================================================================
