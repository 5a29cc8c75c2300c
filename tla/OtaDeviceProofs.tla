--------------------------- MODULE OtaDeviceProofs ---------------------------
(***************************************************************************)
(* The safety of OtaDevice for every number of generations, tokens, chunks *)
(* and addresses: SafetyInv is inductive, the properties of OtaDevice      *)
(* follow from it, and every step is a step of OtaSession or a stutter.    *)
(*                                                                         *)
(* The types come first.  VariablesTyped is split by what a prover needs   *)
(* for it: flags are Booleans, for Zenon; values are numbers and strings   *)
(* of a finite set, for SMT; records and functions need their fields.      *)
(***************************************************************************)
EXTENDS OtaInvariants, TLAPS

FlagTypes ==
  /\ {cloudInFlight, otaReserved, otaLeased} \subseteq BOOLEAN
  /\ {cancelRequested, uploadCompleted, rebootPending, uploadBody,
      applyPending, responseReleased, cancelAccepted} \subseteq BOOLEAN
  /\ {wcomplete, wapply, rebootScheduled} \subseteq BOOLEAN

ValueTypes ==
  /\ otaGeneration \in Nat
  /\ state \in States
  /\ command \in Commands
  /\ generation \in Generations
  /\ networkGeneration \in Nat
  /\ packageSize \in 0 .. MaxChunks
  /\ acceptedBytes \in Nat
  /\ lastError \in Errors
  /\ applyGeneration \in Generations
  /\ signal \in 0 .. SignalLimit
  /\ wpc \in WorkerPlaces
  /\ wresult \in Errors
  /\ wgeneration \in Generations
  /\ corePhase \in {"IDLE", "OPEN", "STAGED"}
  /\ bootTable \in {"NONE", "PENDING"}
  /\ mpc \in {"NETWORK", "OTA", "REBOOT", "CLOUD", "UPLOADING"}
  /\ webGeneration \in 0 .. MaxWebGeneration
  /\ spc \in {"IDLE", "UPLOAD", "CREATED", "REPLY", "APPLY", "RESPOND"}
  /\ uploadGeneration \in Generations
  /\ contextHeld \in 0 .. 2
  /\ lpc \in {"IDLE", "SNAPSHOT", "REPLY"}

RecordTypes ==
  /\ staged \in Images
  /\ coreImage \in Images
  /\ ask \in Images
  /\ reply \in Images
  /\ body \in Bodies
  /\ seen \in Views
  /\ contexts \in [1 .. 2 -> [active : BOOLEAN, generation : Generations]]

Types == FlagTypes /\ ValueTypes /\ RecordTypes

\* What a step of the worker leaves alone.
StillThreads == UNCHANGED <<mainVars, streamVars, listenerVars>>

-----------------------------------------------------------------------------
(* Lemmas about the operators the model is built from.                     *)

\* The next generation is a generation, is not 0 and differs from the last:
\* ++generation_, skipping 0, in upload().
LEMMA NextGenerationType ==
  ASSUME NEW g \in Generations
  PROVE  /\ NextGeneration(g) \in Generations
         /\ NextGeneration(g) # 0
         /\ NextGeneration(g) # g
BY GenerationLimitAssumption DEF Generations, NextGeneration

\* A session of the Core has a number of the same range: core_.begin().
LEMMA NextCoreSessionType ==
  ASSUME NEW session \in Generations
  PROVE  NextCoreSession(session) \in Generations
BY GenerationLimitAssumption DEF Generations, NextCoreSession

\* A release adds a token below the limit, never passes it and leaves at
\* least one: commandSignal_.release().
LEMMA ReleasedType ==
  ASSUME NEW tokens \in 0 .. SignalLimit
  PROVE  Released(tokens) \in 0 .. SignalLimit /\ Released(tokens) > 0
BY SignalLimitAssumption DEF Released

\* The values at start, by set.
LEMMA InitialTypes ==
  /\ 0 \in Generations
  /\ 0 \in 0 .. MaxChunks
  /\ 0 \in 0 .. SignalLimit
  /\ 0 \in 0 .. MaxWebGeneration
  /\ NoImage \in Images
  /\ NoBody \in Bodies
  /\ NothingSeen \in Views
<1>1. /\ 0 \in Generations
      /\ 0 \in 0 .. MaxChunks
      /\ 0 \in 0 .. SignalLimit
      /\ 0 \in 0 .. MaxWebGeneration
  BY GenerationLimitAssumption, SignalLimitAssumption, MaxChunksAssumption,
     MaxWebGenerationAssumption DEF Generations
<1>2. NoImage \in Images
  BY <1>1 DEF NoImage, Images
<1> QED
  BY <1>1, <1>2 DEF NoBody, Bodies, NothingSeen, Views, States

\* The image a handler is told of is an image: readyImage().
LEMMA ReadyImageType ==
  ASSUME RecordTypes
  PROVE  ReadyImage \in Images
BY InitialTypes DEF ReadyImage, RecordTypes

\* The split is faithful: it says what VariablesTyped says.
LEMMA TypesAreVariablesTyped == Types <=> VariablesTyped
<1> USE DEF VariablesTyped, NetTypeOK, ControllerTypeOK, WorkerTypeOK,
            DeviceTypeOK
<1>1. VariablesTyped => FlagTypes
  BY DEF FlagTypes
<1>2. VariablesTyped => ValueTypes /\ RecordTypes
  BY DEF ValueTypes, RecordTypes
<1>3. Types => VariablesTyped
  BY Zenon DEF Types, FlagTypes, ValueTypes, RecordTypes
<1> QED
  BY <1>1, <1>2, <1>3 DEF Types

-----------------------------------------------------------------------------
(* The initial states and a restart.                                       *)

\* setup() starts every member with its type.
LEMMA InitTypes == Init => Types
<1> SUFFICES ASSUME Init PROVE FlagTypes /\ ValueTypes /\ RecordTypes
  BY DEF Types
<1> USE DEF Init, ControllerInit, NetInit
<1>1. FlagTypes
  BY Zenon DEF FlagTypes
<1>2. ValueTypes
  BY InitialTypes DEF ValueTypes, States, Commands, Errors, WorkerPlaces
<1>3. RecordTypes
  BY InitialTypes DEF RecordTypes
<1> QED
  BY <1>1, <1>2, <1>3

\* So does a reset, at any moment.
LEMMA RestartTypes == Restart => FlagTypes' /\ ValueTypes' /\ RecordTypes'
<1> SUFFICES ASSUME Restart PROVE FlagTypes' /\ ValueTypes' /\ RecordTypes'
  OBVIOUS
<1> USE DEF Restart, ControllerReset, NetReset
<1>1. FlagTypes'
  BY Zenon DEF FlagTypes
<1>2. ValueTypes'
  BY InitialTypes DEF ValueTypes, States, Commands, Errors, WorkerPlaces
<1>3. RecordTypes'
  BY InitialTypes DEF RecordTypes
<1> QED
  BY <1>1, <1>2, <1>3

-----------------------------------------------------------------------------
(* The steps.                                                              *)

\* No step gives a flag another value than TRUE or FALSE.
LEMMA FlagTypesStep ==
  ASSUME FlagTypes, [Next]_vars
  PROVE  FlagTypes'
<1> USE DEF vars, otaVars, ctlVars, phaseVars, cancelVars, uploadVars,
            sessionVars, queueVars, workerVars, coreVars, netVars, mainVars,
            streamVars, listenerVars, StillThreads
<1>1. CASE MainNetwork
  BY <1>1, Zenon DEF MainNetwork, FlagTypes
<1>2. CASE MainUpdate
  BY <1>2, Zenon DEF MainUpdate, UpdateCancels, UpdateGrants, UpdateIdle,
     UpdateMustCancel, Cancellation, CancellationAllowed, GrantOta,
     CanGrantOta, FlagTypes
<1>3. CASE MainReboot
  BY <1>3, Zenon DEF MainReboot, FlagTypes
<1>4. CASE SystemReset
  BY <1>4, RestartTypes DEF SystemReset
<1>5. CASE MainCloudBegin
  BY <1>5, Zenon DEF MainCloudBegin, BeginCloud, CanBeginCloud, FlagTypes
<1>6. CASE MainCloudSkip
  BY <1>6, Zenon DEF MainCloudSkip, FlagTypes
<1>7. CASE MainCloudEnd
  BY <1>7, Zenon DEF MainCloudEnd, EndCloud, FlagTypes
<1>8. CASE StreamPollCancels
  BY <1>8, Zenon DEF StreamPollCancels, UploadPollCancels, Cancellation,
     CancellationAllowed, FlagTypes
<1>9. CASE StreamUploadReturns
  BY <1>9, Zenon DEF StreamUploadReturns, UploadReturned, FlagTypes
<1>10. CASE StreamNameImage
  BY <1>10, Zenon DEF StreamNameImage, ReadyImage, FlagTypes
<1>11. CASE StreamReplied
  BY <1>11, Zenon DEF StreamReplied, FlagTypes
<1>12. CASE StreamApplyQueued
  BY <1>12, Zenon DEF StreamApplyQueued, ApplyQueued, QueueApply,
     ApplyAllowed, FreeContexts, FlagTypes
<1>13. CASE StreamApplyRefused
  BY <1>13, Zenon DEF StreamApplyRefused, FlagTypes
<1>14. CASE StreamResponseAttempted
  BY <1>14, Zenon DEF StreamResponseAttempted, ResponseAttempted, FlagTypes
<1>15. CASE StreamUpload
  BY <1>15, Zenon DEF StreamUpload, UploadAccepted, UploadAllowed,
     ReserveOta, CanReserveOta, Requests, FlagTypes
<1>16. CASE StreamUploadRefused
  BY <1>16, Zenon DEF StreamUploadRefused, UploadNotReserved, UploadAllowed,
     CanReserveOta, Requests, FlagTypes
<1>17. CASE StreamApplyRequest
  BY <1>17, Zenon DEF StreamApplyRequest, ReadyImage, FlagTypes
<1>18. CASE ClientDisconnects
  BY <1>18, Zenon DEF ClientDisconnects, FlagTypes
<1>19. CASE ListenerCancel
  BY <1>19, Zenon DEF ListenerCancel, CancelByClient, Cancellation,
     CancellationAllowed, FlagTypes
<1>20. CASE ListenerSnapshot
  BY <1>20, Zenon DEF ListenerSnapshot, FlagTypes
<1>21. CASE ListenerReadyImage
  BY <1>21, Zenon DEF ListenerReadyImage, ReadyImage, FlagTypes
<1>22. CASE ListenerReplied
  BY <1>22, Zenon DEF ListenerReplied, NothingSeen, FlagTypes
<1>23. CASE WorkerWake /\ StillThreads
  BY <1>23, Zenon DEF WorkerWake, FlagTypes
<1>24. CASE WorkerUploadCheck /\ StillThreads
  BY <1>24, Zenon DEF WorkerUploadCheck, FlagTypes
<1>25. CASE WorkerApplyCheck /\ StillThreads
  BY <1>25, Zenon DEF WorkerApplyCheck, Goto, FlagTypes
<1>26. CASE WorkerCancelCheck /\ StillThreads
  BY <1>26, Zenon DEF WorkerCancelCheck, FlagTypes
<1>27. CASE CoreBegin /\ StillThreads
  BY <1>27, Zenon DEF CoreBegin, CoreFailures, Goto, FlagTypes
<1>28. CASE BodyData(BodyCurrent) /\ StillThreads
  BY <1>28, Zenon DEF BodyData, Goto, FlagTypes
<1>29. CASE BodyEmpty(BodyCurrent) /\ StillThreads
  BY <1>29, Zenon DEF BodyEmpty, Goto, FlagTypes
<1>30. CASE BodyEnded(BodyCurrent) /\ StillThreads
  BY <1>30, Zenon DEF BodyEnded, Goto, FlagTypes
<1>31. CASE WorkerEmptyCheck /\ StillThreads
  BY <1>31, Zenon DEF WorkerEmptyCheck, CancelPoint, Cancelled, Goto,
     FlagTypes
<1>32. CASE WorkerDataCheck /\ StillThreads
  BY <1>32, Zenon DEF WorkerDataCheck, CancelPoint, Cancelled, Goto,
     FlagTypes
<1>33. CASE CoreWrite /\ StillThreads
  BY <1>33, Zenon DEF CoreWrite, CoreFailures, Goto, FlagTypes
<1>34. CASE WorkerLastCheck /\ StillThreads
  BY <1>34, Zenon DEF WorkerLastCheck, CancelPoint, Cancelled, Goto,
     FlagTypes
<1>35. CASE WorkerVerify /\ StillThreads
  BY <1>35, Zenon DEF WorkerVerify, Goto, FlagTypes
<1>36. CASE CoreFinish /\ StillThreads
  BY <1>36, Zenon DEF CoreFinish, CoreFailures, Goto, FlagTypes
<1>37. CASE WorkerPublish /\ StillThreads
  BY <1>37, Zenon DEF WorkerPublish, FlagTypes
<1>38. CASE CoreAbort /\ StillThreads
  BY <1>38, Zenon DEF CoreAbort, Goto, FlagTypes
<1>39. CASE WorkerFail /\ StillThreads
  BY <1>39, Zenon DEF WorkerFail, FlagTypes
<1>40. CASE WorkerRelease /\ StillThreads
  BY <1>40, Zenon DEF WorkerRelease, ReleaseOta, HoldsReservation, FlagTypes
<1>41. CASE WorkerComplete /\ StillThreads
  BY <1>41, Zenon DEF WorkerComplete, FlagTypes
<1>42. CASE WorkerClearApply /\ StillThreads
  BY <1>42, Zenon DEF WorkerClearApply, FlagTypes
<1>43. CASE WorkerValidate /\ StillThreads
  BY <1>43, Zenon DEF WorkerValidate, QueuedApplyValid, FlagTypes
<1>44. CASE CoreActivate /\ StillThreads
  BY <1>44, Zenon DEF CoreActivate, Goto, FlagTypes
<1>45. CASE WorkerRecord /\ StillThreads
  BY <1>45, Zenon DEF WorkerRecord, FlagTypes
<1>46. CASE PowerLoss
  BY <1>46, RestartTypes DEF PowerLoss
<1>47. CASE UNCHANGED vars
  BY <1>47 DEF FlagTypes
<1> QED
  BY <1>1, <1>2, <1>3, <1>4, <1>5, <1>6, <1>7, <1>8, <1>9, <1>10, <1>11,
     <1>12, <1>13, <1>14, <1>15, <1>16, <1>17, <1>18, <1>19, <1>20, <1>21,
     <1>22, <1>23, <1>24, <1>25, <1>26, <1>27, <1>28, <1>29, <1>30, <1>31,
     <1>32, <1>33, <1>34, <1>35, <1>36, <1>37, <1>38, <1>39, <1>40, <1>41,
     <1>42, <1>43, <1>44, <1>45, <1>46, <1>47 DEF Next, MainStep,
     StreamStep, ClientRequest, ListenerStep, WorkerStep, StillThreads

\* No step takes a number or a name out of its set: a generation stays within
\* its width, the tokens within their limit, the states within the enum.
LEMMA ValueTypesStep ==
  ASSUME ValueTypes, RecordTypes, [Next]_vars
  PROVE  ValueTypes'
<1> USE DEF vars, otaVars, ctlVars, phaseVars, cancelVars, uploadVars,
            sessionVars, queueVars, workerVars, coreVars, netVars, mainVars,
            streamVars, listenerVars, StillThreads
<1>1. CASE MainNetwork
  BY <1>1, MaxWebGenerationAssumption DEF MainNetwork, ValueTypes
<1>2. CASE MainUpdate
  BY <1>2, ReleasedType DEF MainUpdate, UpdateCancels, UpdateGrants,
     UpdateIdle, UpdateMustCancel, Cancellation, CancellationAllowed,
     GrantOta, CanGrantOta, ValueTypes, States, Commands
<1>3. CASE MainReboot
  BY <1>3 DEF MainReboot, ValueTypes
<1>4. CASE SystemReset
  BY <1>4, RestartTypes DEF SystemReset
<1>5. CASE MainCloudBegin
  BY <1>5 DEF MainCloudBegin, BeginCloud, CanBeginCloud, ValueTypes
<1>6. CASE MainCloudSkip
  BY <1>6 DEF MainCloudSkip, ValueTypes
<1>7. CASE MainCloudEnd
  BY <1>7 DEF MainCloudEnd, EndCloud, ValueTypes
<1>8. CASE StreamPollCancels
  BY <1>8, ReleasedType DEF StreamPollCancels, UploadPollCancels,
     Cancellation, CancellationAllowed, ValueTypes, Commands
<1>9. CASE StreamUploadReturns
  BY <1>9, InitialTypes DEF StreamUploadReturns, UploadReturned, ValueTypes,
     WorkerPlaces
<1>10. CASE StreamNameImage
  BY <1>10 DEF StreamNameImage, ReadyImage, ValueTypes
<1>11. CASE StreamReplied
  BY <1>11 DEF StreamReplied, ValueTypes
<1>12. CASE StreamApplyQueued
  BY <1>12 DEF StreamApplyQueued, ApplyQueued, QueueApply, ApplyAllowed,
     FreeContexts, ValueTypes, Commands
<1>13. CASE StreamApplyRefused
  BY <1>13 DEF StreamApplyRefused, ValueTypes
<1>14. CASE StreamResponseAttempted
  BY <1>14, ReleasedType DEF StreamResponseAttempted, ResponseAttempted,
     ValueTypes
<1>15. CASE StreamUpload
  BY <1>15, NextGenerationType, ReleasedType, InitialTypes,
     MaxWebGenerationAssumption DEF StreamUpload, UploadAccepted,
     UploadAllowed, ReserveOta, CanReserveOta, Requests, ValueTypes,
     RecordTypes, States, Commands, Errors, WorkerPlaces, Generations
<1>16. CASE StreamUploadRefused
  BY <1>16, NextGenerationType, ReleasedType DEF StreamUploadRefused,
     UploadNotReserved, UploadAllowed, CanReserveOta, Requests, ValueTypes,
     States, Commands
<1>17. CASE StreamApplyRequest
  BY <1>17 DEF StreamApplyRequest, ReadyImage, ValueTypes
<1>18. CASE ClientDisconnects
  BY <1>18 DEF ClientDisconnects, ValueTypes
<1>19. CASE ListenerCancel
  BY <1>19, ReleasedType DEF ListenerCancel, CancelByClient, Cancellation,
     CancellationAllowed, ValueTypes, Commands
<1>20. CASE ListenerSnapshot
  BY <1>20 DEF ListenerSnapshot, ValueTypes
<1>21. CASE ListenerReadyImage
  BY <1>21 DEF ListenerReadyImage, ReadyImage, ValueTypes
<1>22. CASE ListenerReplied
  BY <1>22 DEF ListenerReplied, NothingSeen, ValueTypes
<1>23. CASE WorkerWake /\ StillThreads
  <2>1. wpc' \in WorkerPlaces
    BY <1>23 DEF WorkerWake, WorkerPlaces
  <2>2. signal' \in 0 .. SignalLimit
    BY <1>23, SignalLimitAssumption DEF WorkerWake, ValueTypes
  <2> QED
    BY <1>23, <2>1, <2>2 DEF WorkerWake, ValueTypes
<1>24. CASE WorkerUploadCheck /\ StillThreads
  BY <1>24 DEF WorkerUploadCheck, ValueTypes, Commands, Errors, WorkerPlaces
<1>25. CASE WorkerApplyCheck /\ StillThreads
  BY <1>25 DEF WorkerApplyCheck, Goto, ValueTypes, WorkerPlaces
<1>26. CASE WorkerCancelCheck /\ StillThreads
  BY <1>26 DEF WorkerCancelCheck, ValueTypes, Errors, WorkerPlaces
<1>27. CASE CoreBegin /\ StillThreads
  BY <1>27 DEF CoreBegin, CoreFailures, Goto, ValueTypes, Errors,
     WorkerPlaces
<1>28. CASE BodyData(BodyCurrent) /\ StillThreads
  BY <1>28 DEF BodyData, Goto, ValueTypes, WorkerPlaces
<1>29. CASE BodyEmpty(BodyCurrent) /\ StillThreads
  BY <1>29 DEF BodyEmpty, Goto, ValueTypes, WorkerPlaces
<1>30. CASE BodyEnded(BodyCurrent) /\ StillThreads
  BY <1>30 DEF BodyEnded, Goto, ValueTypes, Errors, WorkerPlaces
<1>31. CASE WorkerEmptyCheck /\ StillThreads
  BY <1>31 DEF WorkerEmptyCheck, CancelPoint, Cancelled, Goto, ValueTypes,
     Errors, WorkerPlaces
<1>32. CASE WorkerDataCheck /\ StillThreads
  BY <1>32 DEF WorkerDataCheck, CancelPoint, Cancelled, Goto, ValueTypes,
     Errors, WorkerPlaces
<1>33. CASE CoreWrite /\ StillThreads
  BY <1>33 DEF CoreWrite, CoreFailures, Goto, ValueTypes, Errors,
     WorkerPlaces
<1>34. CASE WorkerLastCheck /\ StillThreads
  BY <1>34 DEF WorkerLastCheck, CancelPoint, Cancelled, Goto, ValueTypes,
     Errors, WorkerPlaces
<1>35. CASE WorkerVerify /\ StillThreads
  BY <1>35 DEF WorkerVerify, Goto, ValueTypes, States, WorkerPlaces
<1>36. CASE CoreFinish /\ StillThreads
  BY <1>36 DEF CoreFinish, CoreFailures, Goto, ValueTypes, Errors,
     WorkerPlaces
<1>37. CASE WorkerPublish /\ StillThreads
  BY <1>37 DEF WorkerPublish, ValueTypes, States, Commands, Errors,
     WorkerPlaces
<1>38. CASE CoreAbort /\ StillThreads
  BY <1>38 DEF CoreAbort, Goto, ValueTypes, WorkerPlaces
<1>39. CASE WorkerFail /\ StillThreads
  BY <1>39 DEF WorkerFail, ValueTypes, States, Commands, WorkerPlaces
<1>40. CASE WorkerRelease /\ StillThreads
  BY <1>40, InitialTypes DEF WorkerRelease, ReleaseOta, HoldsReservation,
     ValueTypes, WorkerPlaces, Errors
<1>41. CASE WorkerComplete /\ StillThreads
  BY <1>41 DEF WorkerComplete, ValueTypes, WorkerPlaces
<1>42. CASE WorkerClearApply /\ StillThreads
  BY <1>42 DEF WorkerClearApply, ValueTypes, WorkerPlaces
<1>43. CASE WorkerValidate /\ StillThreads
  BY <1>43 DEF WorkerValidate, QueuedApplyValid, ValueTypes, States,
     Commands, Errors, WorkerPlaces
<1>44. CASE CoreActivate /\ StillThreads
  BY <1>44 DEF CoreActivate, Goto, ValueTypes, Errors, WorkerPlaces
<1>45. CASE WorkerRecord /\ StillThreads
  BY <1>45, InitialTypes DEF WorkerRecord, ValueTypes, States, Commands,
     Errors, WorkerPlaces
<1>46. CASE PowerLoss
  BY <1>46, RestartTypes DEF PowerLoss
<1>47. CASE UNCHANGED vars
  BY <1>47 DEF ValueTypes
<1> QED
  BY <1>1, <1>2, <1>3, <1>4, <1>5, <1>6, <1>7, <1>8, <1>9, <1>10, <1>11,
     <1>12, <1>13, <1>14, <1>15, <1>16, <1>17, <1>18, <1>19, <1>20, <1>21,
     <1>22, <1>23, <1>24, <1>25, <1>26, <1>27, <1>28, <1>29, <1>30, <1>31,
     <1>32, <1>33, <1>34, <1>35, <1>36, <1>37, <1>38, <1>39, <1>40, <1>41,
     <1>42, <1>43, <1>44, <1>45, <1>46, <1>47 DEF Next, MainStep,
     StreamStep, ClientRequest, ListenerStep, WorkerStep, StillThreads

\* No step breaks a record: images, the request body, the response contexts.
LEMMA RecordTypesStep ==
  ASSUME ValueTypes, RecordTypes, [Next]_vars
  PROVE  RecordTypes'
<1> USE DEF vars, otaVars, ctlVars, phaseVars, cancelVars, uploadVars,
            sessionVars, queueVars, workerVars, coreVars, netVars, mainVars,
            streamVars, listenerVars, StillThreads
<1>1. CASE MainNetwork
  BY <1>1 DEF MainNetwork, RecordTypes
<1>2. CASE MainUpdate
  BY <1>2 DEF MainUpdate, UpdateCancels, UpdateGrants, UpdateIdle,
     UpdateMustCancel, Cancellation, CancellationAllowed, GrantOta,
     CanGrantOta, RecordTypes
<1>3. CASE MainReboot
  BY <1>3 DEF MainReboot, RecordTypes
<1>4. CASE SystemReset
  BY <1>4, RestartTypes DEF SystemReset
<1>5. CASE MainCloudBegin
  BY <1>5 DEF MainCloudBegin, BeginCloud, CanBeginCloud, RecordTypes
<1>6. CASE MainCloudSkip
  BY <1>6 DEF MainCloudSkip, RecordTypes
<1>7. CASE MainCloudEnd
  BY <1>7 DEF MainCloudEnd, EndCloud, RecordTypes
<1>8. CASE StreamPollCancels
  BY <1>8 DEF StreamPollCancels, UploadPollCancels, Cancellation,
     CancellationAllowed, RecordTypes
<1>9. CASE StreamUploadReturns
  BY <1>9, InitialTypes DEF StreamUploadReturns, UploadReturned, RecordTypes
<1>10. CASE StreamNameImage
  BY <1>10, ReadyImageType DEF StreamNameImage, RecordTypes
<1>11. CASE StreamReplied
  BY <1>11, InitialTypes DEF StreamReplied, RecordTypes
<1>12. CASE StreamApplyQueued
  BY <1>12, InitialTypes, ReadyImageType, NextGenerationType DEF
     StreamApplyQueued, ApplyQueued, QueueApply, ApplyAllowed, FreeContexts,
     ValueTypes, RecordTypes, Images, Bodies, Views
<1>13. CASE StreamApplyRefused
  BY <1>13, InitialTypes DEF StreamApplyRefused, RecordTypes
<1>14. CASE StreamResponseAttempted
  <2>1. contexts' = [contexts EXCEPT ![contextHeld].active = FALSE]
    BY <1>14 DEF StreamResponseAttempted, ResponseAttempted
  <2>2. contexts' \in [1 .. 2 -> [active : BOOLEAN,
                                 generation : Generations]]
    BY <2>1 DEF RecordTypes
  <2> QED
    BY <1>14, <2>2 DEF StreamResponseAttempted, ResponseAttempted, RecordTypes
<1>15. CASE StreamUpload
  <2> PICK request \in Requests : UploadAccepted(request)
    BY <1>15 DEF StreamUpload
  <2>1. request \in Bodies
    <3>1. webGeneration \in Nat
      BY MaxWebGenerationAssumption DEF ValueTypes
    <3>2. /\ 0 .. webGeneration \subseteq Nat
          /\ 1 .. MaxChunks \subseteq 0 .. MaxChunks
      BY <3>1, MaxChunksAssumption
    <3> QED
      BY <3>2 DEF Requests, Bodies
  <2> QED
    BY <1>15, <2>1 DEF StreamUpload, UploadAccepted, RecordTypes
<1>16. CASE StreamUploadRefused
  BY <1>16 DEF StreamUploadRefused, UploadNotReserved, UploadAllowed,
     CanReserveOta, Requests, RecordTypes
<1>17. CASE StreamApplyRequest
  BY <1>17, ReadyImageType DEF StreamApplyRequest, RecordTypes
<1>18. CASE ClientDisconnects
  <2>1. body' = [body EXCEPT !.connected = FALSE]
    BY <1>18 DEF ClientDisconnects
  <2>2. body' \in Bodies
    BY <2>1 DEF RecordTypes, Bodies
  <2> QED
    BY <1>18, <2>2 DEF ClientDisconnects, RecordTypes
<1>19. CASE ListenerCancel
  BY <1>19 DEF ListenerCancel, CancelByClient, Cancellation,
     CancellationAllowed, RecordTypes
<1>20. CASE ListenerSnapshot
  BY <1>20 DEF ListenerSnapshot, ValueTypes, RecordTypes, Views
<1>21. CASE ListenerReadyImage
  BY <1>21, ReadyImageType DEF ListenerReadyImage, RecordTypes, Views
<1>22. CASE ListenerReplied
  BY <1>22, InitialTypes DEF ListenerReplied, RecordTypes
<1>23. CASE WorkerWake /\ StillThreads
  BY <1>23 DEF WorkerWake, RecordTypes
<1>24. CASE WorkerUploadCheck /\ StillThreads
  BY <1>24 DEF WorkerUploadCheck, RecordTypes
<1>25. CASE WorkerApplyCheck /\ StillThreads
  BY <1>25 DEF WorkerApplyCheck, Goto, RecordTypes
<1>26. CASE WorkerCancelCheck /\ StillThreads
  BY <1>26 DEF WorkerCancelCheck, RecordTypes
<1>27. CASE CoreBegin /\ StillThreads
  BY <1>27, NextCoreSessionType DEF CoreBegin, CoreFailures, Goto,
     RecordTypes, Images
<1>28. CASE BodyData(BodyCurrent) /\ StillThreads
  <2>1. body' = [body EXCEPT !.left = @ - 1] /\ body.left > 0
    BY <1>28 DEF BodyData
  <2>2. body.left - 1 \in 0 .. MaxChunks
    BY <2>1, MaxChunksAssumption DEF RecordTypes, Bodies
  <2>3. body' \in Bodies
    BY <2>1, <2>2 DEF RecordTypes, Bodies
  <2> QED
    BY <1>28, <2>3 DEF BodyData, Goto, RecordTypes
<1>29. CASE BodyEmpty(BodyCurrent) /\ StillThreads
  BY <1>29 DEF BodyEmpty, Goto, RecordTypes
<1>30. CASE BodyEnded(BodyCurrent) /\ StillThreads
  BY <1>30 DEF BodyEnded, Goto, RecordTypes
<1>31. CASE WorkerEmptyCheck /\ StillThreads
  BY <1>31 DEF WorkerEmptyCheck, CancelPoint, Cancelled, Goto, RecordTypes
<1>32. CASE WorkerDataCheck /\ StillThreads
  BY <1>32 DEF WorkerDataCheck, CancelPoint, Cancelled, Goto, RecordTypes
<1>33. CASE CoreWrite /\ StillThreads
  BY <1>33 DEF CoreWrite, CoreFailures, Goto, RecordTypes
<1>34. CASE WorkerLastCheck /\ StillThreads
  BY <1>34 DEF WorkerLastCheck, CancelPoint, Cancelled, Goto, RecordTypes
<1>35. CASE WorkerVerify /\ StillThreads
  BY <1>35 DEF WorkerVerify, Goto, RecordTypes
<1>36. CASE CoreFinish /\ StillThreads
  BY <1>36 DEF CoreFinish, CoreFailures, Goto, RecordTypes, Images, Bodies
<1>37. CASE WorkerPublish /\ StillThreads
  BY <1>37 DEF WorkerPublish, RecordTypes
<1>38. CASE CoreAbort /\ StillThreads
  BY <1>38 DEF CoreAbort, Goto, RecordTypes, Images
<1>39. CASE WorkerFail /\ StillThreads
  BY <1>39 DEF WorkerFail, RecordTypes
<1>40. CASE WorkerRelease /\ StillThreads
  BY <1>40 DEF WorkerRelease, ReleaseOta, HoldsReservation, RecordTypes
<1>41. CASE WorkerComplete /\ StillThreads
  BY <1>41 DEF WorkerComplete, RecordTypes
<1>42. CASE WorkerClearApply /\ StillThreads
  BY <1>42 DEF WorkerClearApply, RecordTypes
<1>43. CASE WorkerValidate /\ StillThreads
  BY <1>43 DEF WorkerValidate, QueuedApplyValid, RecordTypes
<1>44. CASE CoreActivate /\ StillThreads
  BY <1>44 DEF CoreActivate, Goto, RecordTypes
<1>45. CASE WorkerRecord /\ StillThreads
  BY <1>45 DEF WorkerRecord, RecordTypes
<1>46. CASE PowerLoss
  BY <1>46, RestartTypes DEF PowerLoss
<1>47. CASE UNCHANGED vars
  BY <1>47 DEF RecordTypes
<1> QED
  BY <1>1, <1>2, <1>3, <1>4, <1>5, <1>6, <1>7, <1>8, <1>9, <1>10, <1>11,
     <1>12, <1>13, <1>14, <1>15, <1>16, <1>17, <1>18, <1>19, <1>20, <1>21,
     <1>22, <1>23, <1>24, <1>25, <1>26, <1>27, <1>28, <1>29, <1>30, <1>31,
     <1>32, <1>33, <1>34, <1>35, <1>36, <1>37, <1>38, <1>39, <1>40, <1>41,
     <1>42, <1>43, <1>44, <1>45, <1>46, <1>47 DEF Next, MainStep,
     StreamStep, ClientRequest, ListenerStep, WorkerStep, StillThreads

-----------------------------------------------------------------------------
(* SafetyInv is inductive.                                                 *)

\* The members' initial values leave no session, no lease and no command.
LEMMA InitSafety == Init => SafetyInv
BY InitialTypes
   DEF Init, ControllerInit, NetInit, SafetyInv, CoordinatorInv,
       LeaseAccounted, ReleaseInv, PlaceInv, CoreInv, CancelInv, CommitInv,
       BorrowInv, PackageInv, PublishedOutcome, ContextInv, WakeInv,
       HeldStates, SessionStates, LiveStates, TransferPlaces, BodyPlaces,
       RestingPlaces

\* A reset restores them.
LEMMA RestartSafety == Restart => SafetyInv'
BY InitialTypes
   DEF Restart, ControllerReset, NetReset, SafetyInv, CoordinatorInv,
       LeaseAccounted, ReleaseInv, PlaceInv, CoreInv, CancelInv, CommitInv,
       BorrowInv, PackageInv, PublishedOutcome, ContextInv, WakeInv,
       HeldStates, SessionStates, LiveStates, TransferPlaces, BodyPlaces,
       RestingPlaces

\* No step of any thread, and no client, breaks a part of it.
LEMMA SafetyStep ==
  ASSUME Types, SafetyInv, [Next]_vars
  PROVE  SafetyInv'
<1>0. ValueTypes /\ RecordTypes
  BY DEF Types
<1> USE DEF vars, otaVars, ctlVars, phaseVars, cancelVars, uploadVars,
            sessionVars, queueVars, workerVars, coreVars, netVars, mainVars,
            streamVars, listenerVars, StillThreads,
            HeldStates, SessionStates, LiveStates, TransferPlaces, BodyPlaces,
            RestingPlaces, SafetyInv, CoordinatorInv, LeaseAccounted,
            ReleaseInv, PlaceInv, CoreInv, CancelInv, CommitInv, BorrowInv,
            PackageInv, PublishedOutcome, ContextInv, WakeInv
<1>1. CASE MainNetwork
  BY <1>1, <1>0 DEF MainNetwork, ValueTypes
<1>2. CASE MainUpdate
  <2>1. CoordinatorInv'
    BY <1>2, <1>0, ReleasedType DEF MainUpdate, UpdateCancels, UpdateGrants,
       UpdateIdle, UpdateMustCancel, Cancellation, CancellationAllowed,
       GrantOta, CanGrantOta, ValueTypes
  <2>2. LeaseAccounted'
    BY <1>2, <1>0, ReleasedType DEF MainUpdate, UpdateCancels, UpdateGrants,
       UpdateIdle, UpdateMustCancel, Cancellation, CancellationAllowed,
       GrantOta, CanGrantOta, ValueTypes
  <2>3. ReleaseInv'
    BY <1>2, <1>0, ReleasedType DEF MainUpdate, UpdateCancels, UpdateGrants,
       UpdateIdle, UpdateMustCancel, Cancellation, CancellationAllowed,
       GrantOta, CanGrantOta, ValueTypes
  <2>4. PlaceInv'
    BY <1>2, <1>0, ReleasedType DEF MainUpdate, UpdateCancels, UpdateGrants,
       UpdateIdle, UpdateMustCancel, Cancellation, CancellationAllowed,
       GrantOta, CanGrantOta, ValueTypes
  <2>5. CoreInv'
    BY <1>2, <1>0, ReleasedType DEF MainUpdate, UpdateCancels, UpdateGrants,
       UpdateIdle, UpdateMustCancel, Cancellation, CancellationAllowed,
       GrantOta, CanGrantOta, ValueTypes
  <2>6. CancelInv'
    BY <1>2, <1>0, ReleasedType DEF MainUpdate, UpdateCancels, UpdateGrants,
       UpdateIdle, UpdateMustCancel, Cancellation, CancellationAllowed,
       GrantOta, CanGrantOta, ValueTypes
  <2>7. CommitInv'
    BY <1>2, <1>0, ReleasedType DEF MainUpdate, UpdateCancels, UpdateGrants,
       UpdateIdle, UpdateMustCancel, Cancellation, CancellationAllowed,
       GrantOta, CanGrantOta, ValueTypes
  <2>8. BorrowInv'
    BY <1>2, <1>0, ReleasedType DEF MainUpdate, UpdateCancels, UpdateGrants,
       UpdateIdle, UpdateMustCancel, Cancellation, CancellationAllowed,
       GrantOta, CanGrantOta, ValueTypes
  <2>9. PackageInv'
    BY <1>2, <1>0, ReleasedType DEF MainUpdate, UpdateCancels, UpdateGrants,
       UpdateIdle, UpdateMustCancel, Cancellation, CancellationAllowed,
       GrantOta, CanGrantOta, ValueTypes
  <2>10. PublishedOutcome'
    BY <1>2, <1>0, ReleasedType DEF MainUpdate, UpdateCancels, UpdateGrants,
       UpdateIdle, UpdateMustCancel, Cancellation, CancellationAllowed,
       GrantOta, CanGrantOta, ValueTypes
  <2>11. ContextInv'
    BY <1>2, <1>0, ReleasedType DEF MainUpdate, UpdateCancels, UpdateGrants,
       UpdateIdle, UpdateMustCancel, Cancellation, CancellationAllowed,
       GrantOta, CanGrantOta, ValueTypes
  <2>12. WakeInv'
    BY <1>2, <1>0, ReleasedType DEF MainUpdate, UpdateCancels, UpdateGrants,
       UpdateIdle, UpdateMustCancel, Cancellation, CancellationAllowed,
       GrantOta, CanGrantOta, ValueTypes
  <2> QED
    BY <2>1, <2>2, <2>3, <2>4, <2>5, <2>6, <2>7, <2>8, <2>9, <2>10, <2>11,
       <2>12
<1>3. CASE MainReboot
  BY <1>3, <1>0 DEF MainReboot, ValueTypes
<1>4. CASE SystemReset
  BY <1>4, RestartSafety DEF SystemReset
<1>5. CASE MainCloudBegin
  BY <1>5, <1>0 DEF MainCloudBegin, BeginCloud, CanBeginCloud, ValueTypes
<1>6. CASE MainCloudSkip
  BY <1>6, <1>0 DEF MainCloudSkip, ValueTypes
<1>7. CASE MainCloudEnd
  BY <1>7, <1>0 DEF MainCloudEnd, EndCloud, ValueTypes
<1>8. CASE StreamPollCancels
  <2>1. CoordinatorInv'
    BY <1>8, <1>0, ReleasedType DEF StreamPollCancels, UploadPollCancels,
       Cancellation, CancellationAllowed, ValueTypes
  <2>2. LeaseAccounted'
    BY <1>8, <1>0, ReleasedType DEF StreamPollCancels, UploadPollCancels,
       Cancellation, CancellationAllowed, ValueTypes
  <2>3. ReleaseInv'
    BY <1>8, <1>0, ReleasedType DEF StreamPollCancels, UploadPollCancels,
       Cancellation, CancellationAllowed, ValueTypes
  <2>4. PlaceInv'
    BY <1>8, <1>0, ReleasedType DEF StreamPollCancels, UploadPollCancels,
       Cancellation, CancellationAllowed, ValueTypes
  <2>5. CoreInv'
    BY <1>8, <1>0, ReleasedType DEF StreamPollCancels, UploadPollCancels,
       Cancellation, CancellationAllowed, ValueTypes
  <2>6. CancelInv'
    BY <1>8, <1>0, ReleasedType DEF StreamPollCancels, UploadPollCancels,
       Cancellation, CancellationAllowed, ValueTypes
  <2>7. CommitInv'
    BY <1>8, <1>0, ReleasedType DEF StreamPollCancels, UploadPollCancels,
       Cancellation, CancellationAllowed, ValueTypes
  <2>8. BorrowInv'
    BY <1>8, <1>0, ReleasedType DEF StreamPollCancels, UploadPollCancels,
       Cancellation, CancellationAllowed, ValueTypes
  <2>9. PackageInv'
    BY <1>8, <1>0, ReleasedType DEF StreamPollCancels, UploadPollCancels,
       Cancellation, CancellationAllowed, ValueTypes
  <2>10. PublishedOutcome'
    BY <1>8, <1>0, ReleasedType DEF StreamPollCancels, UploadPollCancels,
       Cancellation, CancellationAllowed, ValueTypes
  <2>11. ContextInv'
    BY <1>8, <1>0, ReleasedType DEF StreamPollCancels, UploadPollCancels,
       Cancellation, CancellationAllowed, ValueTypes
  <2>12. WakeInv'
    BY <1>8, <1>0, ReleasedType DEF StreamPollCancels, UploadPollCancels,
       Cancellation, CancellationAllowed, ValueTypes
  <2> QED
    BY <2>1, <2>2, <2>3, <2>4, <2>5, <2>6, <2>7, <2>8, <2>9, <2>10, <2>11,
       <2>12
<1>9. CASE StreamUploadReturns
  BY <1>9, <1>0 DEF StreamUploadReturns, UploadReturned, ValueTypes
<1>10. CASE StreamNameImage
  BY <1>10, <1>0 DEF StreamNameImage, ReadyImage, ValueTypes
<1>11. CASE StreamReplied
  BY <1>11, <1>0 DEF StreamReplied, ValueTypes
<1>12. CASE StreamApplyQueued
  BY <1>12, <1>0 DEF StreamApplyQueued, ApplyQueued, QueueApply,
     ApplyAllowed, FreeContexts, ValueTypes
<1>13. CASE StreamApplyRefused
  BY <1>13, <1>0 DEF StreamApplyRefused, ValueTypes
<1>14. CASE StreamResponseAttempted
  <2>1. CoordinatorInv'
    BY <1>14, <1>0, ReleasedType DEF StreamResponseAttempted,
       ResponseAttempted, ValueTypes
  <2>2. LeaseAccounted'
    BY <1>14, <1>0, ReleasedType DEF StreamResponseAttempted,
       ResponseAttempted, ValueTypes
  <2>3. ReleaseInv'
    BY <1>14, <1>0, ReleasedType DEF StreamResponseAttempted,
       ResponseAttempted, ValueTypes
  <2>4. PlaceInv'
    BY <1>14, <1>0, ReleasedType DEF StreamResponseAttempted,
       ResponseAttempted, ValueTypes
  <2>5. CoreInv'
    BY <1>14, <1>0, ReleasedType DEF StreamResponseAttempted,
       ResponseAttempted, ValueTypes
  <2>6. CancelInv'
    BY <1>14, <1>0, ReleasedType DEF StreamResponseAttempted,
       ResponseAttempted, ValueTypes
  <2>7. CommitInv'
    BY <1>14, <1>0, ReleasedType DEF StreamResponseAttempted,
       ResponseAttempted, ValueTypes
  <2>8. BorrowInv'
    BY <1>14, <1>0, ReleasedType DEF StreamResponseAttempted,
       ResponseAttempted, ValueTypes
  <2>9. PackageInv'
    BY <1>14, <1>0, ReleasedType DEF StreamResponseAttempted,
       ResponseAttempted, ValueTypes
  <2>10. PublishedOutcome'
    BY <1>14, <1>0, ReleasedType DEF StreamResponseAttempted,
       ResponseAttempted, ValueTypes
  <2>11. ContextInv'
    <3>1. contexts' = [contexts EXCEPT ![contextHeld].active = FALSE]
      BY <1>14 DEF StreamResponseAttempted, ResponseAttempted
    <3>2. \A i \in 1 .. 2 : ~contexts'[i].active
      BY <1>14, <1>0, <3>1 DEF StreamResponseAttempted, RecordTypes
    <3> QED
      BY <1>14, <3>2 DEF StreamResponseAttempted, ResponseAttempted
  <2>12. WakeInv'
    BY <1>14, <1>0, ReleasedType DEF StreamResponseAttempted,
       ResponseAttempted, ValueTypes
  <2> QED
    BY <2>1, <2>2, <2>3, <2>4, <2>5, <2>6, <2>7, <2>8, <2>9, <2>10, <2>11,
       <2>12
<1>15. CASE StreamUpload
  BY <1>15, <1>0, NextGenerationType, ReleasedType DEF StreamUpload,
     UploadAccepted, UploadAllowed, ReserveOta, CanReserveOta, Requests,
     ValueTypes
<1>16. CASE StreamUploadRefused
  BY <1>16, <1>0, NextGenerationType DEF StreamUploadRefused,
     UploadNotReserved, UploadAllowed, CanReserveOta, Requests, ValueTypes
<1>17. CASE StreamApplyRequest
  BY <1>17, <1>0 DEF StreamApplyRequest, ReadyImage, ValueTypes
<1>18. CASE ClientDisconnects
  BY <1>18, <1>0 DEF ClientDisconnects, ValueTypes
<1>19. CASE ListenerCancel
  <2>1. CoordinatorInv'
    BY <1>19, <1>0, ReleasedType DEF ListenerCancel, CancelByClient,
       Cancellation, CancellationAllowed, ValueTypes
  <2>2. LeaseAccounted'
    BY <1>19, <1>0, ReleasedType DEF ListenerCancel, CancelByClient,
       Cancellation, CancellationAllowed, ValueTypes
  <2>3. ReleaseInv'
    BY <1>19, <1>0, ReleasedType DEF ListenerCancel, CancelByClient,
       Cancellation, CancellationAllowed, ValueTypes
  <2>4. PlaceInv'
    BY <1>19, <1>0, ReleasedType DEF ListenerCancel, CancelByClient,
       Cancellation, CancellationAllowed, ValueTypes
  <2>5. CoreInv'
    BY <1>19, <1>0, ReleasedType DEF ListenerCancel, CancelByClient,
       Cancellation, CancellationAllowed, ValueTypes
  <2>6. CancelInv'
    BY <1>19, <1>0, ReleasedType DEF ListenerCancel, CancelByClient,
       Cancellation, CancellationAllowed, ValueTypes
  <2>7. CommitInv'
    BY <1>19, <1>0, ReleasedType DEF ListenerCancel, CancelByClient,
       Cancellation, CancellationAllowed, ValueTypes
  <2>8. BorrowInv'
    BY <1>19, <1>0, ReleasedType DEF ListenerCancel, CancelByClient,
       Cancellation, CancellationAllowed, ValueTypes
  <2>9. PackageInv'
    BY <1>19, <1>0, ReleasedType DEF ListenerCancel, CancelByClient,
       Cancellation, CancellationAllowed, ValueTypes
  <2>10. PublishedOutcome'
    BY <1>19, <1>0, ReleasedType DEF ListenerCancel, CancelByClient,
       Cancellation, CancellationAllowed, ValueTypes
  <2>11. ContextInv'
    BY <1>19, <1>0, ReleasedType DEF ListenerCancel, CancelByClient,
       Cancellation, CancellationAllowed, ValueTypes
  <2>12. WakeInv'
    BY <1>19, <1>0, ReleasedType DEF ListenerCancel, CancelByClient,
       Cancellation, CancellationAllowed, ValueTypes
  <2> QED
    BY <2>1, <2>2, <2>3, <2>4, <2>5, <2>6, <2>7, <2>8, <2>9, <2>10, <2>11,
       <2>12
<1>20. CASE ListenerSnapshot
  BY <1>20, <1>0 DEF ListenerSnapshot, ValueTypes
<1>21. CASE ListenerReadyImage
  BY <1>21, <1>0 DEF ListenerReadyImage, ReadyImage, ValueTypes
<1>22. CASE ListenerReplied
  BY <1>22, <1>0 DEF ListenerReplied, NothingSeen, ValueTypes
<1>23. CASE WorkerWake /\ StillThreads
  <2>1. CoordinatorInv'
    BY <1>23, <1>0 DEF WorkerWake, ValueTypes
  <2>2. LeaseAccounted'
    BY <1>23, <1>0 DEF WorkerWake, ValueTypes
  <2>3. ReleaseInv'
    BY <1>23, <1>0 DEF WorkerWake, ValueTypes
  <2>4. PlaceInv'
    BY <1>23, <1>0 DEF WorkerWake, ValueTypes
  <2>5. CoreInv'
    BY <1>23, <1>0 DEF WorkerWake, ValueTypes
  <2>6. CancelInv'
    BY <1>23, <1>0 DEF WorkerWake, ValueTypes
  <2>7. CommitInv'
    BY <1>23, <1>0 DEF WorkerWake, ValueTypes
  <2>8. BorrowInv'
    BY <1>23, <1>0 DEF WorkerWake, ValueTypes
  <2>9. PackageInv'
    BY <1>23, <1>0 DEF WorkerWake, ValueTypes
  <2>10. PublishedOutcome'
    BY <1>23, <1>0 DEF WorkerWake, ValueTypes
  <2>11. ContextInv'
    BY <1>23, <1>0 DEF WorkerWake, ValueTypes
  <2>12. WakeInv'
    BY <1>23, <1>0 DEF WorkerWake, ValueTypes
  <2> QED
    BY <2>1, <2>2, <2>3, <2>4, <2>5, <2>6, <2>7, <2>8, <2>9, <2>10, <2>11,
       <2>12
<1>24. CASE WorkerUploadCheck /\ StillThreads
  BY <1>24, <1>0 DEF WorkerUploadCheck, ValueTypes
<1>25. CASE WorkerApplyCheck /\ StillThreads
  BY <1>25, <1>0 DEF WorkerApplyCheck, Goto, ValueTypes
<1>26. CASE WorkerCancelCheck /\ StillThreads
  <2>1. CoordinatorInv'
    BY <1>26, <1>0 DEF WorkerCancelCheck, ValueTypes
  <2>2. LeaseAccounted'
    BY <1>26, <1>0 DEF WorkerCancelCheck, ValueTypes
  <2>3. ReleaseInv'
    BY <1>26, <1>0 DEF WorkerCancelCheck, ValueTypes
  <2>4. PlaceInv'
    BY <1>26, <1>0 DEF WorkerCancelCheck, ValueTypes
  <2>5. CoreInv'
    BY <1>26, <1>0 DEF WorkerCancelCheck, ValueTypes
  <2>6. CancelInv'
    BY <1>26, <1>0 DEF WorkerCancelCheck, ValueTypes
  <2>7. CommitInv'
    BY <1>26, <1>0 DEF WorkerCancelCheck, ValueTypes
  <2>8. BorrowInv'
    BY <1>26, <1>0 DEF WorkerCancelCheck, ValueTypes
  <2>9. PackageInv'
    BY <1>26, <1>0 DEF WorkerCancelCheck, ValueTypes
  <2>10. PublishedOutcome'
    BY <1>26, <1>0 DEF WorkerCancelCheck, ValueTypes
  <2>11. ContextInv'
    BY <1>26, <1>0 DEF WorkerCancelCheck, ValueTypes
  <2>12. WakeInv'
    BY <1>26, <1>0 DEF WorkerCancelCheck, ValueTypes
  <2> QED
    BY <2>1, <2>2, <2>3, <2>4, <2>5, <2>6, <2>7, <2>8, <2>9, <2>10, <2>11,
       <2>12
<1>27. CASE CoreBegin /\ StillThreads
  <2>1. CoordinatorInv'
    BY <1>27, <1>0 DEF CoreBegin, CoreFailures, Goto, ValueTypes
  <2>2. LeaseAccounted'
    BY <1>27, <1>0 DEF CoreBegin, CoreFailures, Goto, ValueTypes
  <2>3. ReleaseInv'
    BY <1>27, <1>0 DEF CoreBegin, CoreFailures, Goto, ValueTypes
  <2>4. PlaceInv'
    BY <1>27, <1>0 DEF CoreBegin, CoreFailures, Goto, ValueTypes
  <2>5. CoreInv'
    BY <1>27, <1>0 DEF CoreBegin, CoreFailures, Goto, ValueTypes
  <2>6. CancelInv'
    BY <1>27, <1>0 DEF CoreBegin, CoreFailures, Goto, ValueTypes
  <2>7. CommitInv'
    BY <1>27, <1>0 DEF CoreBegin, CoreFailures, Goto, ValueTypes
  <2>8. BorrowInv'
    BY <1>27, <1>0 DEF CoreBegin, CoreFailures, Goto, ValueTypes
  <2>9. PackageInv'
    BY <1>27, <1>0 DEF CoreBegin, CoreFailures, Goto, ValueTypes
  <2>10. PublishedOutcome'
    BY <1>27, <1>0 DEF CoreBegin, CoreFailures, Goto, ValueTypes
  <2>11. ContextInv'
    BY <1>27, <1>0 DEF CoreBegin, CoreFailures, Goto, ValueTypes
  <2>12. WakeInv'
    BY <1>27, <1>0 DEF CoreBegin, CoreFailures, Goto, ValueTypes
  <2> QED
    BY <2>1, <2>2, <2>3, <2>4, <2>5, <2>6, <2>7, <2>8, <2>9, <2>10, <2>11,
       <2>12
<1>28. CASE BodyData(BodyCurrent) /\ StillThreads
  BY <1>28, <1>0 DEF BodyData, Goto, ValueTypes, RecordTypes, Bodies
<1>29. CASE BodyEmpty(BodyCurrent) /\ StillThreads
  BY <1>29, <1>0 DEF BodyEmpty, Goto, ValueTypes
<1>30. CASE BodyEnded(BodyCurrent) /\ StillThreads
  <2>1. CoordinatorInv'
    BY <1>30, <1>0 DEF BodyEnded, Goto, ValueTypes
  <2>2. LeaseAccounted'
    BY <1>30, <1>0 DEF BodyEnded, Goto, ValueTypes
  <2>3. ReleaseInv'
    BY <1>30, <1>0 DEF BodyEnded, Goto, ValueTypes
  <2>4. PlaceInv'
    BY <1>30, <1>0 DEF BodyEnded, Goto, ValueTypes
  <2>5. CoreInv'
    BY <1>30, <1>0 DEF BodyEnded, Goto, ValueTypes
  <2>6. CancelInv'
    BY <1>30, <1>0 DEF BodyEnded, Goto, ValueTypes
  <2>7. CommitInv'
    BY <1>30, <1>0 DEF BodyEnded, Goto, ValueTypes
  <2>8. BorrowInv'
    BY <1>30, <1>0 DEF BodyEnded, Goto, ValueTypes
  <2>9. PackageInv'
    <3>1. wpc' \in {"ABORT", "LAST_CHECK"}
          /\ (wpc' = "ABORT" => wresult' # "OK")
      BY <1>30 DEF BodyEnded, Goto
    <3>2. wpc' = "LAST_CHECK" => acceptedBytes' = packageSize'
      <4>1. body.left \in Nat
        BY <1>0, MaxChunksAssumption DEF RecordTypes, Bodies
      <4> QED
        BY <1>30, <1>0, <4>1 DEF BodyEnded, Goto, ValueTypes
    <3> QED
      BY <1>30, <3>1, <3>2 DEF BodyEnded, Goto
  <2>10. PublishedOutcome'
    BY <1>30, <1>0 DEF BodyEnded, Goto, ValueTypes
  <2>11. ContextInv'
    BY <1>30, <1>0 DEF BodyEnded, Goto, ValueTypes
  <2>12. WakeInv'
    BY <1>30, <1>0 DEF BodyEnded, Goto, ValueTypes
  <2> QED
    BY <2>1, <2>2, <2>3, <2>4, <2>5, <2>6, <2>7, <2>8, <2>9, <2>10, <2>11,
       <2>12
<1>31. CASE WorkerEmptyCheck /\ StillThreads
  <2>1. CoordinatorInv'
    BY <1>31, <1>0 DEF WorkerEmptyCheck, CancelPoint, Cancelled, Goto,
       ValueTypes
  <2>2. LeaseAccounted'
    BY <1>31, <1>0 DEF WorkerEmptyCheck, CancelPoint, Cancelled, Goto,
       ValueTypes
  <2>3. ReleaseInv'
    BY <1>31, <1>0 DEF WorkerEmptyCheck, CancelPoint, Cancelled, Goto,
       ValueTypes
  <2>4. PlaceInv'
    BY <1>31, <1>0 DEF WorkerEmptyCheck, CancelPoint, Cancelled, Goto,
       ValueTypes
  <2>5. CoreInv'
    BY <1>31, <1>0 DEF WorkerEmptyCheck, CancelPoint, Cancelled, Goto,
       ValueTypes
  <2>6. CancelInv'
    BY <1>31, <1>0 DEF WorkerEmptyCheck, CancelPoint, Cancelled, Goto,
       ValueTypes
  <2>7. CommitInv'
    BY <1>31, <1>0 DEF WorkerEmptyCheck, CancelPoint, Cancelled, Goto,
       ValueTypes
  <2>8. BorrowInv'
    BY <1>31, <1>0 DEF WorkerEmptyCheck, CancelPoint, Cancelled, Goto,
       ValueTypes
  <2>9. PackageInv'
    BY <1>31, <1>0 DEF WorkerEmptyCheck, CancelPoint, Cancelled, Goto,
       ValueTypes
  <2>10. PublishedOutcome'
    BY <1>31, <1>0 DEF WorkerEmptyCheck, CancelPoint, Cancelled, Goto,
       ValueTypes
  <2>11. ContextInv'
    BY <1>31, <1>0 DEF WorkerEmptyCheck, CancelPoint, Cancelled, Goto,
       ValueTypes
  <2>12. WakeInv'
    BY <1>31, <1>0 DEF WorkerEmptyCheck, CancelPoint, Cancelled, Goto,
       ValueTypes
  <2> QED
    BY <2>1, <2>2, <2>3, <2>4, <2>5, <2>6, <2>7, <2>8, <2>9, <2>10, <2>11,
       <2>12
<1>32. CASE WorkerDataCheck /\ StillThreads
  <2>1. CoordinatorInv'
    BY <1>32, <1>0 DEF WorkerDataCheck, CancelPoint, Cancelled, Goto,
       ValueTypes
  <2>2. LeaseAccounted'
    BY <1>32, <1>0 DEF WorkerDataCheck, CancelPoint, Cancelled, Goto,
       ValueTypes
  <2>3. ReleaseInv'
    BY <1>32, <1>0 DEF WorkerDataCheck, CancelPoint, Cancelled, Goto,
       ValueTypes
  <2>4. PlaceInv'
    BY <1>32, <1>0 DEF WorkerDataCheck, CancelPoint, Cancelled, Goto,
       ValueTypes
  <2>5. CoreInv'
    BY <1>32, <1>0 DEF WorkerDataCheck, CancelPoint, Cancelled, Goto,
       ValueTypes
  <2>6. CancelInv'
    BY <1>32, <1>0 DEF WorkerDataCheck, CancelPoint, Cancelled, Goto,
       ValueTypes
  <2>7. CommitInv'
    BY <1>32, <1>0 DEF WorkerDataCheck, CancelPoint, Cancelled, Goto,
       ValueTypes
  <2>8. BorrowInv'
    BY <1>32, <1>0 DEF WorkerDataCheck, CancelPoint, Cancelled, Goto,
       ValueTypes
  <2>9. PackageInv'
    BY <1>32, <1>0 DEF WorkerDataCheck, CancelPoint, Cancelled, Goto,
       ValueTypes
  <2>10. PublishedOutcome'
    BY <1>32, <1>0 DEF WorkerDataCheck, CancelPoint, Cancelled, Goto,
       ValueTypes
  <2>11. ContextInv'
    BY <1>32, <1>0 DEF WorkerDataCheck, CancelPoint, Cancelled, Goto,
       ValueTypes
  <2>12. WakeInv'
    BY <1>32, <1>0 DEF WorkerDataCheck, CancelPoint, Cancelled, Goto,
       ValueTypes
  <2> QED
    BY <2>1, <2>2, <2>3, <2>4, <2>5, <2>6, <2>7, <2>8, <2>9, <2>10, <2>11,
       <2>12
<1>33. CASE CoreWrite /\ StillThreads
  <2>1. CoordinatorInv'
    BY <1>33, <1>0 DEF CoreWrite, CoreFailures, Goto, ValueTypes
  <2>2. LeaseAccounted'
    BY <1>33, <1>0 DEF CoreWrite, CoreFailures, Goto, ValueTypes
  <2>3. ReleaseInv'
    BY <1>33, <1>0 DEF CoreWrite, CoreFailures, Goto, ValueTypes
  <2>4. PlaceInv'
    BY <1>33, <1>0 DEF CoreWrite, CoreFailures, Goto, ValueTypes
  <2>5. CoreInv'
    BY <1>33, <1>0 DEF CoreWrite, CoreFailures, Goto, ValueTypes
  <2>6. CancelInv'
    BY <1>33, <1>0 DEF CoreWrite, CoreFailures, Goto, ValueTypes
  <2>7. CommitInv'
    BY <1>33, <1>0 DEF CoreWrite, CoreFailures, Goto, ValueTypes
  <2>8. BorrowInv'
    BY <1>33, <1>0 DEF CoreWrite, CoreFailures, Goto, ValueTypes
  <2>9. PackageInv'
    <3>1. wpc' \in {"ABORT", "READ"} /\ (wpc' = "ABORT" => wresult' # "OK")
      BY <1>33 DEF CoreWrite, CoreFailures, Goto
    <3>2. wpc' = "READ" => acceptedBytes' + body'.left = packageSize'
      <4>1. body.left \in Nat
        BY <1>0, MaxChunksAssumption DEF RecordTypes, Bodies
      <4> QED
        BY <1>33, <1>0, <4>1 DEF CoreWrite, CoreFailures, Goto, ValueTypes
    <3> QED
      BY <1>33, <3>1, <3>2 DEF CoreWrite, Goto
  <2>10. PublishedOutcome'
    BY <1>33, <1>0 DEF CoreWrite, CoreFailures, Goto, ValueTypes
  <2>11. ContextInv'
    BY <1>33, <1>0 DEF CoreWrite, CoreFailures, Goto, ValueTypes
  <2>12. WakeInv'
    BY <1>33, <1>0 DEF CoreWrite, CoreFailures, Goto, ValueTypes
  <2> QED
    BY <2>1, <2>2, <2>3, <2>4, <2>5, <2>6, <2>7, <2>8, <2>9, <2>10, <2>11,
       <2>12
<1>34. CASE WorkerLastCheck /\ StillThreads
  <2>1. CoordinatorInv'
    BY <1>34, <1>0 DEF WorkerLastCheck, CancelPoint, Cancelled, Goto,
       ValueTypes
  <2>2. LeaseAccounted'
    BY <1>34, <1>0 DEF WorkerLastCheck, CancelPoint, Cancelled, Goto,
       ValueTypes
  <2>3. ReleaseInv'
    BY <1>34, <1>0 DEF WorkerLastCheck, CancelPoint, Cancelled, Goto,
       ValueTypes
  <2>4. PlaceInv'
    BY <1>34, <1>0 DEF WorkerLastCheck, CancelPoint, Cancelled, Goto,
       ValueTypes
  <2>5. CoreInv'
    BY <1>34, <1>0 DEF WorkerLastCheck, CancelPoint, Cancelled, Goto,
       ValueTypes
  <2>6. CancelInv'
    BY <1>34, <1>0 DEF WorkerLastCheck, CancelPoint, Cancelled, Goto,
       ValueTypes
  <2>7. CommitInv'
    BY <1>34, <1>0 DEF WorkerLastCheck, CancelPoint, Cancelled, Goto,
       ValueTypes
  <2>8. BorrowInv'
    BY <1>34, <1>0 DEF WorkerLastCheck, CancelPoint, Cancelled, Goto,
       ValueTypes
  <2>9. PackageInv'
    BY <1>34, <1>0 DEF WorkerLastCheck, CancelPoint, Cancelled, Goto,
       ValueTypes
  <2>10. PublishedOutcome'
    BY <1>34, <1>0 DEF WorkerLastCheck, CancelPoint, Cancelled, Goto,
       ValueTypes
  <2>11. ContextInv'
    BY <1>34, <1>0 DEF WorkerLastCheck, CancelPoint, Cancelled, Goto,
       ValueTypes
  <2>12. WakeInv'
    BY <1>34, <1>0 DEF WorkerLastCheck, CancelPoint, Cancelled, Goto,
       ValueTypes
  <2> QED
    BY <2>1, <2>2, <2>3, <2>4, <2>5, <2>6, <2>7, <2>8, <2>9, <2>10, <2>11,
       <2>12
<1>35. CASE WorkerVerify /\ StillThreads
  BY <1>35, <1>0 DEF WorkerVerify, Goto, ValueTypes
<1>36. CASE CoreFinish /\ StillThreads
  <2>1. CoordinatorInv'
    BY <1>36, <1>0 DEF CoreFinish, CoreFailures, Goto, ValueTypes
  <2>2. LeaseAccounted'
    BY <1>36, <1>0 DEF CoreFinish, CoreFailures, Goto, ValueTypes
  <2>3. ReleaseInv'
    BY <1>36, <1>0 DEF CoreFinish, CoreFailures, Goto, ValueTypes
  <2>4. PlaceInv'
    BY <1>36, <1>0 DEF CoreFinish, CoreFailures, Goto, ValueTypes
  <2>5. CoreInv'
    BY <1>36, <1>0 DEF CoreFinish, CoreFailures, Goto, ValueTypes
  <2>6. CancelInv'
    BY <1>36, <1>0 DEF CoreFinish, CoreFailures, Goto, ValueTypes
  <2>7. CommitInv'
    BY <1>36, <1>0 DEF CoreFinish, CoreFailures, Goto, ValueTypes
  <2>8. BorrowInv'
    BY <1>36, <1>0 DEF CoreFinish, CoreFailures, Goto, ValueTypes
  <2>9. PackageInv'
    <3>1. wpc' \in {"ABORT", "PUBLISH"}
          /\ (wpc' = "ABORT" => wresult' # "OK")
      BY <1>36 DEF CoreFinish, CoreFailures, Goto
    <3>2. wpc' = "PUBLISH" =>
            corePhase' = "STAGED" /\ coreImage'.digest \in Digests
      <4>1. body.digest \in Digests
        BY <1>36 DEF CoreFinish
      <4> QED
        BY <1>36, <1>0, <4>1 DEF CoreFinish, CoreFailures, Goto, RecordTypes,
           Images
    <3> QED
      BY <1>36, <3>1, <3>2 DEF CoreFinish, Goto
  <2>10. PublishedOutcome'
    BY <1>36, <1>0 DEF CoreFinish, CoreFailures, Goto, ValueTypes
  <2>11. ContextInv'
    BY <1>36, <1>0 DEF CoreFinish, CoreFailures, Goto, ValueTypes
  <2>12. WakeInv'
    BY <1>36, <1>0 DEF CoreFinish, CoreFailures, Goto, ValueTypes
  <2> QED
    BY <2>1, <2>2, <2>3, <2>4, <2>5, <2>6, <2>7, <2>8, <2>9, <2>10, <2>11,
       <2>12
<1>37. CASE WorkerPublish /\ StillThreads
  <2>1. CoordinatorInv'
    BY <1>37, <1>0 DEF WorkerPublish, ValueTypes
  <2>2. LeaseAccounted'
    BY <1>37, <1>0 DEF WorkerPublish, ValueTypes
  <2>3. ReleaseInv'
    BY <1>37, <1>0 DEF WorkerPublish, ValueTypes
  <2>4. PlaceInv'
    BY <1>37, <1>0 DEF WorkerPublish, ValueTypes
  <2>5. CoreInv'
    BY <1>37, <1>0 DEF WorkerPublish, ValueTypes
  <2>6. CancelInv'
    BY <1>37, <1>0 DEF WorkerPublish, ValueTypes
  <2>7. CommitInv'
    BY <1>37, <1>0 DEF WorkerPublish, ValueTypes
  <2>8. BorrowInv'
    <3>1. CASE wpc' = "WAIT"
      BY <1>37, <3>1 DEF WorkerPublish
    <3>2. CASE wpc' = "ABORT"
      BY <1>37, <3>2 DEF WorkerPublish
    <3> QED
      BY <1>37, <3>1, <3>2 DEF WorkerPublish
  <2>9. PackageInv'
    BY <1>37, <1>0 DEF WorkerPublish, ValueTypes
  <2>10. PublishedOutcome'
    BY <1>37, <1>0 DEF WorkerPublish, ValueTypes
  <2>11. ContextInv'
    BY <1>37, <1>0 DEF WorkerPublish, ValueTypes
  <2>12. WakeInv'
    BY <1>37, <1>0 DEF WorkerPublish, ValueTypes
  <2> QED
    BY <2>1, <2>2, <2>3, <2>4, <2>5, <2>6, <2>7, <2>8, <2>9, <2>10, <2>11,
       <2>12
<1>38. CASE CoreAbort /\ StillThreads
  BY <1>38, <1>0 DEF CoreAbort, Goto, ValueTypes
<1>39. CASE WorkerFail /\ StillThreads
  BY <1>39, <1>0 DEF WorkerFail, ValueTypes
<1>40. CASE WorkerRelease /\ StillThreads
  BY <1>40, <1>0 DEF WorkerRelease, ReleaseOta, HoldsReservation, ValueTypes
<1>41. CASE WorkerComplete /\ StillThreads
  BY <1>41, <1>0 DEF WorkerComplete, ValueTypes
<1>42. CASE WorkerClearApply /\ StillThreads
  BY <1>42, <1>0 DEF WorkerClearApply, ValueTypes
<1>43. CASE WorkerValidate /\ StillThreads
  BY <1>43, <1>0 DEF WorkerValidate, QueuedApplyValid, ValueTypes
<1>44. CASE CoreActivate /\ StillThreads
  BY <1>44, <1>0 DEF CoreActivate, Goto, ValueTypes
<1>45. CASE WorkerRecord /\ StillThreads
  BY <1>45, <1>0 DEF WorkerRecord, ValueTypes
<1>46. CASE PowerLoss
  BY <1>46, RestartSafety DEF PowerLoss
<1>47. CASE UNCHANGED vars
  BY <1>47
<1> QED
  BY <1>1, <1>2, <1>3, <1>4, <1>5, <1>6, <1>7, <1>8, <1>9, <1>10, <1>11,
     <1>12, <1>13, <1>14, <1>15, <1>16, <1>17, <1>18, <1>19, <1>20, <1>21,
     <1>22, <1>23, <1>24, <1>25, <1>26, <1>27, <1>28, <1>29, <1>30, <1>31,
     <1>32, <1>33, <1>34, <1>35, <1>36, <1>37, <1>38, <1>39, <1>40, <1>41,
     <1>42, <1>43, <1>44, <1>45, <1>46, <1>47 DEF Next, MainStep,
     StreamStep, ClientRequest, ListenerStep, WorkerStep, StillThreads

\* The conjunction is inductive: SafetyInv needs the types for the arithmetic
\* of the package and of the tokens.
THEOREM Safe == Spec => [](Types /\ SafetyInv)
<1>1. Init => Types /\ SafetyInv
  BY InitTypes, InitSafety
<1>2. Types /\ SafetyInv /\ [Next]_vars => (Types /\ SafetyInv)'
  BY FlagTypesStep, ValueTypesStep, RecordTypesStep, SafetyStep DEF Types
<1> QED
  BY <1>1, <1>2, PTL DEF Spec

-----------------------------------------------------------------------------
(* The properties of OtaDevice.                                            *)

\* Type correctness: whatever the threads, the client, the network and the
\* power do, every member keeps its type, and 0 stays the generation of no
\* session: a live session holds the reservation, which is never that of 0, and
\* the counter leaves 0 for good with the first upload.
THEOREM TypeCorrect == Spec => []TypeOK
<1>1. Types => VariablesTyped
  BY TypesAreVariablesTyped
<1>2. SafetyInv => ZeroIsNoSession
  BY DEF SafetyInv, LeaseAccounted, CoordinatorInv, PackageInv,
     ZeroIsNoSession
<1>3. Types /\ SafetyInv => TypeOK
  BY <1>1, <1>2 DEF TypeOK
<1> QED
  BY <1>3, Safe, PTL

\* The Core works only under a granted lease of the current generation,
\* never beside a cloud upload.
THEOREM CoreIsUnderLease == Spec => []CoreUnderLease
<1>1. Types /\ SafetyInv => CoreUnderLease
  BY DEF SafetyInv, CoreInv, CoordinatorInv, LeaseAccounted, HeldStates,
     SessionStates, CoreUnderLease
<1> QED
  BY <1>1, Safe, PTL

\* The lease is always owned by a live session, by FATAL or by a worker
\* about to release exactly it.
THEOREM LeaseIsAccounted == Spec => []LeaseAccounted
<1>1. Types /\ SafetyInv => LeaseAccounted
  BY DEF SafetyInv
<1> QED
  BY <1>1, Safe, PTL

\* An accepted cancellation beats the queued apply: the image of that session
\* never reaches the boot table.
THEOREM CancellationsWin == Spec => []CancellationWins
<1>1. Types /\ SafetyInv => CancellationWins
  BY DEF SafetyInv, CommitInv, PlaceInv, CancellationWins, Types, ValueTypes
<1> QED
  BY <1>1, Safe, PTL

\* The Core activates the image that was published, after the response.
THEOREM ActivationIsAcknowledged == Spec => []ActivatesAcknowledgedImage
<1>1. Types /\ SafetyInv => ActivatesAcknowledgedImage
  BY DEF SafetyInv, PlaceInv, PackageInv, ContextInv,
     ActivatesAcknowledgedImage
<1> QED
  BY <1>1, Safe, PTL

\* The worker never touches a request body whose upload() may have returned.
THEOREM BorrowedBodyIsAlive == Spec => []BorrowedBodyAlive
<1>1. Types /\ SafetyInv => BorrowedBodyAlive
  BY DEF SafetyInv, PlaceInv, BorrowInv, BorrowedBodyAlive
<1> QED
  BY <1>1, Safe, PTL

\* Ready means a whole, error-free package in the Core; Error has a cause.
THEOREM OutcomeIsPublished == Spec => []PublishedOutcome
<1>1. Types /\ SafetyInv => PublishedOutcome
  BY DEF SafetyInv
<1> QED
  BY <1>1, Safe, PTL

\* After a committed activation no session touches the pending update.
THEOREM CommitIsHeld == Spec => []CommitHolds
<1>1. Types /\ SafetyInv => CommitHolds
  BY DEF SafetyInv, CommitInv, CoreInv, LeaseAccounted, HeldStates,
     SessionStates, CommitHolds
<1> QED
  BY <1>1, Safe, PTL

\* The worker never sleeps over a command that is its to run.
THEOREM NoWakeupIsLost == Spec => []NoLostWakeup
<1>1. Types /\ SafetyInv => NoLostWakeup
  BY DEF SafetyInv, WakeInv, PlaceInv, RestingPlaces, NoLostWakeup, Types,
     ValueTypes
<1> QED
  BY <1>1, Safe, PTL

\* Nothing but the activation of a claimed, uncancelled image under the lease
\* writes a boot entry.
THEOREM OnlyApplyMakesPending == Spec => NoPendingUpdateWithoutApply
<1> DEFINE A == bootTable' = "PENDING" /\ bootTable = "NONE" =>
                  state = "APPLYING" /\ ~cancelAccepted /\ otaLeased
<1>1. Types /\ SafetyInv /\ [Next]_vars => [A]_vars
  <2> SUFFICES ASSUME SafetyInv, Next, bootTable' = "PENDING",
                      bootTable = "NONE"
               PROVE  state = "APPLYING" /\ ~cancelAccepted /\ otaLeased
    OBVIOUS
  <2>1. ~Restart
    BY DEF Restart, ControllerReset
  <2>2. CoreActivate
    <3> USE <2>1 DEF coreVars, otaVars, ctlVars
    <3> QED
      BY DEF Next, MainStep, StreamStep, ClientRequest, ListenerStep,
         WorkerStep, MainNetwork, MainUpdate, MainReboot, SystemReset,
         MainCloudBegin, MainCloudSkip, MainCloudEnd, StreamPollCancels,
         StreamUploadReturns, StreamNameImage, StreamReplied,
         StreamApplyQueued, StreamApplyRefused, StreamResponseAttempted,
         StreamUpload, StreamUploadRefused, StreamApplyRequest,
         ClientDisconnects, ListenerCancel, ListenerSnapshot,
         ListenerReadyImage, ListenerReplied, WorkerWake, WorkerUploadCheck,
         WorkerApplyCheck, WorkerCancelCheck, CoreBegin, BodyData,
         BodyEmpty, BodyEnded, WorkerEmptyCheck, WorkerDataCheck, CoreWrite,
         WorkerLastCheck, WorkerVerify, CoreFinish, WorkerPublish,
         CoreAbort, WorkerFail, WorkerRelease, WorkerComplete,
         WorkerClearApply, WorkerValidate, WorkerRecord, UpdateCancels,
         UpdateGrants, UpdateIdle, Cancellation, UploadPollCancels,
         UploadReturned, ApplyQueued, ResponseAttempted, UploadAccepted,
         UploadNotReserved, CancelByClient, BeginCloud, EndCloud,
         CancelPoint, PowerLoss
  <2> QED
    BY <2>2 DEF CoreActivate, SafetyInv, PlaceInv, CommitInv, CoordinatorInv,
                HeldStates, SessionStates
<1> QED
  BY <1>1, Safe, PTL DEF Spec, NoPendingUpdateWithoutApply

\* FATAL is final until a reset: the worker has nothing to run in it, and
\* every entry point refuses it.
THEOREM FatalStays == Spec => FatalIsFinal
<1> DEFINE A == state = "FATAL" /\ generation' # 0 =>
                  state' = "FATAL" /\ otaReserved' /\ generation' = generation
<1>1. Types /\ SafetyInv /\ [Next]_vars => [A]_vars
  <2> SUFFICES ASSUME SafetyInv, Next, state = "FATAL", generation' # 0
               PROVE  /\ state' = "FATAL"
                      /\ otaReserved'
                      /\ generation' = generation
    OBVIOUS
  <2>1. /\ wpc = "WAIT"
        /\ command = "NONE"
        /\ otaReserved
        /\ ~uploadBody
        /\ spc = "UPLOAD" => uploadCompleted
    BY DEF SafetyInv, PlaceInv, LeaseAccounted, BorrowInv, CommitInv,
           HeldStates
  <2>2. ~Restart
    BY DEF Restart, ControllerReset
  <2> USE <2>1, <2>2 DEF otaVars, ctlVars, phaseVars, sessionVars, netVars,
                         workerVars
  <2>3. CASE MainStep
    BY <2>3
    DEF MainStep, MainNetwork, MainUpdate, UpdateCancels, UpdateGrants,
        UpdateIdle, Cancellation, CancellationAllowed, MainReboot,
        SystemReset, MainCloudBegin, BeginCloud, MainCloudSkip, MainCloudEnd,
        EndCloud
  <2>4. CASE StreamStep
    BY <2>4
    DEF StreamStep, StreamPollCancels, UploadPollCancels, Cancellation,
        CancellationAllowed, StreamUploadReturns, UploadReturned,
        StreamNameImage, StreamReplied, StreamApplyQueued, ApplyQueued,
        StreamApplyRefused, StreamResponseAttempted, ResponseAttempted
  <2>5. CASE ClientRequest
    BY <2>5
    DEF ClientRequest, StreamUpload, UploadAccepted, UploadAllowed,
        StreamUploadRefused, UploadNotReserved, StreamApplyRequest,
        ClientDisconnects, ListenerCancel, CancelByClient, ListenerSnapshot
  <2>6. CASE ListenerStep
    BY <2>6 DEF ListenerStep, ListenerReadyImage, ListenerReplied
  <2>7. CASE WorkerStep
    <3>1. WorkerWake
      BY <2>7
      DEF WorkerStep, WorkerUploadCheck, WorkerApplyCheck, WorkerCancelCheck,
          CoreBegin, BodyData, BodyEmpty, BodyEnded, CancelPoint,
          WorkerEmptyCheck, WorkerDataCheck, WorkerLastCheck, CoreWrite,
          WorkerVerify, CoreFinish, WorkerPublish, CoreAbort, WorkerFail,
          WorkerRelease, WorkerComplete, WorkerClearApply, WorkerValidate,
          CoreActivate, WorkerRecord
    <3> QED
      BY <3>1 DEF WorkerWake
  <2> QED
    BY <2>3, <2>4, <2>5, <2>6, <2>7 DEF Next, PowerLoss
<1> QED
  BY <1>1, Safe, PTL DEF Spec, FatalIsFinal

-----------------------------------------------------------------------------
(* The device implements the session protocol.                             *)

\* The controller starts with no session.
LEMMA InitRefines == Init => Session!Init
BY DEF Init, ControllerInit, NetInit, Session!Init, SessionPhase,
       SessionCancelled

\* A reset of the board is a reset of the protocol.
LEMMA RestartRefines == Restart => Session!Reset
BY DEF Restart, ControllerReset, NetReset, Session!Reset, SessionPhase,
       SessionCancelled

\* Every critical section of the device is one step of the protocol, or none.
LEMMA StepRefines ==
  ASSUME Types, SafetyInv, [Next]_vars
  PROVE  [Session!Next]_(Session!sessionPhaseVars)
<1>0. ValueTypes
  BY DEF Types
<1> USE DEF vars, otaVars, ctlVars, phaseVars, cancelVars, uploadVars,
            sessionVars, queueVars, workerVars, coreVars, netVars, mainVars,
            streamVars, listenerVars, StillThreads,
            HeldStates, SessionStates, LiveStates, TransferPlaces, BodyPlaces,
            RestingPlaces, SafetyInv, CoordinatorInv, LeaseAccounted,
            ReleaseInv, PlaceInv, CoreInv, CancelInv, CommitInv, BorrowInv,
            WakeInv, SessionPhase, SessionCancelled,
            Session!sessionPhaseVars, Session!Live
<1>1. CASE MainNetwork
  BY <1>1, <1>0 DEF MainNetwork, ValueTypes
<1>2. CASE MainUpdate
  BY <1>2, <1>0 DEF MainUpdate, UpdateCancels, UpdateGrants, UpdateIdle,
     UpdateMustCancel, Cancellation, CancellationAllowed, GrantOta,
     CanGrantOta, Session!Next, Session!Grant, Session!Cancel, ValueTypes
<1>3. CASE MainReboot
  BY <1>3, <1>0 DEF MainReboot, ValueTypes
<1>4. CASE SystemReset
  BY <1>4, RestartRefines DEF SystemReset, Session!Next
<1>5. CASE MainCloudBegin
  BY <1>5, <1>0 DEF MainCloudBegin, BeginCloud, CanBeginCloud, Session!Next,
     Session!CloudBegin, ValueTypes
<1>6. CASE MainCloudSkip
  BY <1>6, <1>0 DEF MainCloudSkip, ValueTypes
<1>7. CASE MainCloudEnd
  BY <1>7, <1>0 DEF MainCloudEnd, EndCloud, Session!Next, Session!CloudEnd,
     ValueTypes
<1>8. CASE StreamPollCancels
  BY <1>8, <1>0 DEF StreamPollCancels, UploadPollCancels, Cancellation,
     CancellationAllowed, Session!Next, Session!Cancel, ValueTypes
<1>9. CASE StreamUploadReturns
  BY <1>9, <1>0 DEF StreamUploadReturns, UploadReturned, ValueTypes
<1>10. CASE StreamNameImage
  BY <1>10, <1>0 DEF StreamNameImage, ReadyImage, ValueTypes
<1>11. CASE StreamReplied
  BY <1>11, <1>0 DEF StreamReplied, ValueTypes
<1>12. CASE StreamApplyQueued
  BY <1>12, <1>0 DEF StreamApplyQueued, ApplyQueued, QueueApply,
     ApplyAllowed, FreeContexts, ValueTypes
<1>13. CASE StreamApplyRefused
  BY <1>13, <1>0 DEF StreamApplyRefused, ValueTypes
<1>14. CASE StreamResponseAttempted
  BY <1>14, <1>0 DEF StreamResponseAttempted, ResponseAttempted, ValueTypes
<1>15. CASE StreamUpload
  BY <1>15, <1>0 DEF StreamUpload, UploadAccepted, UploadAllowed,
     ReserveOta, CanReserveOta, Requests, Session!Next, Session!Reserve,
     ValueTypes
<1>16. CASE StreamUploadRefused
  BY <1>16, <1>0 DEF StreamUploadRefused, UploadNotReserved, UploadAllowed,
     CanReserveOta, Requests, ValueTypes
<1>17. CASE StreamApplyRequest
  BY <1>17, <1>0 DEF StreamApplyRequest, ReadyImage, ValueTypes
<1>18. CASE ClientDisconnects
  BY <1>18, <1>0 DEF ClientDisconnects, ValueTypes
<1>19. CASE ListenerCancel
  BY <1>19, <1>0 DEF ListenerCancel, CancelByClient, Cancellation,
     CancellationAllowed, Session!Next, Session!Cancel, ValueTypes
<1>20. CASE ListenerSnapshot
  BY <1>20, <1>0 DEF ListenerSnapshot, ValueTypes
<1>21. CASE ListenerReadyImage
  BY <1>21, <1>0 DEF ListenerReadyImage, ReadyImage, ValueTypes
<1>22. CASE ListenerReplied
  BY <1>22, <1>0 DEF ListenerReplied, NothingSeen, ValueTypes
<1>23. CASE WorkerWake /\ StillThreads
  BY <1>23, <1>0 DEF WorkerWake, ValueTypes
<1>24. CASE WorkerUploadCheck /\ StillThreads
  BY <1>24, <1>0 DEF WorkerUploadCheck, ValueTypes
<1>25. CASE WorkerApplyCheck /\ StillThreads
  BY <1>25, <1>0 DEF WorkerApplyCheck, Goto, ValueTypes
<1>26. CASE WorkerCancelCheck /\ StillThreads
  BY <1>26, <1>0 DEF WorkerCancelCheck, ValueTypes
<1>27. CASE CoreBegin /\ StillThreads
  BY <1>27, <1>0 DEF CoreBegin, CoreFailures, Goto, ValueTypes
<1>28. CASE BodyData(BodyCurrent) /\ StillThreads
  BY <1>28, <1>0 DEF BodyData, Goto, ValueTypes
<1>29. CASE BodyEmpty(BodyCurrent) /\ StillThreads
  BY <1>29, <1>0 DEF BodyEmpty, Goto, ValueTypes
<1>30. CASE BodyEnded(BodyCurrent) /\ StillThreads
  BY <1>30, <1>0 DEF BodyEnded, Goto, ValueTypes
<1>31. CASE WorkerEmptyCheck /\ StillThreads
  BY <1>31, <1>0 DEF WorkerEmptyCheck, CancelPoint, Cancelled, Goto,
     ValueTypes
<1>32. CASE WorkerDataCheck /\ StillThreads
  BY <1>32, <1>0 DEF WorkerDataCheck, CancelPoint, Cancelled, Goto,
     ValueTypes
<1>33. CASE CoreWrite /\ StillThreads
  BY <1>33, <1>0 DEF CoreWrite, CoreFailures, Goto, ValueTypes
<1>34. CASE WorkerLastCheck /\ StillThreads
  BY <1>34, <1>0 DEF WorkerLastCheck, CancelPoint, Cancelled, Goto,
     ValueTypes
<1>35. CASE WorkerVerify /\ StillThreads
  BY <1>35, <1>0 DEF WorkerVerify, Goto, ValueTypes
<1>36. CASE CoreFinish /\ StillThreads
  BY <1>36, <1>0 DEF CoreFinish, CoreFailures, Goto, ValueTypes
<1>37. CASE WorkerPublish /\ StillThreads
  BY <1>37, <1>0 DEF WorkerPublish, Session!Next, Session!Stage, ValueTypes
<1>38. CASE CoreAbort /\ StillThreads
  BY <1>38, <1>0 DEF CoreAbort, Goto, ValueTypes
<1>39. CASE WorkerFail /\ StillThreads
  BY <1>39, <1>0 DEF WorkerFail, Session!Next, Session!Close, ValueTypes
<1>40. CASE WorkerRelease /\ StillThreads
  BY <1>40, <1>0 DEF WorkerRelease, ReleaseOta, HoldsReservation,
     Session!Next, Session!Release, ValueTypes
<1>41. CASE WorkerComplete /\ StillThreads
  BY <1>41, <1>0 DEF WorkerComplete, ValueTypes
<1>42. CASE WorkerClearApply /\ StillThreads
  BY <1>42, <1>0 DEF WorkerClearApply, ValueTypes
<1>43. CASE WorkerValidate /\ StillThreads
  BY <1>43, <1>0 DEF WorkerValidate, QueuedApplyValid, Session!Next,
     Session!Claim, ValueTypes
<1>44. CASE CoreActivate /\ StillThreads
  BY <1>44, <1>0 DEF CoreActivate, Goto, Session!Next,
     Session!WriteBootTable, ValueTypes
<1>45. CASE WorkerRecord /\ StillThreads
  BY <1>45, <1>0 DEF WorkerRecord, Session!Next, Session!Activated,
     ValueTypes
<1>46. CASE PowerLoss
  BY <1>46, RestartRefines DEF PowerLoss, Session!Next
<1>47. CASE UNCHANGED vars
  BY <1>47
<1> QED
  BY <1>1, <1>2, <1>3, <1>4, <1>5, <1>6, <1>7, <1>8, <1>9, <1>10, <1>11,
     <1>12, <1>13, <1>14, <1>15, <1>16, <1>17, <1>18, <1>19, <1>20, <1>21,
     <1>22, <1>23, <1>24, <1>25, <1>26, <1>27, <1>28, <1>29, <1>30, <1>31,
     <1>32, <1>33, <1>34, <1>35, <1>36, <1>37, <1>38, <1>39, <1>40, <1>41,
     <1>42, <1>43, <1>44, <1>45, <1>46, <1>47 DEF Next, MainStep,
     StreamStep, ClientRequest, ListenerStep, WorkerStep, StillThreads

\* Refinement: whatever the threads do, the device shows the outside one
\* session at a time, exclusive with the cloud, ended by its cancellation and
\* written to the boot table only from an uncancelled Ready.
THEOREM Implements == Spec => ImplementsSession
<1>1. Init => Session!Init
  BY InitRefines
<1>2. Types /\ SafetyInv /\ [Next]_vars
        => [Session!Next]_(Session!sessionPhaseVars)
  BY StepRefines
<1> QED
  BY <1>1, <1>2, Safe, PTL DEF Spec, ImplementsSession, Session!Spec
=============================================================================
