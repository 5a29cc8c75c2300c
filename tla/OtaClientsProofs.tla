--------------------------- MODULE OtaClientsProofs ---------------------------
(***************************************************************************)
(* For any number of command lines and pages, of versions, of builds and   *)
(* of staging generations: what is booted is what the client of the        *)
(* accepted apply uploaded, success is reported of a firmware booted since *)
(* the apply began, and the running version never goes back.               *)
(*                                                                         *)
(* The argument.  A generation says nothing by itself: it is reused after  *)
(* a reset.  The digest does: an image that a client holds has the digest  *)
(* of its own package, or none (UploadNamed), for the command line because *)
(* it compares, for the page because the slot keeps its session alone with *)
(* the device until the 201 (SlotOwned).  So an apply that names the image *)
(* that is Ready is for the package that is staged (AskedStaged).          *)
(***************************************************************************)
EXTENDS OtaClients, TLAPS

ClientRecords == [pc : Busy \cup {"IDLE", "UPLOADED"},
                  wanted : Packages \cup {NoPackage},
                  image : Images, old : Versions]
ApplyRecords == [client : Clients \cup {Gone}, image : Images,
                 wanted : Packages]

-----------------------------------------------------------------------------
(* The inductive invariant.                                                *)

AskedStaged == asked \in {NoPackage, package}

ActivationAsked == phase = "Activating" => asked # NoPackage

\* Only what is newer gets Ready, and it stays the newer one until the reset.
StagedAdmitted ==
  phase \in {"Ready", "Activating"} \/ pending =>
    package \in Packages /\ Admits(package)

SlotOwned ==
  slot \in Clients =>
    client[slot].pc = "UPLOADING" /\ package = client[slot].wanted

UploadNamed(c) ==
  client[c].pc # "IDLE" =>
    /\ client[c].wanted \in Packages
    /\ client[c].image.digest \in {client[c].wanted, NoPackage}

VersionRead(c) ==
  /\ client[c].old <= running
  /\ client[c].pc = "POLLING" => client[c].old < client[c].wanted.version

\* An apply on its way is its client's, or was.
RequestKnown(r) ==
  /\ r.image.digest \in {r.wanted, NoPackage}
  /\ r.client \in Clients =>
       /\ client[r.client].pc = "APPLYING"
       /\ r.image = client[r.client].image
       /\ r.wanted = client[r.client].wanted

DeviceInv == AskedStaged /\ ActivationAsked /\ StagedAdmitted
ClientsInv == \A c \in Clients : UploadNamed(c) /\ VersionRead(c)
RequestsInv == \A r \in applies : RequestKnown(r)

ClientInv ==
  /\ TypeOK
  /\ DeviceInv
  /\ SlotOwned
  /\ ClientsInv
  /\ RequestsInv

-----------------------------------------------------------------------------
(* Types.                                                                  *)

\* What has no package is not a package: version 0 is the board's own.
LEMMA NoPackageIsNone == NoPackage \notin Packages
BY DEF NoPackage, Packages

\* What the status shows, and what a client does with a 201, is well typed.
LEMMA ImagesTyped ==
  ASSUME TypeOK
  PROVE  /\ ReadyImage \in Images
         /\ Idle \in ClientRecords
         /\ \A c \in Clients, image \in Images :
              Uploaded(c, image) \in ClientRecords
<1>1. ReadyImage \in Images
  BY VersionAssumption DEF TypeOK, ReadyImage, Images, NoImage
<1>2. Idle \in ClientRecords
  BY VersionAssumption DEF Idle, ClientRecords, NoImage, Images, Versions, Busy
<1>3. ASSUME NEW c \in Clients, NEW image \in Images
      PROVE  Uploaded(c, image) \in ClientRecords
  BY <1>2, <1>3 DEF TypeOK, Uploaded, ClientRecords
<1> QED
  BY <1>1, <1>2, <1>3

\* Every step keeps the types; what is asked for is a package because what a
\* client asks for is what it uploaded.
LEMMA TypeStep ==
  ASSUME TypeOK, ClientsInv, [Next]_vars
  PROVE  TypeOK'
<1> USE ClientsAssumption, VersionAssumption, ImagesTyped
        DEF TypeOK, sessionVars, deviceVars, Session!TypeOK, Session!Phases
<1>1. ASSUME NEW c \in Clients, UploadAccepted(c)
      PROVE  TypeOK'
  BY <1>1 DEF UploadAccepted, Session!Reserve
<1>2. ASSUME NEW c \in Clients, UploadStarts(c)
      PROVE  TypeOK'
  <2>1. PICK p \in Packages :
          client' = [client EXCEPT ![c] = [Idle EXCEPT !.pc = "UPLOADING",
                                                       !.wanted = p]]
    BY <1>2 DEF UploadStarts
  <2>2. [Idle EXCEPT !.pc = "UPLOADING", !.wanted = p] \in ClientRecords
    BY DEF ClientRecords, Busy
  <2> QED
    BY <1>2, <2>1, <2>2 DEF UploadStarts, ClientRecords
<1>3. ASSUME NEW c \in Clients, ApplyStarts(c)
      PROVE  TypeOK'
  BY <1>3 DEF ApplyStarts, Busy
<1>4. ASSUME NEW c \in Clients, StatusChecked(c)
      PROVE  TypeOK'
  <2>1. client[c].wanted \in Packages
    BY <1>4 DEF StatusChecked, ClientsInv, UploadNamed
  <2> DEFINE r == [client |-> c, image |-> client[c].image,
                   wanted |-> client[c].wanted]
  <2>2. r \in ApplyRecords
    BY <2>1 DEF ApplyRecords
  <2>3. applies' \subseteq ApplyRecords
    BY <1>4, <2>2 DEF StatusChecked, ApplyRecords
  <2>4. [client[c] EXCEPT !.pc = "APPLYING"] \in ClientRecords
    BY DEF ClientRecords, Busy
  <2>5. client' \in [Clients -> ClientRecords]
    BY <1>4, <2>4 DEF StatusChecked, ClientRecords
  <2> QED
    BY <1>4, <2>3, <2>5 DEF StatusChecked, ApplyRecords, ClientRecords
<1>5. ASSUME NEW c \in Clients, Confirmed(c)
      PROVE  TypeOK'
  BY <1>5 DEF Confirmed, ClientRecords
<1>6. ASSUME NEW c \in Clients, GivesUp(c)
      PROVE  TypeOK'
  BY <1>6 DEF GivesUp, ClientRecords
<1>7. ASSUME NEW r \in applies, ApplyQueued(r)
      PROVE  TypeOK'
  BY <1>7 DEF ApplyQueued, Busy
<1>8. ASSUME NEW r \in applies, RequestDropped(r)
      PROVE  TypeOK'
  BY <1>8 DEF RequestDropped
<1>9. CASE Granted
  BY <1>9 DEF Granted, Session!Grant, NextGeneration
<1>10. CASE Staged
  BY <1>10 DEF Staged, Session!Stage
<1>11. CASE UploadReplied
  BY <1>11 DEF UploadReplied, ClientRecords
<1>12. CASE Claimed
  BY <1>12 DEF Claimed, Session!Claim
<1>13. CASE SessionMoves
  BY <1>13 DEF SessionMoves, Session!Cancel, Session!Close,
               Session!WriteBootTable, Session!Activated, Session!Release
<1>14. CASE Restarted
  <2>1. Session!TypeOK'
    BY <1>14 DEF Restarted, Session!Reset
  <2>2. package.version \in Versions
    BY DEF Packages, NoPackage, Versions
  <2>3. running' \in Versions
    BY <1>14, <2>2 DEF Restarted
  <2>4. client' \in [Clients -> ClientRecords]
    BY <1>14 DEF Restarted, ClientRecords
  <2> QED
    BY <1>14, <2>1, <2>3, <2>4 DEF Restarted, ClientRecords
<1>15. CASE UNCHANGED vars
  BY <1>15 DEF vars
<1> QED
  BY <1>1, <1>2, <1>3, <1>4, <1>5, <1>6, <1>7, <1>8, <1>9, <1>10, <1>11,
     <1>12, <1>13, <1>14, <1>15 DEF Next

-----------------------------------------------------------------------------
(* The inductive invariant is inductive.                                   *)

\* The device: what is staged is newer than what runs, and what is asked for
\* is what is staged.
LEMMA DeviceStep ==
  ASSUME ClientInv, [Next]_vars
  PROVE  DeviceInv'
<1> USE NoPackageIsNone DEF ClientInv, DeviceInv, AskedStaged, ActivationAsked,
        StagedAdmitted, Admits, sessionVars, deviceVars
<1>1. ASSUME NEW c \in Clients, UploadAccepted(c)
      PROVE  DeviceInv'
  <2>1. phase' = "Waiting" /\ ~pending' /\ asked' = NoPackage
    BY <1>1 DEF UploadAccepted, Session!Reserve
  <2> QED
    BY <2>1
<1>2. ASSUME NEW c \in Clients,
             UploadStarts(c) \/ ApplyStarts(c) \/ StatusChecked(c) \/
               Confirmed(c) \/ GivesUp(c)
      PROVE  DeviceInv'
  <2>1. UNCHANGED <<phase, pending, running, package, asked>>
    BY <1>2 DEF UploadStarts, ApplyStarts, StatusChecked, Confirmed, GivesUp
  <2> QED
    BY <2>1
<1>3. ASSUME NEW r \in applies, ApplyQueued(r)
      PROVE  DeviceInv'
  <2>1. r.image = ReadyImage /\ phase = "Ready"
    BY <1>3 DEF ApplyQueued, StagedMatches
  <2>2. r.image.digest = package /\ package \in Packages
    BY <2>1 DEF ReadyImage
  <2>3. r.wanted = package
    BY <2>2 DEF RequestsInv, RequestKnown
  <2> QED
    BY <1>3, <2>1, <2>3 DEF ApplyQueued
<1>4. ASSUME NEW r \in applies, RequestDropped(r)
      PROVE  DeviceInv'
  BY <1>4 DEF RequestDropped
<1>5. CASE Granted
  BY <1>5 DEF Granted, Session!Grant
<1>6. CASE Staged
  <2>1. package \in Packages
    BY <1>6, VersionAssumption DEF Staged, TypeOK, NoPackage, Versions
  <2> QED
    BY <1>6, <2>1 DEF Staged, Session!Stage
<1>7. CASE UploadReplied
  BY <1>7 DEF UploadReplied
<1>8. CASE Claimed
  BY <1>8 DEF Claimed, Session!Claim
<1>9. CASE SessionMoves
  BY <1>9 DEF SessionMoves, Session!Cancel, Session!Close,
              Session!WriteBootTable, Session!Activated, Session!Release
<1>10. CASE Restarted
  BY <1>10 DEF Restarted, Session!Reset
<1>11. CASE UNCHANGED vars
  BY <1>11 DEF vars
<1> QED
  BY <1>1, <1>2, <1>3, <1>4, <1>5, <1>6, <1>7, <1>8, <1>9, <1>10, <1>11
     DEF Next

\* The running version only ever grows: it changes at a reset, to the version
\* of a pending package, which was newer when it was staged.
LEMMA RunningGrows ==
  ASSUME ClientInv, [Next]_vars
  PROVE  running' >= running
<1> USE DEF ClientInv, TypeOK, Versions, sessionVars, deviceVars
<1>1. CASE Restarted
  BY <1>1 DEF Restarted, DeviceInv, StagedAdmitted, Admits
<1>2. CASE ~Restarted
  <2>1. running' = running
    BY <1>2 DEF Next, vars, UploadAccepted, UploadStarts, ApplyStarts,
         StatusChecked, Confirmed, GivesUp, ApplyQueued, RequestDropped,
         Granted, Staged, UploadReplied, Claimed, SessionMoves
  <2> QED
    BY <2>1, VersionAssumption
<1> QED
  BY <1>1, <1>2

\* The slot is the client's from its request to the 201, in which time it can
\* only give up.
LEMMA SlotStep ==
  ASSUME ClientInv, [Next]_vars
  PROVE  SlotOwned'
<1> USE ClientsAssumption DEF ClientInv, SlotOwned, sessionVars, deviceVars,
        TypeOK, SlotFree
<1>1. ASSUME NEW c \in Clients, UploadAccepted(c)
      PROVE  SlotOwned'
  BY <1>1 DEF UploadAccepted
<1>2. ASSUME NEW c \in Clients, UploadStarts(c)
      PROVE  SlotOwned'
  BY <1>2 DEF UploadStarts
<1>3. ASSUME NEW c \in Clients, ApplyStarts(c) \/ StatusChecked(c)
      PROVE  SlotOwned'
  BY <1>3 DEF ApplyStarts, StatusChecked
<1>4. ASSUME NEW c \in Clients, Confirmed(c)
      PROVE  SlotOwned'
  BY <1>4 DEF Confirmed
<1>5. ASSUME NEW c \in Clients, GivesUp(c)
      PROVE  SlotOwned'
  BY <1>5 DEF GivesUp
<1>6. ASSUME NEW r \in applies, ApplyQueued(r)
      PROVE  SlotOwned'
  BY <1>6 DEF ApplyQueued
<1>7. ASSUME NEW r \in applies, RequestDropped(r)
      PROVE  SlotOwned'
  BY <1>7 DEF RequestDropped
<1>8. CASE Granted \/ Staged \/ Claimed \/ SessionMoves
  BY <1>8 DEF Granted, Staged, Claimed, SessionMoves
<1>9. CASE UploadReplied
  BY <1>9 DEF UploadReplied
<1>10. CASE Restarted
  BY <1>10 DEF Restarted
<1>11. CASE UNCHANGED vars
  BY <1>11 DEF vars
<1> QED
  BY <1>1, <1>2, <1>3, <1>4, <1>5, <1>6, <1>7, <1>8, <1>9, <1>10, <1>11
     DEF Next

\* An Idle client satisfies all that is asked of one.
LEMMA IdleIsFine ==
  ASSUME ClientInv, [Next]_vars, NEW c \in Clients, client'[c] = Idle
  PROVE  (UploadNamed(c) /\ VersionRead(c))'
BY RunningGrows, TypeStep, VersionAssumption
   DEF Idle, UploadNamed, VersionRead, ClientInv, TypeOK, Versions

\* So does one whose record has not changed, as the version only grows.
LEMMA UnchangedIsFine ==
  ASSUME ClientInv, [Next]_vars, NEW c \in Clients, client'[c] = client[c]
  PROVE  (UploadNamed(c) /\ VersionRead(c))'
<1>1. running' >= running /\ TypeOK /\ TypeOK'
  BY RunningGrows, TypeStep DEF ClientInv
<1>2. UploadNamed(c) /\ VersionRead(c)
  BY DEF ClientInv, ClientsInv
<1> QED
  BY <1>1, <1>2, VersionAssumption DEF UploadNamed, VersionRead, TypeOK, Versions

\* The clients: what they hold is of their own package, and the version they
\* read before their apply is older than the package by the time it is queued.
LEMMA ClientsStep ==
  ASSUME ClientInv, [Next]_vars
  PROVE  ClientsInv'
<1> SUFFICES ASSUME NEW d \in Clients
             PROVE  (UploadNamed(d) /\ VersionRead(d))'
  BY DEF ClientsInv
<1>0. /\ TypeOK /\ TypeOK' /\ running' >= running
      /\ client[d] \in ClientRecords
      /\ UploadNamed(d) /\ VersionRead(d)
  BY TypeStep, RunningGrows DEF ClientInv, ClientsInv, TypeOK, ClientRecords
<1> USE IdleIsFine, UnchangedIsFine, VersionAssumption
<1>1. ASSUME NEW c \in Clients, UploadStarts(c)
      PROVE  (UploadNamed(d) /\ VersionRead(d))'
  BY <1>0, <1>1 DEF UploadStarts, TypeOK, Versions, UploadNamed, VersionRead,
                    Idle, NoImage
<1>2. ASSUME NEW c \in Clients, ApplyStarts(c)
      PROVE  (UploadNamed(d) /\ VersionRead(d))'
  BY <1>0, <1>2 DEF ApplyStarts, TypeOK, Versions, UploadNamed, VersionRead
<1>3. ASSUME NEW c \in Clients, StatusChecked(c)
      PROVE  (UploadNamed(d) /\ VersionRead(d))'
  BY <1>0, <1>3 DEF StatusChecked, TypeOK, Versions, UploadNamed, VersionRead,
                    sessionVars, deviceVars
<1>4. ASSUME NEW c \in Clients, Confirmed(c)
      PROVE  (UploadNamed(d) /\ VersionRead(d))'
  BY <1>0, <1>4 DEF Confirmed, TypeOK
<1>5. ASSUME NEW c \in Clients, GivesUp(c)
      PROVE  (UploadNamed(d) /\ VersionRead(d))'
  BY <1>0, <1>5 DEF GivesUp, TypeOK, Versions, UploadNamed, VersionRead
<1>6. ASSUME NEW r \in applies, ApplyQueued(r)
      PROVE  (UploadNamed(d) /\ VersionRead(d))'
  <2>1. CASE r.client = d
    <3>1. /\ phase = "Ready" /\ r.image.digest = package
          /\ package \in Packages /\ package.version > running
      BY <1>6 DEF ApplyQueued, StagedMatches, ReadyImage, ClientInv, DeviceInv,
                  StagedAdmitted, Admits
    <3>2. r.wanted = client[d].wanted /\ r.wanted = package
      BY <2>1, <3>1, NoPackageIsNone
         DEF ClientInv, RequestsInv, RequestKnown
    <3>3. client'[d] = [client[d] EXCEPT !.pc = "POLLING"] /\ running' = running
      BY <1>0, <1>6, <2>1, ClientsAssumption
         DEF ApplyQueued, TypeOK, deviceVars
    <3>4. client[d].pc # "IDLE"
      BY <2>1 DEF ClientInv, RequestsInv, RequestKnown
    <3>5. /\ client'[d].wanted = client[d].wanted
          /\ client'[d].image = client[d].image
          /\ client'[d].old = client[d].old
      BY <1>0, <3>3 DEF ClientRecords
    <3>6. client[d].old < client[d].wanted.version
      BY <1>0, <3>1, <3>2 DEF VersionRead, ClientRecords, Packages, TypeOK,
                              Versions
    <3> QED
      BY <1>0, <3>3, <3>4, <3>5, <3>6 DEF UploadNamed, VersionRead
  <2>2. CASE r.client # d
    BY <1>0, <1>6, <2>2 DEF ApplyQueued, TypeOK
  <2> QED
    BY <2>1, <2>2
<1>7. CASE UploadReplied
  <2>1. CASE slot = d
    <3>1. client[d].pc = "UPLOADING" /\ package = client[d].wanted
      BY <2>1 DEF ClientInv, SlotOwned
    <3>2. client'[d] = Uploaded(d, ReadyImage)
      BY <1>0, <1>7, <2>1, ClientsAssumption DEF UploadReplied, TypeOK
    <3>3. ReadyImage.digest \in {package, NoPackage}
      BY DEF ReadyImage, NoImage
    <3>4. CASE client'[d] = Idle
      BY <3>4
    <3>5. CASE client'[d] = [client[d] EXCEPT !.pc = "UPLOADED",
                                              !.image = ReadyImage]
      <4>1. /\ client'[d].wanted = client[d].wanted
            /\ client'[d].old = client[d].old
            /\ client'[d].pc = "UPLOADED"
            /\ client'[d].image = ReadyImage
        BY <1>0, <3>5 DEF ClientRecords
      <4> QED
        BY <1>0, <3>1, <3>3, <4>1, <1>7
           DEF UploadNamed, VersionRead, UploadReplied, deviceVars
    <3> QED
      BY <3>2, <3>4, <3>5 DEF Uploaded
  <2>2. CASE slot # d
    BY <1>0, <1>7, <2>2 DEF UploadReplied, TypeOK
  <2> QED
    BY <2>1, <2>2
<1>8. CASE Restarted
  BY <1>0, <1>8 DEF Restarted, TypeOK
<1>9. CASE UNCHANGED client
  BY <1>9
<1> QED
  BY <1>1, <1>2, <1>3, <1>4, <1>5, <1>6, <1>7, <1>8, <1>9
     DEF Next, vars, UploadAccepted, RequestDropped, Granted, Staged, Claimed,
         SessionMoves

\* The requests: one that is on its way for a client that still waits is the
\* only one of that client, so its answer ends the wait.
LEMMA RequestsStep ==
  ASSUME ClientInv, [Next]_vars
  PROVE  RequestsInv'
<1> USE ClientsAssumption DEF RequestsInv
<1>0. /\ client \in [Clients -> ClientRecords]
      /\ applies \subseteq ApplyRecords
      /\ RequestsInv /\ ClientsInv /\ SlotOwned
  BY DEF ClientInv, TypeOK, ClientRecords, ApplyRecords
<1>1. ASSUME NEW c \in Clients, UploadStarts(c) \/ ApplyStarts(c) \/ Confirmed(c)
      PROVE  RequestsInv'
  <2>1. /\ applies' = applies
        /\ client[c].pc \notin {"APPLYING"}
        /\ \A d \in Clients \ {c} : client'[d] = client[d]
    BY <1>0, <1>1 DEF UploadStarts, ApplyStarts, Confirmed
  <2> QED
    BY <1>0, <2>1 DEF RequestKnown
<1>2. ASSUME NEW c \in Clients, StatusChecked(c)
      PROVE  RequestsInv'
  <2> DEFINE new == [client |-> c, image |-> client[c].image,
                     wanted |-> client[c].wanted]
  <2>1. /\ client[c].pc = "CHECKING"
        /\ applies' = applies \cup {new}
        /\ client' = [client EXCEPT ![c].pc = "APPLYING"]
    BY <1>2 DEF StatusChecked
  <2>2. client'[c] = [client[c] EXCEPT !.pc = "APPLYING"]
    BY <1>0, <2>1
  <2>3. RequestKnown(new)'
    BY <1>0, <2>1, <2>2 DEF RequestKnown, ClientsInv, UploadNamed, ClientRecords
  <2>4. ASSUME NEW r \in applies
        PROVE  RequestKnown(r)'
    <3>1. RequestKnown(r) /\ r.client # c
      BY <1>0, <2>1 DEF RequestKnown
    <3> QED
      BY <1>0, <2>1, <3>1 DEF RequestKnown
  <2> QED
    BY <2>1, <2>3, <2>4
<1>3. ASSUME NEW c \in Clients, GivesUp(c)
      PROVE  RequestsInv'
  <2> SUFFICES ASSUME NEW r \in applies'
               PROVE  RequestKnown(r)'
    OBVIOUS
  <2>1. PICK q \in applies :
          r = [q EXCEPT !.client = IF q.client = c THEN Gone ELSE q.client]
    BY <1>3 DEF GivesUp
  <2>2. q \in ApplyRecords /\ RequestKnown(q)
    BY <1>0
  <2>3. r.image = q.image /\ r.wanted = q.wanted
    BY <2>1, <2>2 DEF ApplyRecords
  <2>4. r.client = IF q.client = c THEN Gone ELSE q.client
    BY <2>1, <2>2 DEF ApplyRecords
  <2>5. \A d \in Clients \ {c} : client'[d] = client[d]
    BY <1>0, <1>3 DEF GivesUp
  <2> QED
    BY <2>2, <2>3, <2>4, <2>5 DEF RequestKnown
<1>4. ASSUME NEW r \in applies, ApplyQueued(r)
      PROVE  RequestsInv'
  <2> SUFFICES ASSUME NEW q \in applies, q # r
               PROVE  RequestKnown(q)'
    BY <1>4 DEF ApplyQueued
  <2>1. RequestKnown(q) /\ RequestKnown(r) /\ {q, r} \subseteq ApplyRecords
    BY <1>0
  <2>2. q.client \in Clients => q.client # r.client
    BY <2>1 DEF RequestKnown, ApplyRecords
  <2>3. q.client \in Clients => client'[q.client] = client[q.client]
    BY <1>0, <1>4, <2>2 DEF ApplyQueued
  <2> QED
    BY <2>1, <2>3 DEF RequestKnown
<1>5. ASSUME NEW r \in applies, RequestDropped(r)
      PROVE  RequestsInv'
  BY <1>0, <1>5 DEF RequestDropped, RequestKnown
<1>6. CASE UploadReplied
  <2>1. \A d \in Clients : client[d].pc = "APPLYING" => client'[d] = client[d]
    BY <1>0, <1>6 DEF UploadReplied, SlotOwned
  <2> QED
    BY <1>0, <1>6, <2>1 DEF UploadReplied, RequestKnown
<1>7. CASE Restarted
  <2>1. \A d \in Clients : client[d].pc = "APPLYING" => client'[d] = client[d]
    BY <1>0, <1>7 DEF Restarted, SlotOwned
  <2> QED
    BY <1>0, <1>7, <2>1 DEF Restarted, RequestKnown
<1>8. CASE UNCHANGED <<client, applies>>
  BY <1>0, <1>8 DEF RequestKnown
<1> QED
  BY <1>1, <1>2, <1>3, <1>4, <1>5, <1>6, <1>7, <1>8
     DEF Next, vars, UploadAccepted, Granted, Staged, Claimed, SessionMoves

\* Initially all clients are idle and nothing is staged.
LEMMA ClientInitially == Init => ClientInv
<1> SUFFICES ASSUME Init
             PROVE  ClientInv
  OBVIOUS
<1> USE ClientsAssumption, VersionAssumption DEF Init, Session!Init
<1>1. Idle \in ClientRecords
  BY DEF Idle, ClientRecords, NoImage, Images, Versions, Busy
<1>2. TypeOK
  <2>1. client \in [Clients -> ClientRecords]
    BY <1>1
  <2>2. running \in Versions /\ generation \in 0 .. GenerationLimit
    BY DEF Versions
  <2>3. Session!TypeOK
    BY DEF Session!TypeOK, Session!Phases
  <2> QED
    BY <2>1, <2>2, <2>3 DEF TypeOK, ClientRecords
<1>3. DeviceInv /\ SlotOwned /\ RequestsInv
  BY DEF DeviceInv, AskedStaged, ActivationAsked, StagedAdmitted, SlotOwned,
         RequestsInv
<1>4. ClientsInv
  <2> SUFFICES ASSUME NEW c \in Clients
               PROVE  UploadNamed(c) /\ VersionRead(c)
    BY DEF ClientsInv
  <2>1. client[c] = Idle
    OBVIOUS
  <2>2. client[c].pc = "IDLE" /\ client[c].old = 0
    BY <2>1 DEF Idle
  <2> QED
    BY <2>2 DEF UploadNamed, VersionRead
<1> QED
  BY <1>2, <1>3, <1>4 DEF ClientInv

\* The invariant is inductive.
LEMMA ClientStep == ClientInv /\ [Next]_vars => ClientInv'
BY TypeStep, DeviceStep, SlotStep, ClientsStep, RequestsStep DEF ClientInv

-----------------------------------------------------------------------------
(* The results.                                                            *)

\* Every variable keeps its type, for any clients and bounds.
THEOREM ClientTypes == Spec => []TypeOK
<1>1. ClientInv => TypeOK
  BY DEF ClientInv
<1> QED
  BY <1>1, ClientInitially, ClientStep, PTL DEF Spec

\* The boot table is only written with the package that the client of the
\* accepted apply uploaded, whatever was reused, lost or given up.
THEOREM BootsWhatWasAsked == Spec => BootsOwnUpload
<1>1. ClientInv /\ [Next]_vars => (pending' /\ ~pending => package = asked)
  <2> SUFFICES ASSUME ClientInv, [Next]_vars, pending', ~pending
               PROVE  package = asked
    OBVIOUS
  <2>1. phase = "Activating"
    BY DEF Next, vars, sessionVars, deviceVars, UploadAccepted, UploadStarts,
         ApplyStarts, StatusChecked, Confirmed, GivesUp, ApplyQueued,
         RequestDropped, Granted, Staged, UploadReplied, Claimed, SessionMoves,
         Restarted, Session!Reserve, Session!Grant, Session!Stage,
         Session!Claim, Session!Cancel, Session!Close, Session!WriteBootTable,
         Session!Activated, Session!Release, Session!Reset
  <2> QED
    BY <2>1 DEF ClientInv, DeviceInv, ActivationAsked, AskedStaged
<1> QED
  BY <1>1, ClientInitially, ClientStep, PTL DEF Spec, BootsOwnUpload

\* Success is reported only of a firmware that was booted after the apply
\* began, however late the answers and whoever else updated the device.
THEOREM SuccessIsOfANewBoot == Spec => ConfirmedWasBooted
<1>1. ASSUME ClientInv, NEW c \in Clients, Confirmed(c)
      PROVE  client[c].old < running
  BY <1>1, VersionAssumption
     DEF ClientInv, ClientsInv, VersionRead, Confirmed, TypeOK, Versions
<1>2. ClientInv /\ [Next]_vars =>
        \A c \in Clients : Confirmed(c) => client[c].old < running
  BY <1>1
<1> QED
  BY <1>2, ClientInitially, ClientStep, PTL DEF Spec, ConfirmedWasBooted

\* The running version never goes back, at any reset.
THEOREM NeverDowngrades == Spec => NoDowngrade
<1>1. ClientInv /\ [Next]_vars => running' >= running
  BY RunningGrows
<1> QED
  BY <1>1, ClientInitially, ClientStep, PTL DEF Spec, NoDowngrade
=============================================================================
