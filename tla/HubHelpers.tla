------------------------------ MODULE HubHelpers ------------------------------
(***************************************************************************)
(* Eight parts of the hub that share no state, side by side in one         *)
(* specification: the part is chosen at the start, and the others stay in  *)
(* their first state.  What holds of each is what would hold of it alone;  *)
(* the state spaces add up, they do not multiply.                          *)
(***************************************************************************)
EXTENDS Naturals, Sequences, FiniteSets

CONSTANTS
  Parts,         \* the parts to choose from: devices, reload, batch, radio, guard, pairing,
                 \* control, update
  Child,         \* children of the web server, or processes of the Bluetooth tools
  \* DeviceEdits
  DeviceRequests, Texts, Names, Keyed, FirstLists, Imported, NamedIds, Floor, Spread, MaxCommands, MaxSaves,
  \* ReloadFlag
  MaxBusy, MaxFaults,
  \* IrBatch
  Batches, Id, Limit, Pause,
  \* RfPairing
  Windows, Room, HalWait,
  \* BthidGuard
  Cooldown, Teardown, MaxTime,
  \* PairAgent
  Host, Settle, Retry, MaxAttempts, Block, Deadline, MaxLinkEvents,
  \* HidControl
  Peer, HubCid, PeerCid, Opens,
  \* HubUpdate
  Update, Order, Reboots, Releases, FirstFiles, MaxFailures

ASSUME ChildAssumption == IsFiniteSet(Child)

\* hal's pointer does not dangle for longer than the guard waits: a second, and a second and a half.
ASSUME GuardAssumption ==
  /\ Cooldown \in Nat /\ Teardown \in Nat /\ MaxTime \in Nat \ {0}
  /\ Teardown <= Cooldown
  /\ "none" \notin Child

ASSUME RadioAssumption ==
  Windows \subseteq Nat /\ Room \in Nat /\ HalWait \in Nat

ASSUME BatchAssumption ==
  /\ Batches \in [Child -> SUBSET [id : Id \cup {"none"}, dry : BOOLEAN, lines : Seq({"good", "bad"})]]
  /\ "none" \notin Id
  /\ Limit \in Nat /\ Pause \in Nat

\* The agent runs for ten seconds at least.
ASSUME PairingAssumption ==
  /\ {Settle, Retry, MaxAttempts, Block, Deadline, MaxLinkEvents} \subseteq Nat
  /\ Deadline # 0

\* No channel has the id 0, which stands for none.
ASSUME ControlAssumption ==
  0 \notin HubCid /\ 0 \notin PeerCid /\ Opens \in [Peer -> SUBSET {"hid", "other"}]

VARIABLES
  part,  \* the part that runs
  dCh, dLive, dTmp, dRefs, dSave, dUsed, dWant, dDeleted, dMishaps,
  rCh, rVersion, rFlag, rTask, rEngine, rRemote, rBusy, rUsed, rMishaps,
  iRun, iCancelled, iAsked, iOld, iLate,
  fKid, fHal, fMishaps,
  bCaller, bOwner, bStamp, bNow, bAsked, bFreed, bCrashed, bMishaps,
  pMode, pAgent, pTime, pSpent, pQueue, pUp, pEvents, pSeen,
  hChans, hAsks, hLocalCid, hRemoteCid, hReply, hMishaps,
  uUp, uDest, uNew, uServing, uUsed, uLatest, uMishaps

dVars == <<dCh, dLive, dTmp, dRefs, dSave, dUsed, dWant, dDeleted, dMishaps>>
rVars == <<rCh, rVersion, rFlag, rTask, rEngine, rRemote, rBusy, rUsed, rMishaps>>
iVars == <<iRun, iCancelled, iAsked, iOld, iLate>>
fVars == <<fKid, fHal, fMishaps>>
bVars == <<bCaller, bOwner, bStamp, bNow, bAsked, bFreed, bCrashed, bMishaps>>
pVars == <<pMode, pAgent, pTime, pSpent, pQueue, pUp, pEvents, pSeen>>
hVars == <<hChans, hAsks, hLocalCid, hRemoteCid, hReply, hMishaps>>
uVars == <<uUp, uDest, uNew, uServing, uUsed, uLatest, uMishaps>>
vars == <<part, dVars, rVars, iVars, fVars, bVars, pVars, hVars, uVars>>

-----------------------------------------------------------------------------
D == INSTANCE DeviceEdits WITH
       Requests <- DeviceRequests, Restored <- Imported, MaxEvents <- MaxSaves,
       ch <- dCh, live <- dLive, tmp <- dTmp, refs <- dRefs, save <- dSave, used <- dUsed,
       want <- dWant, deleted <- dDeleted, mishaps <- dMishaps

R == INSTANCE ReloadFlag WITH
       ch <- rCh, version <- rVersion, flag <- rFlag, task <- rTask, engine <- rEngine,
       remote <- rRemote, busy <- rBusy, used <- rUsed, mishaps <- rMishaps

I == INSTANCE IrBatch WITH
       Run <- Child,
       run <- iRun, cancelled <- iCancelled, asked <- iAsked, old <- iOld, late <- iLate

F == INSTANCE RfPairing WITH kid <- fKid, hal <- fHal, mishaps <- fMishaps

B == INSTANCE BthidGuard WITH
       Caller <- Child,
       caller <- bCaller, owner <- bOwner, stamp <- bStamp, now <- bNow, asked <- bAsked,
       freed <- bFreed, crashed <- bCrashed, mishaps <- bMishaps

P == INSTANCE PairAgent WITH
       Peer <- Host, MaxEvents <- MaxLinkEvents,
       mode <- pMode, agent <- pAgent, time <- pTime, spent <- pSpent, queue <- pQueue, up <- pUp,
       events <- pEvents, seen <- pSeen

H == INSTANCE HidControl WITH
       chans <- hChans, asks <- hAsks, localCid <- hLocalCid, remoteCid <- hRemoteCid,
       reply <- hReply, mishaps <- hMishaps

U == INSTANCE HubUpdate WITH
       MaxEvents <- MaxFailures,
       up <- uUp, dest <- uDest, new <- uNew, serving <- uServing, used <- uUsed,
       latest <- uLatest, mishaps <- uMishaps

\* The lists at the start and those that are imported are tidy, and a device at the start has the
\* protocol of its commands. An import checks the syntax alone: it is for what a hub has exported.
ASSUME DevicesAssumption ==
  /\ DeviceRequests \in
       [Child -> SUBSET [kind : D!EditKinds, id : Nat, old : Texts, name : Texts]]
  /\ FirstLists # {} /\ FirstLists \cup {Imported} \subseteq
       [Device : Seq([id : Nat, label : Texts, cmds : Seq(Texts)]), Protocol : Seq([name : Texts])]
  /\ \A lists \in FirstLists \cup {Imported} : D!Tidy(lists.Device) /\ D!Distinct(lists.Protocol)
  /\ \A lists \in FirstLists : D!Served(lists.Device, lists.Protocol)
  /\ Names \cup {"none", "new", "set", D!Builtin.name} \subseteq Texts /\ IsFiniteSet(Names)
  /\ NamedIds \subseteq SUBSET Nat
  /\ Floor \in Nat /\ Spread \in Nat /\ MaxCommands \in Nat

\* A release has every file, and a file that is there has a text of its own.
ASSUME UpdateAssumption ==
  /\ "none" \notin Update
  /\ Order \in Seq(U!File) /\ Order # <<>>
  /\ \A files \in Releases \cup {FirstFiles} :
       files = [f \in U!File |-> files[f]] /\ \A f \in U!File : files[f] # "none"
  /\ \A release \in Releases, f \in U!File : release[f] # "absent"
  /\ MaxFailures \in Nat

-----------------------------------------------------------------------------
Init ==
  /\ part \in Parts
  /\ D!Init /\ R!Init /\ I!Init /\ F!Init /\ B!Init /\ P!Init /\ H!Init /\ U!Init
  /\ part = "devices" \/ dWant = CHOOSE lists \in FirstLists : TRUE
  /\ part = "reload" \/ ~rBusy

DeviceStep ==
  part = "devices" /\ D!Next /\ UNCHANGED <<part, rVars, iVars, fVars, bVars, pVars, hVars, uVars>>
ReloadStep ==
  part = "reload" /\ R!Next /\ UNCHANGED <<part, dVars, iVars, fVars, bVars, pVars, hVars, uVars>>
BatchStep ==
  part = "batch" /\ I!Next /\ UNCHANGED <<part, dVars, rVars, fVars, bVars, pVars, hVars, uVars>>
RadioStep ==
  part = "radio" /\ F!Next /\ UNCHANGED <<part, dVars, rVars, iVars, bVars, pVars, hVars, uVars>>
GuardStep ==
  part = "guard" /\ B!Next /\ UNCHANGED <<part, dVars, rVars, iVars, fVars, pVars, hVars, uVars>>
PairingStep ==
  part = "pairing" /\ P!Next /\ UNCHANGED <<part, dVars, rVars, iVars, fVars, bVars, hVars, uVars>>
ControlStep ==
  part = "control" /\ H!Next /\ UNCHANGED <<part, dVars, rVars, iVars, fVars, bVars, pVars, uVars>>
UpdateStep ==
  part = "update" /\ U!Next /\ UNCHANGED <<part, dVars, rVars, iVars, fVars, bVars, pVars, hVars>>

Next ==
  \/ DeviceStep \/ ReloadStep \/ BatchStep \/ RadioStep
  \/ GuardStep \/ PairingStep \/ ControlStep \/ UpdateStep

\* Only the reload flag has a promise of progress, and its own fairness.
Spec ==
  /\ Init /\ [][Next]_vars
  /\ \A c \in Child : WF_rVars(part = "reload" /\ R!ChildStep(c))
  /\ WF_rVars(part = "reload" /\ R!RuntimeWorks)

-----------------------------------------------------------------------------
\* The variables of every part have their types.
PartsTypeOK ==
  /\ part \in Parts
  /\ D!TypeOK /\ R!TypeOK /\ I!TypeOK /\ F!TypeOK /\ B!TypeOK /\ P!TypeOK /\ H!TypeOK /\ U!TypeOK

\* DeviceEdits: an edit that was published stays in the list.
NoEditLost == D!NoEditLost
\* DeviceEdits: the lists are whole and consistent, unless children raced in a named way.
ListsAreSound == D!ListsAreSound
\* DeviceEdits: no activity list names a device that was deleted.
DeletedIsUnreferenced == D!DeletedIsUnreferenced
\* ReloadFlag: somebody still takes care of a device list that the engine has not loaded.
StaleIsOnItsWay == R!StaleIsOnItsWay
\* ReloadFlag: in the end the engine has loaded every edit.
HubCatchesUp == R!HubCatchesUp
\* IrBatch: a batch stops when it is cancelled, and only then.
CancelIsHonoured == I!CancelIsHonoured
\* RfPairing: nobody reads the pairing slots while a pairing window is open.
WindowIsAlone == F!WindowIsAlone
\* BthidGuard: hal serves no call while its HID instance is freed.
HalNeverReadsFreed == B!HalNeverReadsFreed
\* PairAgent: pairing is complete only with a link that has settled.
CompletedIsLinked == P!CompletedIsLinked
\* HidControl: the reply to GET_REPORT reaches the host that asked.
ReplyReachesAsker == H!ReplyReachesAsker
\* HubUpdate: the result of an update says what is installed.
ResultIsTrue == U!ResultIsTrue
=============================================================================
