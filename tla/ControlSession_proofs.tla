----------------------- MODULE ControlSession_proofs -----------------------
(***************************************************************************)
(* Proofs about ControlSession, for any devices, connections and channel   *)
(* capacity: the types, that no generation is reported offline twice, and  *)
(* that the sessions implement ConnectionRegistry.                         *)
(***************************************************************************)
EXTENDS ControlSession, TLAPS

(* The provers of a step, unless it names one, and their time.             *)
USE ZenonT(5), SMTT(30)

RegisteredStages == {"registered", "cleaned", "published", "ready", "snapshot", "loop",
                     "leaving", "left", "ended"}

(* An entry of the registry is a generation of that device which has       *)
(* registered.                                                             *)
ActiveInv ==
    \A d \in Devices : active[d] # NoConn =>
        DeviceOf[active[d]] = d /\ stage[active[d]] \in RegisteredStages

(* A session remembers the generation it replaced only until it has        *)
(* cleaned it up.                                                          *)
PreviousInv == \A c \in Conns : previous[c] # NoConn => stage[c] = "registered"

(* OfflineAtMostOnce in terms of the stages.                               *)
OfflineInv ==
    \A c \in Conns :
        /\ offlines[c] <= 1
        /\ offlines[c] = 1 => ~IsActive(c) /\ stage[c] \in RegisteredStages

Inv == TypeOK /\ ActiveInv /\ PreviousInv /\ OfflineInv

-----------------------------------------------------------------------------
(* sender.send leaves a bounded queue of devices for every receiver.       *)
LEMMA PublishType ==
    ASSUME TypeOK, NEW d \in Devices, Publish(d)
    PROVE /\ pending' \in [Conns -> Seq(Devices)]
          /\ \A c \in Conns : Len(pending'[c]) <= EventCap
          /\ lagged' \in [Conns -> BOOLEAN]
<1>1. ASSUME NEW c \in Conns
      PROVE pending'[c] \in Seq(Devices) /\ Len(pending'[c]) <= EventCap
  <2>1. pending[c] \in Seq(Devices) /\ Len(pending[c]) <= EventCap
    BY DEF TypeOK
  <2>2. Append(pending[c], d) \in Seq(Devices) /\ Len(Append(pending[c], d)) = Len(pending[c]) + 1
    BY <2>1
  <2>3. CASE Subscribed(c) /\ Len(pending[c]) < EventCap
    <3>1. pending'[c] = Append(pending[c], d)
      BY <2>3 DEF Publish
    <3> QED
      BY <2>1, <2>2, <2>3, <3>1, SessionConstants
  <2>4. CASE ~(Subscribed(c) /\ Len(pending[c]) < EventCap)
    <3>1. pending'[c] = pending[c]
      BY <2>4 DEF Publish
    <3> QED
      BY <2>1, <3>1
  <2> QED
    BY <2>3, <2>4
<1>2. pending' = [c \in Conns |-> IF Subscribed(c) /\ Len(pending[c]) < EventCap
                                  THEN Append(pending[c], d) ELSE pending[c]]
  BY DEF Publish
<1>3. pending' \in [Conns -> Seq(Devices)]
  BY <1>1, <1>2
<1>4. lagged' \in [Conns -> BOOLEAN]
  BY DEF Publish, TypeOK
<1> QED
  BY <1>1, <1>3, <1>4

(* registry.disconnect removes the own entry at most.                      *)
LEMMA DisconnectType ==
    ASSUME TypeOK, NEW c \in Conns, Disconnect(c)
    PROVE active' \in [Devices -> Conns \cup {NoConn}] /\ offlines' \in [Conns -> Nat]
BY DEF TypeOK, Disconnect

(* The start satisfies the invariant.                                      *)
LEMMA InitInv == Init => Inv
<1>1. SUFFICES ASSUME Init PROVE Inv
  OBVIOUS
<1>2. TypeOK
  BY <1>1, SessionConstants DEF Init, TypeOK, Stages, Presences
<1>3. ActiveInv /\ PreviousInv
  BY <1>1 DEF Init, ActiveInv, PreviousInv
<1>4. OfflineInv
  BY <1>1, SessionConstants DEF Init, OfflineInv
<1> QED
  BY <1>2, <1>3, <1>4 DEF Inv

-----------------------------------------------------------------------------
(* Types, action by action *)

(* A step of the handshake that only publishes or moves on.                *)
LEMMA StageType ==
    ASSUME TypeOK, NEW c \in Conns, NEW s \in Stages, Goto(c, s),
           UNCHANGED <<registryVars, previous, storeVars, watchVars, frames>>,
           Publish(DeviceOf[c]) \/ UNCHANGED feedVars
    PROVE TypeOK'
<1>1. DeviceOf[c] \in Devices
  BY SessionConstants
<1>2. stage' \in [Conns -> Stages]
  BY DEF TypeOK, Goto
<1>3. /\ pending' \in [Conns -> Seq(Devices)]
      /\ \A k \in Conns : Len(pending'[k]) <= EventCap
      /\ lagged' \in [Conns -> BOOLEAN]
  <2>1. CASE Publish(DeviceOf[c])
    BY <1>1, <2>1, PublishType
  <2>2. CASE UNCHANGED feedVars
    BY <2>2 DEF TypeOK, feedVars
  <2> QED
    BY <2>1, <2>2
<1> QED
  BY <1>2, <1>3 DEF TypeOK, registryVars, storeVars, watchVars

(* Registration and the store.                                             *)
LEMMA RegisterType ==
    ASSUME TypeOK, NEW c \in Conns, StoreManifest(c) \/ Register(c) \/ CleanPrevious(c)
    PROVE TypeOK'
<1>1. DeviceOf[c] \in Devices
  BY SessionConstants
<1>2. CASE StoreManifest(c)
  BY <1>1, <1>2 DEF TypeOK, StoreManifest, Goto, Stages, registryVars, feedVars, watchVars
<1>3. CASE Register(c)
  BY <1>1, <1>3 DEF TypeOK, Register, Goto, Stages, storeVars, feedVars, watchVars
<1>4. CASE CleanPrevious(c)
  BY <1>1, <1>4 DEF TypeOK, CleanPrevious, Goto, Stages, registryVars, storeVars, feedVars, watchVars
<1> QED
  BY <1>2, <1>3, <1>4

(* A session that leaves, or gives up its registration.                    *)
LEMMA LeaveType ==
    ASSUME TypeOK, NEW c \in Conns, AbortRegistration(c) \/ AbandonRegistration(c) \/ Leave(c)
    PROVE TypeOK'
<1>1. CASE AbortRegistration(c)
  BY <1>1, DisconnectType DEF TypeOK, AbortRegistration, Goto, Stages, storeVars, feedVars, watchVars
<1>2. CASE AbandonRegistration(c)
  BY <1>2 DEF TypeOK, AbandonRegistration, Goto, Stages, registryVars, storeVars, feedVars
<1>3. CASE Leave(c)
  BY <1>3, DisconnectType DEF TypeOK, Leave, Goto, Stages, storeVars, feedVars
<1> QED
  BY <1>1, <1>2, <1>3

(* The directory of a controller.                                          *)
LEMMA DirectoryType ==
    ASSUME TypeOK, NEW c \in Conns,
           \/ Subscribe(c) \/ \E d \in Devices : StartEntry(c, d)
           \/ FinishEntry(c) \/ TakeEvent(c) \/ LoadEntry(c)
    PROVE TypeOK'
<1>1. CASE Subscribe(c)
  BY <1>1 DEF TypeOK, Subscribe, Goto, Stages, registryVars, storeVars, feedVars
<1>2. ASSUME NEW d \in Devices, StartEntry(c, d) PROVE TypeOK'
  BY <1>2 DEF TypeOK, StartEntry, Listed, registryVars, storeVars, feedVars
<1>3. CASE FinishEntry(c)
  BY <1>3 DEF TypeOK, FinishEntry, Online, Presences, registryVars, storeVars, feedVars
<1>4. CASE TakeEvent(c)
  <2>1. /\ Head(pending[c]) \in Devices /\ Tail(pending[c]) \in Seq(Devices)
        /\ Len(Tail(pending[c])) <= EventCap
    BY <1>4, SessionConstants DEF TypeOK, TakeEvent
  <2> QED
    BY <1>4, <2>1 DEF TypeOK, TakeEvent, registryVars, storeVars
<1>5. CASE LoadEntry(c)
  BY <1>5 DEF TypeOK, LoadEntry, Listed, registryVars, storeVars, feedVars
<1> QED
  BY <1>1, <1>2, <1>3, <1>4, <1>5

(* A manifest frame in the loop.                                           *)
LEMMA FrameType == ASSUME TypeOK, NEW c \in Conns, ManifestFrame(c) PROVE TypeOK'
<1>1. DeviceOf[c] \in Devices
  BY SessionConstants
<1>2. frames' \in [Conns -> 0..MaxFrames]
  BY SessionConstants DEF ManifestFrame, TypeOK
<1> QED
  BY <1>1, <1>2, PublishType DEF TypeOK, ManifestFrame, registryVars, storeVars, watchVars

(* Revocation and restart.                                                 *)
LEMMA OutsideType ==
    ASSUME TypeOK, Restart \/ \E d \in Devices : RevokeInStore(d) \/ RevokeInRegistry(d)
    PROVE TypeOK'
<1>1. ASSUME NEW d \in Devices, RevokeInStore(d) PROVE TypeOK'
  BY <1>1 DEF TypeOK, RevokeInStore, registryVars, feedVars, watchVars
<1>2. ASSUME NEW d \in Devices, RevokeInRegistry(d) PROVE TypeOK'
  BY <1>2 DEF TypeOK, RevokeInRegistry, feedVars, watchVars
<1>3. CASE Restart
  BY <1>3, SessionConstants DEF TypeOK, Restart, Stages
<1> QED
  BY <1>1, <1>2, <1>3

(* Every step keeps the types.                                             *)
LEMMA TypeStep == TypeOK /\ [Next]_vars => TypeOK'
<1>1. SUFFICES ASSUME TypeOK, [Next]_vars PROVE TypeOK'
  OBVIOUS
<1>2. ASSUME NEW c \in Conns,
             \/ Hello(c) \/ Refuse(c) \/ PublishRegistration(c) \/ SendRegistered(c)
             \/ SendSnapshot(c) \/ FinishScan(c) \/ PublishOffline(c)
      PROVE TypeOK'
  BY <1>1, <1>2, StageType DEF Hello, Refuse, PublishRegistration, SendRegistered, SendSnapshot,
     FinishScan, PublishOffline, Stages
<1>3. CASE UNCHANGED vars
  BY <1>1, <1>3 DEF TypeOK, vars, registryVars, storeVars, feedVars, watchVars
<1> QED
  BY <1>1, <1>2, <1>3, RegisterType, LeaveType, DirectoryType, FrameType, OutsideType
     DEF Next, OwnStep, LeaveLoop, LeaveReplaced, LeaveLagged

-----------------------------------------------------------------------------
(* The registry and the sessions *)

RegistryInv == ActiveInv /\ PreviousInv /\ OfflineInv

(* A step that leaves the registry alone and moves a session on, not back  *)
(* before its registration, keeps what is known of the registry.           *)
LEMMA MoveOn ==
    ASSUME Inv, UNCHANGED <<registryVars, previous>>,
           \A c \in Conns : \/ stage'[c] = stage[c]
                            \/ /\ stage[c] # "registered"
                               /\ stage[c] \in RegisteredStages => stage'[c] \in RegisteredStages
    PROVE RegistryInv'
<1>1. active' = active /\ offlines' = offlines /\ previous' = previous
  BY DEF registryVars
<1>2. ASSUME NEW c \in Conns, stage[c] \in RegisteredStages PROVE stage'[c] \in RegisteredStages
  BY <1>2
<1>3. ActiveInv'
  <2>1. ASSUME NEW d \in Devices, active[d] # NoConn
        PROVE DeviceOf[active[d]] = d /\ stage'[active[d]] \in RegisteredStages
    BY <1>2, <2>1 DEF Inv, TypeOK, ActiveInv
  <2> QED
    BY <1>1, <2>1 DEF ActiveInv
<1>4. PreviousInv'
  BY <1>1 DEF Inv, PreviousInv
<1>5. OfflineInv'
  BY <1>1, <1>2 DEF Inv, OfflineInv, IsActive
<1> QED
  BY <1>3, <1>4, <1>5 DEF RegistryInv

(* registry.register: the newcomer has never been offline, and whoever it  *)
(* replaced is not active any more.                                        *)
LEMMA RegisterInv == ASSUME Inv, NEW c \in Conns, Register(c) PROVE RegistryInv'
<1>1. /\ stage[c] = "stored" /\ offlines' = offlines
      /\ stage' = [stage EXCEPT ![c] = "registered"]
      /\ active' = [active EXCEPT ![DeviceOf[c]] = c]
      /\ previous' = [previous EXCEPT ![c] = active[DeviceOf[c]]]
  BY DEF Register, Goto
<1>2. DeviceOf[c] \in Devices /\ c # NoConn
  BY SessionConstants
<1>3. stage \in [Conns -> Stages] /\ active \in [Devices -> Conns \cup {NoConn}]
      /\ previous \in [Conns -> Conns \cup {NoConn}] /\ offlines \in [Conns -> Nat]
  BY DEF Inv, TypeOK
<1>4. \A k \in Conns : stage[k] \in RegisteredStages => stage'[k] \in RegisteredStages
  BY <1>1, <1>3 DEF RegisteredStages
<1>5. ActiveInv'
  <2>1. ASSUME NEW d \in Devices, active'[d] # NoConn
        PROVE DeviceOf[active'[d]] = d /\ stage'[active'[d]] \in RegisteredStages
    <3>1. CASE d = DeviceOf[c]
      BY <1>1, <1>2, <1>3, <3>1 DEF RegisteredStages
    <3>2. CASE d # DeviceOf[c]
      BY <1>1, <1>2, <1>3, <1>4, <2>1, <3>2 DEF Inv, ActiveInv
    <3> QED
      BY <3>1, <3>2
  <2> QED
    BY <2>1 DEF ActiveInv
<1>6. PreviousInv'
  BY <1>1, <1>3 DEF Inv, PreviousInv
<1>7. OfflineInv'
  <2>1. offlines[c] # 1
    BY <1>1 DEF Inv, OfflineInv, RegisteredStages
  <2>2. ASSUME NEW k \in Conns
        PROVE /\ offlines'[k] <= 1
              /\ offlines'[k] = 1 => active'[DeviceOf[k]] # k /\ stage'[k] \in RegisteredStages
    BY <1>1, <1>3, <1>4, <2>1, SessionConstants DEF Inv, OfflineInv, IsActive
  <2> QED
    BY <2>2 DEF OfflineInv, IsActive
<1> QED
  BY <1>5, <1>6, <1>7 DEF RegistryInv

(* The replaced generation is cleaned up.                                  *)
LEMMA CleanInv == ASSUME Inv, NEW c \in Conns, CleanPrevious(c) PROVE RegistryInv'
<1>1. /\ active' = active /\ offlines' = offlines
      /\ stage' = [stage EXCEPT ![c] = "cleaned"]
      /\ previous' = [previous EXCEPT ![c] = NoConn]
  BY DEF CleanPrevious, Goto, registryVars
<1>2. stage \in [Conns -> Stages] /\ active \in [Devices -> Conns \cup {NoConn}]
      /\ previous \in [Conns -> Conns \cup {NoConn}]
  BY DEF Inv, TypeOK
<1>3. \A k \in Conns : stage[k] \in RegisteredStages => stage'[k] \in RegisteredStages
  BY <1>1, <1>2 DEF RegisteredStages
<1>4. ActiveInv'
  BY <1>1, <1>2, <1>3 DEF Inv, ActiveInv
<1>5. PreviousInv'
  BY <1>1, <1>2 DEF Inv, PreviousInv
<1>6. OfflineInv'
  BY <1>1, <1>3 DEF Inv, OfflineInv, IsActive
<1> QED
  BY <1>4, <1>5, <1>6 DEF RegistryInv

(* registry.disconnect at the end of a session: an entry that is removed   *)
(* was its own, and it had not been reported before.                       *)
LEMMA DisconnectInv ==
    ASSUME Inv, NEW c \in Conns, Disconnect(c), UNCHANGED previous,
           stage[c] \in RegisteredStages \ {"registered"}, NEW s \in RegisteredStages, Goto(c, s)
    PROVE RegistryInv'
<1>1. /\ active' = [d \in Devices |-> IF active[d] = c THEN NoConn ELSE active[d]]
      /\ offlines' = [offlines EXCEPT ![c] = IF IsActive(c) THEN @ + 1 ELSE @]
      /\ stage' = [stage EXCEPT ![c] = s]
  BY DEF Disconnect, Goto
<1>2. /\ stage \in [Conns -> Stages] /\ active \in [Devices -> Conns \cup {NoConn}]
      /\ offlines \in [Conns -> Nat]
  BY DEF Inv, TypeOK
<1>3. \A k \in Conns : stage[k] \in RegisteredStages => stage'[k] \in RegisteredStages
  BY <1>1, <1>2
<1>4. ActiveInv'
  BY <1>1, <1>2, <1>3 DEF Inv, ActiveInv
<1>5. PreviousInv'
  BY <1>1, <1>2 DEF Inv, PreviousInv
<1>6. OfflineInv'
  <2>1. ASSUME NEW k \in Conns
        PROVE /\ offlines'[k] <= 1
              /\ offlines'[k] = 1 => active'[DeviceOf[k]] # k /\ stage'[k] \in RegisteredStages
    <3>1. DeviceOf[k] \in Devices /\ k # NoConn
      BY SessionConstants
    <3>2. CASE k = c /\ IsActive(c)
      BY <1>1, <1>2, <3>1, <3>2 DEF Inv, OfflineInv, IsActive
    <3>3. CASE ~(k = c /\ IsActive(c))
      BY <1>1, <1>2, <1>3, <3>1, <3>3 DEF Inv, OfflineInv, IsActive
    <3> QED
      BY <3>2, <3>3
  <2> QED
    BY <2>1 DEF OfflineInv, IsActive
<1> QED
  BY <1>4, <1>5, <1>6 DEF RegistryInv

(* registry.revoke removes the active generation, whichever it is, and     *)
(* reports it.                                                             *)
LEMMA RevokeInv == ASSUME Inv, NEW d \in Devices, RevokeInRegistry(d) PROVE RegistryInv'
<1>1. /\ active' = [active EXCEPT ![d] = NoConn]
      /\ offlines' = [c \in Conns |-> IF active[d] = c THEN offlines[c] + 1 ELSE offlines[c]]
      /\ stage' = stage /\ previous' = previous
  BY DEF RevokeInRegistry
<1>2. /\ stage \in [Conns -> Stages] /\ active \in [Devices -> Conns \cup {NoConn}]
      /\ offlines \in [Conns -> Nat]
  BY DEF Inv, TypeOK
<1>3. ActiveInv'
  BY <1>1, <1>2 DEF Inv, ActiveInv
<1>4. PreviousInv'
  BY <1>1 DEF Inv, PreviousInv
<1>5. OfflineInv'
  <2>1. ASSUME NEW k \in Conns
        PROVE /\ offlines'[k] <= 1
              /\ offlines'[k] = 1 => active'[DeviceOf[k]] # k /\ stage'[k] \in RegisteredStages
    <3>1. DeviceOf[k] \in Devices /\ k # NoConn
      BY SessionConstants
    <3>2. CASE active[d] = k
      <4>1. DeviceOf[k] = d /\ stage[k] \in RegisteredStages
        BY <3>1, <3>2 DEF Inv, ActiveInv
      <4> QED
        BY <1>1, <1>2, <3>1, <3>2, <4>1 DEF Inv, OfflineInv, IsActive
    <3>3. CASE active[d] # k
      BY <1>1, <1>2, <3>1, <3>3 DEF Inv, OfflineInv, IsActive
    <3> QED
      BY <3>2, <3>3
  <2> QED
    BY <2>1 DEF OfflineInv, IsActive
<1> QED
  BY <1>3, <1>4, <1>5 DEF RegistryInv

(* After a restart nothing is registered, and sessions that had begun are  *)
(* over.                                                                   *)
LEMMA RestartInv == Inv /\ Restart => RegistryInv'
<1>1. SUFFICES ASSUME Inv, Restart PROVE RegistryInv'
  OBVIOUS
<1>2. /\ active' = [d \in Devices |-> NoConn] /\ previous' = [c \in Conns |-> NoConn]
      /\ offlines' = offlines
  BY <1>1 DEF Restart
<1>3. \A c \in Conns : stage[c] \in RegisteredStages => stage'[c] \in RegisteredStages
  BY <1>1 DEF Restart, RegisteredStages
<1>4. ActiveInv' /\ PreviousInv'
  BY <1>2 DEF ActiveInv, PreviousInv
<1>5. OfflineInv'
  BY <1>1, <1>2, <1>3, SessionConstants DEF Inv, OfflineInv, IsActive
<1> QED
  BY <1>4, <1>5 DEF RegistryInv

(* Every step keeps the invariant.                                         *)
LEMMA InvStep == Inv /\ [Next]_vars => Inv'
<1>1. SUFFICES ASSUME Inv, [Next]_vars PROVE RegistryInv'
  BY TypeStep DEF Inv, RegistryInv
<1>2. stage \in [Conns -> Stages]
  BY <1>1 DEF Inv, TypeOK
<1>3. ASSUME NEW c \in Conns, NEW s, Goto(c, s), UNCHANGED <<registryVars, previous>>,
             stage[c] # "registered",
             stage[c] \in RegisteredStages => s \in RegisteredStages
      PROVE RegistryInv'
  <2>1. \A k \in Conns : \/ stage'[k] = stage[k]
                         \/ /\ stage[k] # "registered"
                            /\ stage[k] \in RegisteredStages => stage'[k] \in RegisteredStages
    BY <1>2, <1>3 DEF Goto
  <2> QED
    BY <1>1, <1>3, <2>1, MoveOn
<1>4. ASSUME NEW c \in Conns, Hello(c) \/ Refuse(c) \/ StoreManifest(c) PROVE RegistryInv'
  BY <1>3, <1>4 DEF Hello, Refuse, StoreManifest, RegisteredStages
<1>5. ASSUME NEW c \in Conns, PublishRegistration(c) \/ SendRegistered(c) \/ Subscribe(c)
      PROVE RegistryInv'
  BY <1>3, <1>5 DEF PublishRegistration, SendRegistered, Subscribe, RegisteredStages
<1>6. ASSUME NEW c \in Conns,
             SendSnapshot(c) \/ AbandonRegistration(c) \/ FinishScan(c) \/ PublishOffline(c)
      PROVE RegistryInv'
  BY <1>3, <1>6 DEF SendSnapshot, AbandonRegistration, FinishScan, PublishOffline, RegisteredStages
<1>7. ASSUME UNCHANGED <<registryVars, stage, previous>> PROVE RegistryInv'
  BY <1>1, <1>7, MoveOn
<1>8. ASSUME NEW c \in Conns,
             \/ \E d \in Devices : StartEntry(c, d)
             \/ FinishEntry(c) \/ TakeEvent(c) \/ LoadEntry(c) \/ ManifestFrame(c)
      PROVE RegistryInv'
  BY <1>7, <1>8 DEF StartEntry, FinishEntry, TakeEvent, LoadEntry, ManifestFrame
<1>9. ASSUME NEW c \in Conns, AbortRegistration(c) PROVE RegistryInv'
  BY <1>1, <1>9, DisconnectInv DEF AbortRegistration, RegisteredStages
<1>10. ASSUME NEW c \in Conns, LeaveLoop(c) \/ LeaveReplaced(c) \/ LeaveLagged(c)
       PROVE RegistryInv'
  <2>1. /\ stage[c] = "loop" /\ Disconnect(c) /\ UNCHANGED previous
        /\ Goto(c, IF IsActive(c) THEN "leaving" ELSE "ended")
    BY <1>10 DEF LeaveLoop, LeaveReplaced, LeaveLagged, Idle, Leave
  <2> QED
    BY <1>1, <2>1, DisconnectInv DEF RegisteredStages
<1>11. ASSUME NEW d \in Devices, RevokeInStore(d) PROVE RegistryInv'
  BY <1>7, <1>11 DEF RevokeInStore
<1>12. CASE UNCHANGED vars
  BY <1>7, <1>12 DEF vars
<1> QED
  BY <1>1, <1>4, <1>5, <1>6, <1>8, <1>9, <1>10, <1>11, <1>12, RegisterInv, CleanInv, RevokeInv,
     RestartInv DEF Next, OwnStep

(* The invariant holds in every reachable state.                           *)
LEMMA SessionInvariant == Spec => []Inv
BY InitInv, InvStep, PTL DEF Spec

(* The types of the sessions, the registry and the directory feeds; in     *)
(* particular no event queue outgrows the channel of the hub.              *)
THEOREM SessionTypes == Spec => []TypeOK
<1>1. Inv => TypeOK
  BY DEF Inv
<1> QED
  BY SessionInvariant, <1>1, PTL

(* disconnect, revoke and register: of each generation at most one offline *)
(* event is emitted, and none while it is active.                          *)
THEOREM NeverOfflineTwice == Spec => []OfflineAtMostOnce
<1>1. Inv => OfflineAtMostOnce
  <2>1. SUFFICES ASSUME Inv, NEW c \in Conns
                 PROVE /\ offlines[c] <= 1
                       /\ offlines[c] = 1 => ~IsActive(c) /\ Registry!Registered(c)
    BY DEF OfflineAtMostOnce
  <2>2. stage[c] \in RegisteredStages => Registry!Registered(c)
    BY DEF Registry!Registered, SessOf, RegisteredStages
  <2> QED
    BY <2>1, <2>2 DEF Inv, OfflineInv
<1> QED
  BY SessionInvariant, <1>1, PTL

-----------------------------------------------------------------------------
(* The sessions implement ConnectionRegistry *)

Sess == [c \in Conns |-> SessOf(c)]
Cleaning == [c \in Conns |-> IF stage[c] = "leaving" THEN c ELSE previous[c]]

(* A step that moves one session, and with it perhaps what the router sees *)
(* of it.                                                                  *)
LEMMA SessMoves ==
    ASSUME TypeOK, NEW c \in Conns, NEW s \in Stages, Goto(c, s)
    PROVE /\ \A k \in Conns \ {c} : Sess'[k] = Sess[k]
          /\ \A k \in Conns \ {c} : previous'[k] = previous[k] => Cleaning'[k] = Cleaning[k]
          /\ stage'[c] = s
<1>1. stage' = [stage EXCEPT ![c] = s] /\ stage \in [Conns -> Stages]
  BY DEF Goto, TypeOK
<1>2. \A k \in Conns \ {c} : stage'[k] = stage[k]
  BY <1>1
<1>3. \A k \in Conns \ {c} : Sess'[k] = Sess[k]
  BY <1>2 DEF Sess, SessOf
<1>4. \A k \in Conns \ {c} : previous'[k] = previous[k] => Cleaning'[k] = Cleaning[k]
  BY <1>2 DEF Cleaning
<1> QED
  BY <1>1, <1>3, <1>4

(* A step of a session that the router does not see.                       *)
LEMMA Unseen ==
    ASSUME TypeOK, NEW c \in Conns, NEW s \in Stages, Goto(c, s),
           UNCHANGED <<active, previous, revoked, revoking>>,
           \/ {stage[c], s} \subseteq {"new", "welcomed", "refused"}
           \/ {stage[c], s} \subseteq {"registered", "cleaned", "published", "ready", "snapshot"}
           \/ {stage[c], s} \subseteq {"left", "ended"}
    PROVE UNCHANGED <<active, Sess, Cleaning, revoked, revoking>>
<1>1. Sess'[c] = Sess[c] /\ Cleaning'[c] = Cleaning[c]
  BY SessMoves DEF Sess, SessOf, Cleaning
<1>2. Sess' = Sess /\ Cleaning' = Cleaning
  BY <1>1, SessMoves DEF Sess, Cleaning
<1> QED
  BY <1>2

(* The initial states are initial states of the registry.                  *)
LEMMA RegistryInit == Init => Registry!RegInit
BY DEF Init, Registry!RegInit, SessOf

(* Registration, as the router assumes it: admitted, registered, cleaned.  *)
LEMMA RegistrationRefines ==
    ASSUME Inv, NEW c \in Conns, StoreManifest(c) \/ Register(c) \/ CleanPrevious(c)
    PROVE [Registry!RegNext]_(Registry!regVars)
<1>1. stage \in [Conns -> Stages] /\ previous \in [Conns -> Conns \cup {NoConn}] /\ c # NoConn
  BY SessionConstants DEF Inv, TypeOK
<1>2. CASE StoreManifest(c)
  <2>1. Sess' = [Sess EXCEPT ![c] = "admitted"] /\ Sess[c] = "new" /\ Cleaning' = Cleaning
    <3>1. /\ stage[c] = "welcomed" /\ stage' = [stage EXCEPT ![c] = "stored"]
          /\ previous' = previous
      BY <1>2 DEF StoreManifest, Goto
    <3>2. Sess[c] = "new" /\ Sess'[c] = "admitted" /\ Cleaning'[c] = Cleaning[c]
      BY <1>1, <3>1 DEF Sess, SessOf, Cleaning
    <3>3. \A k \in Conns \ {c} : Sess'[k] = Sess[k] /\ Cleaning'[k] = Cleaning[k]
      BY <1>1, <3>1 DEF Sess, SessOf, Cleaning
    <3>4. Sess' = [Sess EXCEPT ![c] = "admitted"]
      BY <3>2, <3>3 DEF Sess
    <3>5. Cleaning' = Cleaning
      BY <3>2, <3>3 DEF Cleaning
    <3> QED
      BY <3>2, <3>4, <3>5
  <2>2. Registry!Admit(c)
    BY <1>2, <2>1 DEF Registry!Admit, StoreManifest, Sess, Cleaning, registryVars
  <2> QED
    BY <2>2 DEF Registry!RegNext
<1>3. CASE Register(c)
  <2>1. Sess' = [Sess EXCEPT ![c] = "starting"] /\ Sess[c] = "admitted"
    <3>1. stage[c] = "stored" /\ stage' = [stage EXCEPT ![c] = "registered"]
      BY <1>3 DEF Register, Goto
    <3>2. Sess[c] = "admitted" /\ Sess'[c] = "starting"
      BY <1>1, <3>1 DEF Sess, SessOf
    <3>3. \A k \in Conns \ {c} : Sess'[k] = Sess[k]
      BY <1>1, <3>1 DEF Sess, SessOf
    <3> QED
      BY <3>2, <3>3 DEF Sess
  <2>2. Cleaning' = [Cleaning EXCEPT ![c] = active[DeviceOf[c]]]
    BY <1>1, <1>3, SessMoves DEF Inv, Register, Cleaning, Stages
  <2>3. Registry!Register(c)
    BY <1>3, <2>1, <2>2 DEF Registry!Register, Register, Sess, Cleaning, storeVars
  <2> QED
    BY <2>3 DEF Registry!RegNext
<1>4. CASE CleanPrevious(c)
  <2>1. Sess' = Sess
    BY <1>1, <1>4, SessMoves DEF Inv, CleanPrevious, Sess, SessOf, Stages
  <2>2. Cleaning' = [Cleaning EXCEPT ![c] = NoConn] /\ Cleaning[c] = previous[c]
    BY <1>1, <1>4, SessMoves DEF Inv, CleanPrevious, Cleaning, Stages
  <2>3. UNCHANGED <<active, revoked, revoking>>
    BY <1>4 DEF CleanPrevious, registryVars, storeVars
  <2>4. CASE previous[c] # NoConn
    <3>1. Registry!Cleaned(c)
      BY <2>1, <2>2, <2>3, <2>4 DEF Registry!Cleaned, Sess, Cleaning
    <3> QED
      BY <3>1 DEF Registry!RegNext
  <2>5. CASE previous[c] = NoConn
    <3>1. Cleaning' = Cleaning
      BY <2>2, <2>5 DEF Cleaning
    <3> QED
      BY <2>1, <2>3, <3>1 DEF Registry!regVars, Sess, Cleaning
  <2> QED
    BY <2>4, <2>5
<1> QED
  BY <1>2, <1>3, <1>4

(* The end of the handshake: into the loop, or out of it.                  *)
LEMMA HandshakeRefines ==
    ASSUME Inv, NEW c \in Conns,
           Subscribe(c) \/ SendSnapshot(c) \/ AbortRegistration(c) \/ AbandonRegistration(c)
    PROVE [Registry!RegNext]_(Registry!regVars)
<1>1. /\ stage \in [Conns -> Stages] /\ c # NoConn
      /\ active \in [Devices -> Conns \cup {NoConn}] /\ DeviceOf[c] \in Devices
  BY SessionConstants DEF Inv, TypeOK
<1>2. stage[c] \in {"ready", "snapshot", "published"} /\ previous' = previous
  BY DEF Subscribe, SendSnapshot, AbortRegistration, AbandonRegistration
<1>3. Sess[c] = "starting" /\ Cleaning[c] = NoConn
  BY <1>2 DEF Inv, PreviousInv, Sess, SessOf, Cleaning
<1>4. ASSUME NEW s \in {"loop", "ended"}, Goto(c, s)
      PROVE Sess' = [Sess EXCEPT ![c] = s] /\ Cleaning' = Cleaning
  <2>1. s \in Stages
    BY DEF Stages
  <2>2. Sess'[c] = s /\ Cleaning'[c] = Cleaning[c]
    BY <1>2, <1>4, <2>1, SessMoves DEF Inv, Sess, SessOf, Cleaning
  <2>3. \A k \in Conns \ {c} : Sess'[k] = Sess[k] /\ Cleaning'[k] = Cleaning[k]
    BY <1>2, <1>4, <2>1, SessMoves DEF Inv
  <2>4. Sess' = [Sess EXCEPT ![c] = s]
    BY <2>2, <2>3 DEF Sess
  <2>5. Cleaning' = Cleaning
    BY <2>2, <2>3 DEF Cleaning
  <2> QED
    BY <2>4, <2>5
<1>5. ASSUME Goto(c, "loop"), UNCHANGED <<active, revoked, revoking>>
      PROVE [Registry!RegNext]_(Registry!regVars)
  <2>1. Registry!EnterLoop(c)
    BY <1>3, <1>4, <1>5 DEF Registry!EnterLoop, Sess, Cleaning
  <2> QED
    BY <2>1 DEF Registry!RegNext
<1>6. CASE Subscribe(c) /\ c \in Watchers
  <2>1. UNCHANGED <<active, Sess, Cleaning, revoked, revoking>>
    BY <1>6, Unseen DEF Inv, Subscribe, registryVars, storeVars, Stages
  <2> QED
    BY <2>1 DEF Registry!regVars, Sess, Cleaning
<1>7. CASE Subscribe(c) /\ c \notin Watchers
  BY <1>5, <1>7 DEF Subscribe, registryVars, storeVars
<1>8. CASE SendSnapshot(c)
  BY <1>5, <1>8 DEF SendSnapshot, registryVars, storeVars
<1>9. CASE AbortRegistration(c)
  <2>1. active' = [d \in Devices |-> IF d = DeviceOf[c] /\ Registry!IsActive(c) THEN NoConn ELSE active[d]]
    BY <1>1, <1>9 DEF Inv, ActiveInv, AbortRegistration, Disconnect, Registry!IsActive
  <2>2. Registry!AbortRegistration(c)
    BY <1>3, <1>4, <1>9, <2>1 DEF Registry!AbortRegistration, Registry!RemoveOwn, AbortRegistration,
       Sess, Cleaning, storeVars
  <2> QED
    BY <2>2 DEF Registry!RegNext
<1>10. CASE AbandonRegistration(c)
  <2>1. Registry!AbandonRegistration(c)
    BY <1>3, <1>4, <1>10 DEF Registry!AbandonRegistration, AbandonRegistration, Sess, Cleaning,
       registryVars, storeVars
  <2> QED
    BY <2>1 DEF Registry!RegNext
<1> QED
  BY <1>6, <1>7, <1>8, <1>9, <1>10

(* The end of a session: only one that was still active goes on to call    *)
(* commands.disconnected for itself.                                       *)
LEMMA LeaveRefines ==
    ASSUME Inv, NEW c \in Conns, (stage[c] = "loop" /\ Leave(c)) \/ FinishScan(c)
    PROVE [Registry!RegNext]_(Registry!regVars)
<1>1. /\ stage \in [Conns -> Stages] /\ c # NoConn
      /\ active \in [Devices -> Conns \cup {NoConn}] /\ DeviceOf[c] \in Devices
  BY SessionConstants DEF Inv, TypeOK
<1>2. previous[c] = NoConn /\ previous' = previous /\ UNCHANGED <<revoked, revoking>>
  BY DEF Inv, PreviousInv, Leave, FinishScan, storeVars
<1>3. CASE stage[c] = "loop" /\ Leave(c)
  <2>1. PICK s \in {"leaving", "ended"} : s = (IF IsActive(c) THEN "leaving" ELSE "ended") /\ Goto(c, s)
    BY <1>3 DEF Leave
  <2>2. Sess[c] = "loop" /\ Cleaning[c] = NoConn
    BY <1>2, <1>3 DEF Sess, SessOf, Cleaning
  <2>3. Sess'[c] = "ended" /\ Cleaning'[c] = IF IsActive(c) THEN c ELSE NoConn
    BY <1>2, <2>1, SessMoves DEF Inv, Sess, SessOf, Cleaning, Stages
  <2>4. Sess' = [Sess EXCEPT ![c] = "ended"]
    BY <2>1, <2>3, SessMoves DEF Inv, Sess, Stages
  <2>5. Cleaning' = [Cleaning EXCEPT ![c] = IF IsActive(c) THEN c ELSE @]
    BY <1>2, <2>1, <2>2, <2>3, SessMoves DEF Inv, Cleaning, Stages
  <2>6. active' = [d \in Devices |-> IF d = DeviceOf[c] /\ IsActive(c) THEN NoConn ELSE active[d]]
    BY <1>1, <1>3 DEF Inv, ActiveInv, Leave, Disconnect, IsActive
  <2>7. Registry!EndLoop(c)
    BY <1>2, <2>2, <2>4, <2>5, <2>6 DEF Registry!EndLoop, Registry!RemoveOwn, Registry!IsActive,
       IsActive, Sess, Cleaning
  <2> QED
    BY <2>7 DEF Registry!RegNext
<1>4. CASE FinishScan(c)
  <2>1. stage[c] = "leaving" /\ Goto(c, "left") /\ active' = active
    BY <1>4 DEF FinishScan, registryVars
  <2>2. Sess' = Sess
    BY <2>1, SessMoves DEF Inv, Sess, SessOf, Stages
  <2>3. Cleaning[c] # NoConn /\ Cleaning' = [Cleaning EXCEPT ![c] = NoConn]
    <3>1. stage'[c] = "left" /\ \A k \in Conns \ {c} : Cleaning'[k] = Cleaning[k]
      BY <1>2, <2>1, SessMoves DEF Inv, Stages
    <3>2. Cleaning[c] = c /\ Cleaning'[c] = NoConn
      BY <1>2, <2>1, <3>1 DEF Cleaning
    <3>3. Cleaning' = [Cleaning EXCEPT ![c] = NoConn]
      BY <3>1, <3>2 DEF Cleaning
    <3> QED
      BY <1>1, <3>2, <3>3
  <2>4. Registry!Cleaned(c)
    BY <1>2, <2>1, <2>2, <2>3 DEF Registry!Cleaned, Sess, Cleaning
  <2> QED
    BY <2>4 DEF Registry!RegNext
<1> QED
  BY <1>3, <1>4

(* Revocation and restart are those of the registry.                       *)
LEMMA OutsideRefines ==
    ASSUME Inv, Restart \/ \E d \in Devices : RevokeInStore(d) \/ RevokeInRegistry(d)
    PROVE Registry!RegNext
<1>1. ASSUME NEW d \in Devices, RevokeInStore(d) PROVE Registry!RegNext
  <2>1. Registry!RevokeInStore(d)
    BY <1>1 DEF RevokeInStore, Registry!RevokeInStore, registryVars, SessOf
  <2> QED
    BY <2>1 DEF Registry!RegNext
<1>2. ASSUME NEW d \in Devices, RevokeInRegistry(d) PROVE Registry!RegNext
  <2>1. Registry!RevokeInRegistry(d)
    BY <1>2 DEF RevokeInRegistry, Registry!RevokeInRegistry, SessOf
  <2> QED
    BY <2>1 DEF Registry!RegNext
<1>3. CASE Restart
  <2>1. Sess' = [c \in Conns |-> IF Sess[c] = "new" THEN "new" ELSE "ended"]
    <3>1. ASSUME NEW c \in Conns PROVE Sess'[c] = IF Sess[c] = "new" THEN "new" ELSE "ended"
      BY <1>3 DEF Inv, TypeOK, Stages, Restart, Sess, SessOf
    <3> QED
      BY <3>1 DEF Sess
  <2>2. Cleaning' = [c \in Conns |-> NoConn]
    BY <1>3 DEF Restart, Cleaning
  <2>3. Registry!RegRestart
    BY <1>3, <2>1, <2>2 DEF Restart, Registry!RegRestart, Sess, Cleaning
  <2> QED
    BY <2>3 DEF Registry!RegNext
<1> QED
  BY <1>1, <1>2, <1>3

(* Every step of the sessions is a step of the registry or unseen.         *)
LEMMA StepRefines == Inv /\ [Next]_vars => [Registry!RegNext]_(Registry!regVars)
<1>1. SUFFICES ASSUME Inv, [Next]_vars PROVE [Registry!RegNext]_(Registry!regVars)
  OBVIOUS
<1>2. ASSUME UNCHANGED <<active, Sess, Cleaning, revoked, revoking>>
      PROVE [Registry!RegNext]_(Registry!regVars)
  BY <1>2 DEF Registry!regVars, Sess, Cleaning
<1>3. ASSUME NEW c \in Conns,
             \/ Hello(c) \/ Refuse(c) \/ PublishRegistration(c) \/ SendRegistered(c)
             \/ PublishOffline(c)
      PROVE [Registry!RegNext]_(Registry!regVars)
  BY <1>1, <1>2, <1>3, Unseen DEF Inv, Hello, Refuse, PublishRegistration, SendRegistered,
     PublishOffline, registryVars, storeVars, Stages
<1>4. ASSUME UNCHANGED <<active, stage, previous, revoked, revoking>>
      PROVE [Registry!RegNext]_(Registry!regVars)
  BY <1>2, <1>4 DEF Sess, SessOf, Cleaning
<1>5. ASSUME NEW c \in Conns,
             \/ \E d \in Devices : StartEntry(c, d)
             \/ FinishEntry(c) \/ TakeEvent(c) \/ LoadEntry(c) \/ ManifestFrame(c)
      PROVE [Registry!RegNext]_(Registry!regVars)
  BY <1>4, <1>5 DEF StartEntry, FinishEntry, TakeEvent, LoadEntry, ManifestFrame, registryVars,
     storeVars
<1>6. ASSUME NEW c \in Conns, LeaveLoop(c) \/ LeaveReplaced(c) \/ LeaveLagged(c)
      PROVE [Registry!RegNext]_(Registry!regVars)
  BY <1>1, <1>6, LeaveRefines DEF LeaveLoop, LeaveReplaced, LeaveLagged, Idle
<1>7. CASE UNCHANGED vars
  BY <1>4, <1>7 DEF vars, registryVars, storeVars
<1> QED
  BY <1>1, <1>3, <1>5, <1>6, <1>7, RegistrationRefines, HandshakeRefines, LeaveRefines,
     OutsideRefines DEF Next, OwnStep

(* run() with the registry behaves as ConnectionRegistry, the part of it   *)
(* that the command router is proved against.                              *)
THEOREM SessionImplementsRegistry == Spec => ImplementsRegistry
BY SessionInvariant, RegistryInit, StepRefines, PTL DEF Spec, ImplementsRegistry, Registry!RegSpec
=============================================================================
