------------------------ MODULE CommandRouter_proofs ------------------------
(***************************************************************************)
(* The theorems about CommandRouter.  CommandRouter_steps has the          *)
(* inductive invariant and the actions that concern commands in progress;  *)
(* here are the reservation, the ageing of records, the restart, the       *)
(* invariance theorem and what follows from it, the refinement of          *)
(* CommandLifecycle and the limit of a connection included.                *)
(***************************************************************************)
EXTENDS CommandRouter_steps, FiniteSetTheorems

USE RouterAssumption, DeviceOfAssumption, NoConnAssumption

(* The provers of a step, unless it names one, and their time.             *)
USE ZenonT(5), SMTT(30)

(* A reservation is accepted only when nothing works on the command.       *)
LEMMA ReserveInsertStep ==
  ASSUME IInv, NEW k \in Calls, pc[k] = "reserve", NEW label \in {"capacity", "done"},
         NEW owned \in BOOLEAN,
         ReserveOutcome(row[req[k].cmd], owned, req[k].target, req[k].body)
            = "accepted",
         Goto(k, label),
         row' = [row EXCEPT ![req[k].cmd] = NewRow(req[k].target, req[k].body)],
         told' = [c \in Conns |-> {frame \in told[c] : frame.cmd # req[k].cmd}],
         deliveries' = [deliveries EXCEPT ![req[k].cmd] = 0],
         UNCHANGED <<regVars, inFlight, fin, timer, todo, queued, restarts>>
  PROVE  IInv'
<1> USE DEF IInv
<1> DEFINE m == req[k].cmd
           new == NewRow(req[k].target, req[k].body)
<1>a. m \in Cmds /\ req[k].target \in Devices /\ req[k].body \in Bodies
  BY FieldTypes
<1>1b. new.fresh
  BY Zenon DEF NewRow
<1>2b. new \in Row
  BY <1>a, ResultFacts DEF NewRow, Row
<1>3b. /\ new.target = req[k].target /\ new.body = req[k].body
       /\ new.status = "reserved"
  BY DEF NewRow
<1>b. /\ new \in Row /\ new # NoRow /\ new.target = req[k].target
      /\ new.body = req[k].body /\ new.status = "reserved" /\ new.fresh
  BY <1>1b, <1>2b, <1>3b
<1>c. row' = [row EXCEPT ![m] = new]
  OBVIOUS
<1>d. ~Live(m)
  BY DEF ReserveOutcome, Terminal, Live
<1>e. /\ told' \in [Conns -> SUBSET Frame]
      /\ \A e \in Conns : told'[e] = {frame \in told[e] : frame.cmd # m}
  BY DEF TypeOK
<1>u. /\ \A e \in Conns, n \in Cmds, r \in Results :
           ResultFrame(n, r) \in told'[e] <=> ResultFrame(n, r) \in told[e] /\ n # m
      /\ \A e \in Conns, n \in Cmds :
           /\ ReceivedFrame(n) \in told'[e] <=> ReceivedFrame(n) \in told[e] /\ n # m
           /\ AcceptedFrame(n) \in told'[e] <=> AcceptedFrame(n) \in told[e] /\ n # m
  BY ZenonT(40), <1>e, FrameFacts
<1> HIDE DEF m, new
<1>f. /\ pc' = [pc EXCEPT ![k] = label] /\ UNCHANGED <<req, bound, loaded>>
      /\ UNCHANGED <<regVars, inFlight, fin, timer, todo, queued, restarts>>
      /\ deliveries' = [deliveries EXCEPT ![m] = 0]
      /\ m = req[k].cmd
  BY DEF Goto, m
<1>1. TypeOK'
  BY <1>a, <1>b, <1>c, <1>e, <1>f, SMTT(30) DEF TypeOK, RegTypeOK, Goto, regVars, CallPCs
<1>2. InvRouted'
  BY <1>f, ZenonT(40) DEF TypeOK, InvRouted, Routed, Registered, regVars
<1>3. InvSubmit'
  BY <1>a, <1>b, <1>c, <1>d, <1>f, SMTT(30) DEF TypeOK, InvSubmit, Submitting, Live
<1>4. InvInsert'
  BY <1>a, <1>b, <1>c, <1>d, <1>f, SMTT(30)
    DEF TypeOK, InvInsert, Inserting, InvSubmit, Submitting, InvEntry, InvFin,
      Live
<1>5. InvBound'
  BY <1>a, <1>d, <1>f, SMTT(30) DEF TypeOK, InvBound, InvEntry, Submitting, Inserting, IsActive, Live, regVars
<1>6. InvNotified'
  <2> SUFFICES ASSUME NEW j \in Calls, pc'[j] \in {"resolve", "dispatch"}
               PROVE  ReceivedFrame(req[j].cmd) \in told'[req[j].ctl]
    BY <1>f DEF InvNotified, Notified
  <2>1. j # k /\ pc[j] = pc'[j]
    BY <1>f DEF TypeOK
  <2>2. req[j].cmd \in Cmds /\ req[j].ctl \in Conns
    BY ZenonT(40), <2>1, FieldTypes
  <2>3. Submitting(j, req[j].cmd)
    BY <2>1 DEF Submitting
  <2>4. req[j].cmd # m
    BY <1>d, <2>2, <2>3, SMTT(30) DEF InvSubmit
  <2>5. ReceivedFrame(req[j].cmd) \in told[req[j].ctl]
    BY <2>1 DEF InvNotified, Notified
  <2> QED BY <1>u, <2>2, <2>4, <2>5
<1>7. InvEntry'
  <2> SUFFICES ASSUME NEW n \in Cmds, inFlight[n] # NoEntry
               PROVE  /\ Live(n)' /\ row'[n].status = "reserved"
                      /\ row'[n].target = DeviceOf[inFlight[n].tgt]
                      /\ Registered(inFlight[n].tgt)'
                      /\ deliveries'[n] > 0 => ReceivedFrame(n) \in told'[inFlight[n].ctl]
    BY <1>f, ZenonT(40) DEF InvEntry, Registered, regVars
  <2>1. n # m
    BY <1>d DEF InvEntry
  <2>2. row'[n] = row[n] /\ deliveries'[n] = deliveries[n] /\ sess' = sess
    BY <1>c, <1>f, <2>1 DEF TypeOK, regVars
  <2>3. inFlight[n].ctl \in Conns
    BY FieldTypes
  <2>4. ReceivedFrame(n) \in told[inFlight[n].ctl] => ReceivedFrame(n) \in told'[inFlight[n].ctl]
    BY <1>u, <2>1, <2>3
  <2> QED BY <1>f, <2>2, <2>4, SMTT(30) DEF InvEntry, Live, Registered
<1>8. InvFin'
  <2>1. ASSUME NEW f \in fin
        PROVE  f.cmd \in Cmds /\ f.cmd # m /\ row'[f.cmd] = row[f.cmd]
    BY <1>a, <1>c, <1>d, FieldTypes, SMTT(30) DEF TypeOK, InvFin
  <2> QED BY <1>f, <2>1, SMTT(30) DEF InvFin, Live
<1>9. InvReplay'
  BY <1>a, <1>c, <1>d, <1>f, FieldTypes, SMTT(30) DEF TypeOK, InvReplay, Replaying, Live
<1>10. InvTimer'
  BY <1>a, <1>c, <1>d, <1>f, ZenonT(40) DEF TypeOK, InvTimer, Live
<1>11. InvScan'
  BY <1>a, <1>c, <1>d, <1>f, SMTT(30) DEF TypeOK, InvScan, Inserting, Live, IsActive, regVars
<1>12. AtMostOneDelivery'
  BY <1>a, <1>f, SMTT(30) DEF TypeOK, AtMostOneDelivery
<1>13. ToldResultIsStored'
  BY <1>a, <1>c, <1>u, SMTT(30) DEF TypeOK, ToldResultIsStored
<1>14. AcceptedAfterReceived'
  BY <1>u DEF AcceptedAfterReceived
<1>15. InvReg'
  BY ZenonT(40) DEF InvReg, IsActive, Registered, Goto, regVars
<1> QED BY <1>1, <1>2, <1>3, <1>4, <1>5, <1>6, <1>7, <1>8, <1>9, <1>10, <1>11, <1>12, <1>13, <1>14, <1>15

(* A record leaves the replay window only when nothing works on it.        *)
LEMMA ExpireStep ==
  ASSUME IInv, NEW m \in Cmds, Expire(m)
  PROVE  IInv'
<1> USE DEF IInv
<1> DEFINE new == Aged(row[m])
<1>1a. row[m] \in Row /\ row' = [row EXCEPT ![m] = new]
  BY FieldTypes DEF Expire
<1>2a. new \in Row
  BY <1>1a DEF Aged, Row
<1>3a. new.status = row[m].status
  BY DEF Aged
<1>a. /\ new \in Row /\ new # NoRow /\ new.status = row[m].status
      /\ row' = [row EXCEPT ![m] = new]
  BY <1>1a, <1>2a, <1>3a
<1> HIDE DEF new
<1>1. TypeOK'
  BY <1>a, SMTT(30) DEF TypeOK, RegTypeOK, Expire, regVars, callVars
<1>2. InvSubmit'
  BY <1>a, SMTT(30) DEF TypeOK, InvSubmit, Submitting, Live, Expire, regVars, callVars
<1>3. InvInsert'
  BY <1>a, SMTT(30) DEF TypeOK, InvInsert, Inserting, Expire, regVars, callVars
<1>4. InvEntry'
  BY <1>a, SMTT(30) DEF TypeOK, InvEntry, Live, Registered, Expire, regVars, callVars
<1>5. InvFin'
  <2>1. fin' = fin /\ inFlight' = inFlight
    BY DEF Expire
  <2>2. ASSUME NEW f \in fin
        PROVE  f.cmd \in Cmds /\ f.cmd # m /\ row'[f.cmd] = row[f.cmd]
    BY <1>a, FieldTypes DEF TypeOK, Expire
  <2> QED BY <2>1, <2>2 DEF InvFin, Live
<1>6. InvReplay'
  BY <1>a, FieldTypes, SMTT(30) DEF TypeOK, InvReplay, Replaying, Live, Expire, regVars, callVars
<1>7. InvTimer'
  BY <1>a DEF TypeOK, InvTimer, Live, Expire, regVars, callVars
<1>8. InvScan'
  BY <1>a, SMTT(30) DEF TypeOK, InvScan, Inserting, Live, IsActive, Expire, regVars, callVars
<1>9. ToldResultIsStored'
  BY <1>a, SMTT(30) DEF TypeOK, ToldResultIsStored, Expire, regVars, callVars
<1>10. InvReg' /\ InvRouted' /\ InvBound' /\ InvNotified' /\ AtMostOneDelivery'
  BY SMTT(30)
    DEF InvReg, IsActive, Registered, InvRouted, Routed, InvBound, Submitting,
      Inserting, InvNotified, Notified, AtMostOneDelivery, Expire, regVars,
      callVars
<1>11. AcceptedAfterReceived'
  BY DEF AcceptedAfterReceived, Expire, regVars, callVars
<1> QED BY <1>1, <1>2, <1>3, <1>4, <1>5, <1>6, <1>7, <1>8, <1>9, <1>10, <1>11

(* Pruning deletes a record nothing works on.                              *)
LEMMA PruneStep ==
  ASSUME IInv, NEW m \in Cmds, Prune(m)
  PROVE  IInv'
<1> USE DEF IInv
<1>a. ~Live(m) /\ row' = [row EXCEPT ![m] = NoRow]
  BY ZenonT(40) DEF Prune, Prunable, Live
<1>1. TypeOK'
  BY <1>a DEF TypeOK, RegTypeOK, Prune, regVars, callVars
<1>2. InvSubmit'
  BY <1>a, SMTT(30) DEF TypeOK, InvSubmit, Submitting, Live, Prune, regVars, callVars
<1>3. InvInsert'
  BY <1>a, SMTT(30) DEF TypeOK, InvInsert, Inserting, Prune, regVars, callVars, InvSubmit, Submitting, Live
<1>4. InvEntry'
  BY <1>a, SMTT(30) DEF TypeOK, InvEntry, Live, Registered, Prune, regVars, callVars
<1>5. InvFin'
  <2>1. fin' = fin /\ inFlight' = inFlight
    BY DEF Prune
  <2>2. ASSUME NEW f \in fin
        PROVE  f.cmd \in Cmds /\ f.cmd # m /\ row'[f.cmd] = row[f.cmd]
    BY <1>a, FieldTypes, SMTT(30) DEF TypeOK, InvFin
  <2> QED BY <2>1, <2>2 DEF InvFin, Live
<1>6. InvReplay'
  BY <1>a, FieldTypes, ZenonT(40) DEF TypeOK, InvReplay, Replaying, Live, Prune, regVars, callVars
<1>7. InvTimer'
  BY <1>a DEF TypeOK, InvTimer, Live, Prune, regVars, callVars
<1>8. InvScan'
  BY <1>a, ZenonT(40) DEF TypeOK, InvScan, Inserting, Live, IsActive, Prune, regVars, callVars
<1>9. ToldResultIsStored'
  BY <1>a DEF TypeOK, ToldResultIsStored, Prune, regVars, callVars
<1>10. InvReg' /\ InvRouted' /\ InvBound'
  BY SMTT(30)
    DEF InvReg, IsActive, Registered, InvRouted, Routed, InvBound, Submitting,
      Inserting, Prune, regVars, callVars
<1>11. InvNotified' /\ AtMostOneDelivery' /\ AcceptedAfterReceived'
  BY DEF InvNotified, Notified, AtMostOneDelivery, AcceptedAfterReceived, Prune, regVars, callVars
<1> QED BY <1>1, <1>2, <1>3, <1>4, <1>5, <1>6, <1>7, <1>8, <1>9, <1>10, <1>11

(* A restart keeps the records and forgets all work on them.               *)
LEMMA RestartStep ==
  ASSUME IInv, Restart
  PROVE  IInv'
<1> USE DEF IInv
<1>1. TypeOK'
  BY SMTT(30) DEF TypeOK, RegTypeOK, Restart, RegRestart, SessStates, CallPCs
<1>2. InvReg'
  BY DEF TypeOK, InvReg, IsActive, Registered, Restart, RegRestart
<1>3. InvRouted'
  BY DEF TypeOK, InvRouted, Routed, Registered, Restart, RegRestart
<1>4. InvSubmit'
  BY DEF TypeOK, InvSubmit, Submitting, Live, Restart, RegRestart
<1>5. InvInsert'
  BY DEF TypeOK, InvInsert, Inserting, Restart, RegRestart
<1>6. InvBound'
  BY DEF TypeOK, InvBound, Submitting, Inserting, IsActive, Restart, RegRestart
<1>7. InvNotified'
  BY DEF TypeOK, InvNotified, Notified, Restart, RegRestart
<1>8. InvEntry'
  BY DEF TypeOK, InvEntry, Live, Registered, Restart, RegRestart
<1>9. InvFin'
  BY DEF TypeOK, InvFin, Live, Restart, RegRestart
<1>10. InvReplay'
  BY DEF TypeOK, InvReplay, Replaying, Live, Restart, RegRestart
<1>11. InvTimer'
  BY DEF TypeOK, InvTimer, Live, Restart, RegRestart
<1>12. InvScan'
  BY DEF TypeOK, InvScan, Inserting, Live, IsActive, Restart, RegRestart
<1>13. AtMostOneDelivery' /\ ToldResultIsStored' /\ AcceptedAfterReceived'
  BY DEF AtMostOneDelivery, ToldResultIsStored, AcceptedAfterReceived, Restart, RegRestart
<1> QED BY <1>1, <1>2, <1>3, <1>4, <1>5, <1>6, <1>7, <1>8, <1>9, <1>10, <1>11, <1>12, <1>13

-----------------------------------------------------------------------------
(* The invariant holds when the server starts on an empty database.        *)
LEMMA InitInvariant == Init => IInv
<1> SUFFICES ASSUME Init PROVE IInv
  OBVIOUS
<1>1. TypeOK
  BY SMTT(30) DEF Init, RegInit, TypeOK, RegTypeOK, SessStates, CallPCs
<1>2. InvReg
  BY DEF Init, RegInit, InvReg
<1>3. InvRouted /\ InvNotified /\ InvReplay
  BY DEF Init, InvRouted, Routed, InvNotified, Notified, InvReplay, Replaying
<1>4. InvSubmit /\ InvInsert /\ InvBound
  BY DEF Init, InvSubmit, InvInsert, InvBound, Submitting, Inserting
<1>5. InvEntry /\ InvFin /\ InvTimer /\ InvScan /\ AtMostOneDelivery
  <2>1. InvEntry /\ AtMostOneDelivery
    BY SMTT(30) DEF Init, InvEntry, AtMostOneDelivery
  <2>2. InvFin /\ InvTimer /\ InvScan
    BY DEF Init, InvFin, InvTimer, InvScan
  <2> QED BY <2>1, <2>2
<1>6. ToldResultIsStored /\ AcceptedAfterReceived
  BY DEF Init, ToldResultIsStored, AcceptedAfterReceived
<1> QED BY <1>1, <1>2, <1>3, <1>4, <1>5, <1>6 DEF IInv

(* reserve_command preserves the invariant whatever its outcome.           *)
LEMMA ReserveStep ==
  ASSUME IInv, NEW k \in Calls, pc[k] # "idle", Reserve(k)
  PROVE  IInv'
<1> DEFINE m == req[k].cmd
           outcome == ReserveOutcome(row[m], Owned(req[k].target),
                                     req[k].target, req[k].body)
           Insert == /\ row' = [row EXCEPT ![m] =
                                  NewRow(req[k].target, req[k].body)]
                     /\ told' = [c \in Conns |->
                                  {frame \in told[c] : frame.cmd # m}]
                     /\ deliveries' = [deliveries EXCEPT ![m] = 0]
<1>1. /\ pc[k] = "reserve"
      /\ UNCHANGED <<regVars, inFlight, fin, timer, todo, queued, restarts>>
      /\ \/ /\ outcome = "accepted" /\ Insert
            /\ Goto(k, "capacity") \/ Goto(k, "done")
         \/ /\ UNCHANGED <<row, told, deliveries>>
            /\ Goto(k, "done") \/ (outcome = "replay" /\ Goto(k, "load"))
  BY DEF Reserve
<1>2. outcome = "replay" => Live(m)
  BY DEF ReserveOutcome, Live
<1>3. Owned(req[k].target) \in BOOLEAN
  BY ZenonT(40) DEF Owned
<1>4. ASSUME NEW label \in {"capacity", "done"}, Goto(k, label),
             outcome = "accepted", Insert
      PROVE  IInv'
  BY <1>1, <1>3, <1>4, ReserveInsertStep
<1>5. ASSUME NEW label \in {"load", "done"}, Goto(k, label),
             label = "load" => Live(m), UNCHANGED <<row, told, deliveries>>
      PROVE  IInv'
  BY ZenonT(40), <1>1, <1>5, ReserveOtherStep
<1> HIDE DEF m, outcome, Insert
<1> QED BY <1>1, <1>2, <1>4, <1>5

(* Station resolution preserves the invariant.                             *)
LEMMA ResolveStep ==
  ASSUME IInv, NEW k \in Calls, pc[k] # "idle", Resolve(k)
  PROVE  IInv'
<1>1. CASE Goto(k, "dispatch") /\ UNCHANGED <<inFlight, fin>>
  BY <1>1, ResolvedStep DEF Resolve
<1>2. ASSUME NEW res \in {"invalid_payload", "persistence_unavailable"},
             StartFinish(req[k].cmd, res, k), Goto(k, "finish")
      PROVE  IInv'
  BY <1>2, FailStep DEF Resolve, Failures
<1> QED BY <1>1, <1>2 DEF Resolve

(* Dispatch preserves the invariant.                                       *)
LEMMA DispatchStep ==
  ASSUME IInv, NEW k \in Calls, pc[k] # "idle", Dispatch(k)
  PROVE  IInv'
<1>1. CASE SendOk(bound[k])
  BY <1>1, DeliverStep DEF Dispatch
<1>2. CASE ~SendOk(bound[k])
  <2>1. /\ pc[k] \in {"resolve", "dispatch"} /\ "target_offline" \in Failures
        /\ StartFinish(req[k].cmd, "target_offline", k) /\ Goto(k, "finish")
        /\ UNCHANGED <<regVars, row, timer, todo, queued, told, deliveries,
                       restarts>>
    BY <1>2 DEF Dispatch, Failures
  <2> QED BY <2>1, FailStep
<1> QED BY <1>1, <1>2

(* Every step of the system preserves the invariant.                       *)
LEMMA NextInvariant == IInv /\ [Next]_vars => IInv'
<1> SUFFICES ASSUME IInv, [Next]_vars PROVE IInv'
  OBVIOUS
<1>1. ASSUME NEW k \in Calls, NEW via \in {"loop", "voice"}, NEW m \in Cmds,
             NEW body \in Bodies, NEW ctl \in Conns, NEW target \in Devices,
             Submit(k, via, m, body, ctl, target)
      PROVE  IInv'
  BY <1>1, SubmitStep
<1>2. ASSUME NEW k \in Calls, CallStep(k) PROVE IInv'
  BY <1>2, RouteStep, ReserveStep, LoadStep, ReplayReceivedStep,
     ReplayResultStep, CapacityStep, RejectStep, InsertStep, NotifyStep,
     ResolveStep, DispatchStep, ReturnStep DEF CallStep
<1>3. ASSUME NEW f \in fin, FinishStep(f) PROVE IInv'
  BY <1>3, FinishCompleteStep, FinishSendStep, ZenonT(40) DEF FinishStep
<1>4. ASSUME NEW c \in Conns, Drain(c) \/ Scan(c) PROVE IInv'
  BY <1>4, DrainStep, ScanCollectStep
<1>5. ASSUME NEW c \in Conns, Session(c) PROVE IInv'
  BY <1>5, AdmitStep, RegisterStep, EnterLoopStep, EndLoopStep, AbortStep,
     AbandonStep DEF Session
<1>6. ASSUME NEW c \in Conns, NEW m \in Cmds,
             Accepted(c, m) \/ TargetResult(c, m) \/ ScanStep(c, m)
      PROVE  IInv'
  BY ZenonT(40), <1>6, AcceptedStep, TargetResultStep, ScanStepStep
<1>7. ASSUME NEW m \in Cmds, Timeout(m) \/ Expire(m) \/ Prune(m) PROVE IInv'
  BY <1>7, TimeoutStep, ExpireStep, PruneStep
<1>8. ASSUME NEW d \in Devices, Revoke(d) PROVE IInv'
  BY <1>8, RevokeStoreStep, RevokeRegistryStep, ZenonT(40) DEF Revoke
<1>9. CASE Restart
  BY <1>9, RestartStep
<1>10. CASE UNCHANGED vars
  BY <1>10, StutterStep
<1> QED
  BY <1>1, <1>2, <1>3, <1>4, <1>5, <1>6, <1>7, <1>8, <1>9, <1>10 DEF Next

(* The inductive invariant holds in every reachable state.                 *)
THEOREM Invariance == Spec => []IInv
  BY InitInvariant, NextInvariant, PTL DEF Spec

(* Type correctness of the router's state.                                 *)
THEOREM TypeCorrect == Spec => []TypeOK
<1>1. IInv => TypeOK BY DEF IInv
<1> QED BY <1>1, Invariance, PTL

(* At most one device.command for a reservation, whatever the races.       *)
THEOREM DeliveredAtMostOnce == Spec => []AtMostOneDelivery
<1>1. IInv => AtMostOneDelivery BY DEF IInv
<1> QED BY <1>1, Invariance, PTL

(* Every result a controller is told is the stored one.                    *)
THEOREM OnlyStoredResultsTold == Spec => []ToldResultIsStored
<1>1. IInv => ToldResultIsStored BY DEF IInv
<1> QED BY <1>1, Invariance, PTL

(* command.accepted comes after command.received.                          *)
THEOREM ReceivedFirst == Spec => []AcceptedAfterReceived
<1>1. IInv => AcceptedAfterReceived BY DEF IInv
<1> QED BY <1>1, Invariance, PTL

(* One owner at a time: finish runs exactly once for a command.            *)
THEOREM SingleOwner == Spec => []OneOwner
<1>1. IInv => OneOwner
  BY SMTT(30) DEF IInv, InvSubmit, InvInsert, InvFin, OneOwner, Storing, Inserting,
         Submitting
<1> QED BY <1>1, Invariance, PTL

(* The records of the commands in memory are reserved in the database.     *)
THEOREM MemoryMatchesStore == Spec => []OwnedIsReserved
<1>1. ASSUME IInv, NEW m \in Cmds, NEW k \in Calls, Inserting(k, m)
      PROVE  row[m] = NewRow(req[k].target, req[k].body)
  <2>1. /\ Submitting(k, m) /\ row[m] # NoRow /\ row[m].fresh
        /\ row[m].target = req[k].target /\ row[m].body = req[k].body
        /\ row[m].status = "reserved"
    BY <1>1, SMTT(30) DEF IInv, InvSubmit, InvInsert, Inserting, Submitting, Live
  <2>2. row[m] \in Row BY <1>1, <2>1 DEF IInv, TypeOK
  <2>3. row[m].fresh = TRUE BY <2>1, <2>2 DEF Row
  <2> HIDE <1>1
  <2> QED BY <2>1, <2>2, <2>3 DEF Row, NewRow
<1>2. ASSUME IInv PROVE OwnedIsReserved
  <2>1. InvEntry /\ InvFin BY <1>2 DEF IInv
  <2>2. ASSUME NEW m \in Cmds, inFlight[m] # NoEntry
        PROVE  /\ row[m] # NoRow /\ row[m].status = "reserved"
               /\ row[m].target = DeviceOf[inFlight[m].tgt]
    BY <2>1, <2>2 DEF InvEntry, Live
  <2>3. ASSUME NEW m \in Cmds, NEW f \in fin, Storing(f, m)
        PROVE  /\ row[m] # NoRow /\ row[m].status = "reserved"
               /\ row[m].target = f.target
    BY <2>1, <2>3 DEF InvFin, Live, Storing
  <2> QED BY <1>1, <1>2, <2>2, <2>3 DEF OwnedIsReserved
<1> QED BY <1>2, Invariance, PTL

-----------------------------------------------------------------------------
(***************************************************************************)
(* CommandRouter implements CommandLifecycle: under the mapping of         *)
(* CommandRouter!Lifecycle, every step of the router that starts in a      *)
(* state of the inductive invariant is a step of the lifecycle or changes  *)
(* nothing it sees.  What the lifecycle forbids then follows for the       *)
(* router: a stored result is final.                                       *)
(***************************************************************************)
LifeStep == Lifecycle!LifeNext \/ UNCHANGED Lifecycle!lifeVars

(* What a frame that is no result adds to the announced results: nothing.  *)
LEMMA QuietSend ==
  ASSUME IInv, NEW c \in Conns, NEW frame \in Frame, SendFrame(c, frame),
         \A m \in Cmds, res \in Results : frame # ResultFrame(m, res),
         UNCHANGED <<row, deliveries>>
  PROVE  UNCHANGED Lifecycle!lifeVars
<1>1. \A m \in Cmds, res \in Results, e \in Conns :
         ResultFrame(m, res) \in told'[e] <=> ResultFrame(m, res) \in told[e]
  BY SendFrameEffect, SMTT(30) DEF IInv
<1>2. \A m \in Cmds : Announced(m)' = Announced(m)
  BY <1>1 DEF Announced
<1> QED BY <1>2 DEF Lifecycle!lifeVars, PhaseOf, IsOld, IsDelivered

(* A result frame announces the result that is stored.                     *)
LEMMA AnnounceSend ==
  ASSUME IInv, NEW c \in Conns, NEW m \in Cmds, NEW res \in Results,
         SendFrame(c, ResultFrame(m, res)), row[m] # NoRow,
         row[m].status = res, UNCHANGED <<row, deliveries>>
  PROVE  LifeStep
<1>1. CASE SendOk(c)
  <2>1. ResultFrame(m, res) \in Frame BY FrameFacts
  <2>2. \A n \in Cmds, r \in Results :
          (\E e \in Conns : ResultFrame(n, r) \in told'[e])
            <=> \/ \E e \in Conns : ResultFrame(n, r) \in told[e]
                \/ n = m /\ r = res
    BY <1>1, <2>1, SendFrameEffect, FrameFacts, SMTT(30) DEF IInv
  <2>3. \A n \in Cmds :
          Announced(n)' = IF n = m THEN Announced(m) \cup {res}
                          ELSE Announced(n)
    BY <2>2 DEF Announced
  <2>4. PhaseOf(m) = res BY DEF PhaseOf
  <2>5. Lifecycle!Announce(m)
    BY <2>3, <2>4 DEF Lifecycle!Announce, Lifecycle!Decided, PhaseOf, IsOld,
       IsDelivered
  <2> QED BY <2>5 DEF LifeStep, Lifecycle!LifeNext
<1>2. CASE ~SendOk(c)
  <2>1. UNCHANGED told BY <1>2 DEF SendFrame
  <2> QED
    BY <2>1 DEF LifeStep, Lifecycle!lifeVars, PhaseOf, IsOld, IsDelivered,
              Announced
<1> QED BY <1>1, <1>2

(* Steps that leave records and histories alone.                           *)
LEMMA QuietStep ==
  ASSUME UNCHANGED <<row, deliveries, told>>
  PROVE  LifeStep
  BY DEF LifeStep, Lifecycle!lifeVars, PhaseOf, IsOld, IsDelivered,
              Announced

(* complete decides a reserved command or changes nothing.                 *)
LEMMA DecideStep ==
  ASSUME IInv, NEW m \in Cmds, NEW target \in Devices, NEW res \in Results,
         NEW outcome, Complete(m, target, res, outcome),
         UNCHANGED <<deliveries, told>>
  PROVE  LifeStep
<1>1. /\ row' \in [Cmds -> Row \cup {NoRow}]
      /\ \A n \in Cmds : row'[n] # row[n] =>
           /\ n = m /\ row[n] # NoRow /\ row[n].status = "reserved"
           /\ row'[n] # NoRow /\ row'[n].status = res
           /\ row'[n].fresh = row[n].fresh
  BY CompleteEffect, SMTT(30) DEF IInv
<1>2. CASE row'[m] = row[m]
  <2>1. row' = row BY <1>1, <1>2, SMTT(30) DEF IInv, TypeOK
  <2> QED BY <2>1, QuietStep
<1>3. CASE row'[m] # row[m]
  <2>1. \A n \in Cmds : PhaseOf(n)' = IF n = m THEN res ELSE PhaseOf(n)
    BY <1>1, <1>3 DEF PhaseOf
  <2>2. \A n \in Cmds : IsOld(n)' = IsOld(n)
    BY <1>1, <1>3 DEF IsOld
  <2>3. PhaseOf(m) = "reserved" BY <1>1, <1>3 DEF PhaseOf
  <2>4. \A n \in Cmds : Announced(n)' = Announced(n)
    BY DEF Announced
  <2>5. Lifecycle!Decide(m)
    BY <2>1, <2>2, <2>3, <2>4 DEF Lifecycle!Decide, IsDelivered
  <2> QED BY <2>5 DEF LifeStep, Lifecycle!LifeNext
<1> QED BY <1>2, <1>3

(* A new reservation: the id is free, or its decided record is old.        *)
LEMMA LifeReserve ==
  ASSUME IInv, NEW k \in Calls, pc[k] # "idle", Reserve(k)
  PROVE  LifeStep
<1>0. PICK m \in Cmds : m = req[k].cmd
  BY FieldTypes DEF IInv
<1> DEFINE new == NewRow(req[k].target, req[k].body)
<1>1. CASE UNCHANGED <<row, deliveries, told>>
  BY <1>1, QuietStep
<1>2. CASE ~UNCHANGED <<row, deliveries, told>>
  <2>1. /\ ReserveOutcome(row[m], Owned(req[k].target), req[k].target,
                          req[k].body) = "accepted"
        /\ row' = [row EXCEPT ![m] = new]
        /\ told' = [c \in Conns |-> {frame \in told[c] : frame.cmd # m}]
        /\ deliveries' = [deliveries EXCEPT ![m] = 0]
    BY <1>0, <1>2 DEF Reserve
  <2>2. m \in Cmds /\ req[k].target \in Devices /\ req[k].body \in Bodies
    BY FieldTypes DEF IInv
  <2>3. new # NoRow /\ new.status = "reserved" /\ new.fresh
    <3>1. new \in Row BY <2>2 DEF NewRow, Row, Statuses
    <3>2. new # NoRow BY <3>1
    <3> QED BY <3>2 DEF NewRow
  <2>4. row[m] = NoRow \/ (Terminal(row[m]) /\ ~row[m].fresh)
    BY <2>1, ZenonT(40) DEF ReserveOutcome
  <2> HIDE DEF new
  <2>5. row'[m] = new /\ \A n \in Cmds : n # m => row'[n] = row[n]
    BY <2>1, <2>2 DEF IInv, TypeOK
  <2>6. \A n \in Cmds : PhaseOf(n)' = IF n = m THEN "reserved" ELSE PhaseOf(n)
    BY <2>2, <2>3, <2>5 DEF PhaseOf
  <2>7. \A n \in Cmds : IsOld(n)' = IF n = m THEN FALSE ELSE IsOld(n)
    BY <2>2, <2>3, <2>5, ZenonT(40) DEF IsOld
  <2>8. \A n \in Cmds : Announced(n)' = IF n = m THEN {} ELSE Announced(n)
    BY <2>1, <2>2, FrameFacts, SMTT(30) DEF Announced
  <2>9. \A n \in Cmds :
          IsDelivered(n)' = IF n = m THEN FALSE ELSE IsDelivered(n)
    <3>1. deliveries \in [Cmds -> Nat] BY DEF IInv, TypeOK
    <3>2. \A n \in Cmds : deliveries'[n] = IF n = m THEN 0 ELSE deliveries[n]
      BY <2>1, <2>2, <3>1
    <3>3. ~IsDelivered(m)' BY <2>2, <3>2, SMTT(30) DEF IsDelivered
    <3>4. \A n \in Cmds : n # m => (IsDelivered(n)' <=> IsDelivered(n))
      BY <3>2 DEF IsDelivered
    <3>5. \A n \in Cmds :
            IsDelivered(n) \in BOOLEAN /\ IsDelivered(n)' \in BOOLEAN
      BY SMTT(30) DEF IsDelivered
    <3> QED BY <3>3, <3>4, <3>5, Zenon
  <2>10. PhaseOf(m) = "none" \/ (IsOld(m) /\ PhaseOf(m) \in Results)
    <3>1. row[m] # NoRow => row[m].status \in Statuses
      BY <2>2, FieldTypes DEF IInv, Row
    <3> QED BY <2>4, <3>1, ResultFacts DEF PhaseOf, IsOld, Terminal
  <2>11. [n \in Cmds |-> PhaseOf(n)]'
           = [[n \in Cmds |-> PhaseOf(n)] EXCEPT ![m] = "reserved"]
    BY <2>2, <2>6
  <2>12. [n \in Cmds |-> IsOld(n)]'
           = [[n \in Cmds |-> IsOld(n)] EXCEPT ![m] = FALSE]
    BY <2>2, <2>7
  <2>13. [n \in Cmds |-> IsDelivered(n)]'
           = [[n \in Cmds |-> IsDelivered(n)] EXCEPT ![m] = FALSE]
    BY <2>2, <2>9
  <2>14. [n \in Cmds |-> Announced(n)]'
           = [[n \in Cmds |-> Announced(n)] EXCEPT ![m] = {}]
    BY <2>2, <2>8
  <2>15. Lifecycle!ReserveCmd(m)
    BY <2>2, <2>10, <2>11, <2>12, <2>13, <2>14
       DEF Lifecycle!ReserveCmd, Lifecycle!Decided
  <2> QED BY <2>2, <2>15 DEF LifeStep, Lifecycle!LifeNext
<1> QED BY <1>1, <1>2

(* A delivery: the bound generation is still active, so no scan has taken  *)
(* the entry and the command is undecided.                                 *)
LEMMA LifeDispatch ==
  ASSUME IInv, NEW k \in Calls, pc[k] # "idle", Dispatch(k)
  PROVE  LifeStep
<1>0. PICK m \in Cmds : m = req[k].cmd
  BY FieldTypes DEF IInv
<1>1. CASE SendOk(bound[k])
  <2>1. /\ m \in Cmds /\ Submitting(k, m) /\ ~Inserting(k, m)
        /\ IsActive(bound[k])
    BY <1>0, <1>1
       DEF Dispatch, Submitting, Inserting, SendOk
  <2>2. deliveries[m] = 0 /\ row[m] # NoRow /\ row[m].status = "reserved"
    BY <2>1 DEF IInv, InvSubmit, InvBound, InvEntry, Live
  <2>3. /\ deliveries' = [deliveries EXCEPT ![m] = @ + 1]
        /\ UNCHANGED <<row, told>>
    BY <1>0, <1>1 DEF Dispatch
  <2>4. \A n \in Cmds :
          IsDelivered(n)' = IF n = m THEN TRUE ELSE IsDelivered(n)
    <3>1. deliveries \in [Cmds -> Nat] BY DEF IInv, TypeOK
    <3>2. \A n \in Cmds : deliveries'[n] = IF n = m THEN 1 ELSE deliveries[n]
      BY SMTT(30), <2>1, <2>2, <2>3, <3>1
    <3>3. IsDelivered(m)' BY <2>1, <3>2, SMTT(30) DEF IsDelivered
    <3>4. \A n \in Cmds : n # m => (IsDelivered(n)' <=> IsDelivered(n))
      BY <3>2 DEF IsDelivered
    <3>5. \A n \in Cmds :
            IsDelivered(n) \in BOOLEAN /\ IsDelivered(n)' \in BOOLEAN
      BY DEF IsDelivered
    <3> QED BY <3>3, <3>4, <3>5, Zenon
  <2>5. PhaseOf(m) = "reserved" /\ ~IsDelivered(m)
    BY <2>2, SMTT(30) DEF PhaseOf, IsDelivered
  <2>6. \A n \in Cmds : /\ PhaseOf(n)' = PhaseOf(n) /\ IsOld(n)' = IsOld(n)
                        /\ Announced(n)' = Announced(n)
    BY <2>3 DEF PhaseOf, IsOld, Announced
  <2>7. [n \in Cmds |-> IsDelivered(n)]'
          = [[n \in Cmds |-> IsDelivered(n)] EXCEPT ![m] = TRUE]
    BY <2>1, <2>4
  <2>8. Lifecycle!Deliver(m)
    BY <2>1, <2>5, <2>6, <2>7 DEF Lifecycle!Deliver
  <2> QED BY <2>1, <2>8 DEF LifeStep, Lifecycle!LifeNext
<1>2. CASE ~SendOk(bound[k])
  BY <1>2, QuietStep DEF Dispatch
<1> QED BY <1>1, <1>2

(* A record leaves the replay window.                                      *)
LEMMA LifeExpire ==
  ASSUME IInv, NEW m \in Cmds, Expire(m)
  PROVE  LifeStep
<1>1. /\ row[m] # NoRow /\ row' = [row EXCEPT ![m] = Aged(row[m])]
      /\ UNCHANGED <<deliveries, told>>
  BY DEF Expire
<1>2. row[m] \in Row /\ row[m].status # "none"
  BY <1>1, FieldTypes, ResultFacts DEF IInv, Row
<1>3. /\ Aged(row[m]) # NoRow /\ Aged(row[m]).status = row[m].status
      /\ ~Aged(row[m]).fresh
  <2>1. Aged(row[m]) \in Row BY <1>2 DEF Aged, Row
  <2> QED BY <2>1 DEF Aged
<1>4. /\ row'[m] = Aged(row[m])
      /\ \A n \in Cmds : n # m => row'[n] = row[n]
  BY <1>1, ZenonT(40) DEF IInv, TypeOK
<1>5. \A n \in Cmds : PhaseOf(n)' = PhaseOf(n)
  BY <1>1, <1>3, <1>4, SMTT(30) DEF PhaseOf
<1>6. \A n \in Cmds : IsOld(n)' = IF n = m THEN TRUE ELSE IsOld(n)
  BY <1>3, <1>4 DEF IsOld
<1>7. \A n \in Cmds : /\ IsDelivered(n)' = IsDelivered(n)
                      /\ Announced(n)' = Announced(n)
  BY <1>1 DEF IsDelivered, Announced
<1>8. [n \in Cmds |-> IsOld(n)]'
        = [[n \in Cmds |-> IsOld(n)] EXCEPT ![m] = TRUE]
  BY <1>6
<1>9. PhaseOf(m) # "none" BY <1>1, <1>2 DEF PhaseOf
<1>10. Lifecycle!Age(m)
  BY <1>5, <1>7, <1>8, <1>9 DEF Lifecycle!Age
<1> QED BY <1>10 DEF LifeStep, Lifecycle!LifeNext

(* An old decided record is pruned.                                        *)
LEMMA LifePrune ==
  ASSUME IInv, NEW m \in Cmds, Prune(m)
  PROVE  LifeStep
<1>1. /\ row[m] # NoRow /\ row[m].status # "reserved" /\ ~row[m].fresh
      /\ row' = [row EXCEPT ![m] = NoRow] /\ UNCHANGED <<deliveries, told>>
  BY ZenonT(40) DEF Prune, Prunable, Terminal
<1>2. row[m].status \in Results
  BY <1>1, FieldTypes, ResultFacts DEF IInv, Row
<1>3. row'[m] = NoRow /\ \A n \in Cmds : n # m => row'[n] = row[n]
  BY <1>1 DEF IInv, TypeOK
<1>4. \A n \in Cmds : PhaseOf(n)' = IF n = m THEN "none" ELSE PhaseOf(n)
  BY <1>3 DEF PhaseOf
<1>5. \A n \in Cmds : IsOld(n)' = IF n = m THEN FALSE ELSE IsOld(n)
  BY <1>3 DEF IsOld
<1>6. \A n \in Cmds : /\ IsDelivered(n)' = IsDelivered(n)
                      /\ Announced(n)' = Announced(n)
  BY <1>1 DEF IsDelivered, Announced
<1>7. [n \in Cmds |-> IsOld(n)]'
        = [[n \in Cmds |-> IsOld(n)] EXCEPT ![m] = FALSE]
  BY ZenonT(40), <1>5
<1>8. IsOld(m) /\ PhaseOf(m) \in Results
  BY <1>1, <1>2 DEF IsOld, PhaseOf
<1>9. Lifecycle!Forget(m)
  BY <1>4, <1>6, <1>7, <1>8 DEF Lifecycle!Forget, Lifecycle!Decided
<1> QED BY <1>9 DEF LifeStep, Lifecycle!LifeNext

(* Every step of the router is a step of the lifecycle.                    *)
LEMMA NextRefines == IInv /\ [Next]_vars => [Lifecycle!LifeNext]_Lifecycle!lifeVars
<1> SUFFICES ASSUME IInv, [Next]_vars PROVE LifeStep
  BY ZenonT(40) DEF LifeStep
<1>1. ASSUME NEW k \in Calls, NEW via \in {"loop", "voice"}, NEW m \in Cmds,
             NEW body \in Bodies, NEW ctl \in Conns, NEW target \in Devices,
             Submit(k, via, m, body, ctl, target)
      PROVE  LifeStep
  BY <1>1, QuietStep DEF Submit
<1>2. ASSUME NEW k \in Calls, CallStep(k) PROVE LifeStep
  <2>1. pc[k] # "idle" /\ req[k].cmd \in Cmds /\ req[k].ctl \in Conns
        /\ req[k].target \in Devices
    BY <1>2, FieldTypes, ZenonT(40) DEF CallStep, IInv
  <2>2. CASE Route(k) \/ Load(k) \/ CheckCapacity(k) \/ InsertInFlight(k)
             \/ Resolve(k) \/ ReturnFinished(k)
    BY <2>2, QuietStep
       DEF Route, Load, CheckCapacity, InsertInFlight, Resolve, ReturnFinished
  <2>3. CASE Reserve(k)
    BY ZenonT(40), <2>1, <2>3, LifeReserve
  <2>4. CASE ReplayReceived(k) \/ Notify(k)
    <3>1. /\ SendFrame(req[k].ctl, ReceivedFrame(req[k].cmd))
          /\ UNCHANGED <<row, deliveries>>
      BY <2>4 DEF ReplayReceived, Notify
    <3> QED BY <2>1, <3>1, QuietSend, FrameFacts, SMTT(30) DEF LifeStep
  <2>5. CASE ReplayResult(k)
    <3>1. /\ pc[k] = "tell" /\ UNCHANGED <<row, deliveries>>
          /\ SendFrame(req[k].ctl, ResultFrame(req[k].cmd, loaded[k]))
      BY <2>5 DEF ReplayResult
    <3>2. /\ loaded[k] \in Results /\ row[req[k].cmd] # NoRow
          /\ row[req[k].cmd].status = loaded[k]
      BY <2>1, <3>1 DEF IInv, InvReplay, Replaying, Live
    <3> QED BY <2>1, <3>1, <3>2, AnnounceSend
  <2>6. CASE Reject(k)
    <3>1. PICK outcome : Complete(req[k].cmd, req[k].target,
                                  "too_many_in_flight", outcome)
      BY <2>6 DEF Reject
    <3>2. "too_many_in_flight" \in Results BY DEF Results, Failures
    <3>3. UNCHANGED <<deliveries, told>> BY <2>6 DEF Reject
    <3> QED BY <2>1, <3>1, <3>2, <3>3, DecideStep
  <2>7. CASE Dispatch(k)
    BY <2>1, <2>7, LifeDispatch
  <2> QED BY <1>2, <2>2, <2>3, <2>4, <2>5, <2>6, <2>7 DEF CallStep
<1>3. ASSUME NEW f \in fin, FinishStep(f) PROVE LifeStep
  <2>1. /\ f.cmd \in Cmds /\ f.result \in Results /\ f.ctl \in Conns
        /\ f.target \in Devices
    BY FieldTypes DEF IInv
  <2>2. CASE FinishComplete(f)
    <3>1. PICK outcome : Complete(f.cmd, f.target, f.result, outcome)
      BY <2>2 DEF FinishComplete
    <3>2. UNCHANGED <<deliveries, told>> BY <2>2 DEF FinishComplete
    <3> QED BY <2>1, <3>1, <3>2, DecideStep
  <2>3. CASE FinishSend(f)
    <3>1. /\ f.stage = "send" /\ UNCHANGED <<row, deliveries>>
          /\ SendFrame(f.ctl, ResultFrame(f.cmd, f.result))
      BY <2>3 DEF FinishSend
    <3>2. row[f.cmd] # NoRow /\ row[f.cmd].status = f.result
      BY <3>1 DEF IInv, InvFin, Live
    <3> QED BY <2>1, <3>1, <3>2, AnnounceSend
  <2> QED BY <1>3, <2>2, <2>3 DEF FinishStep
<1>4. ASSUME NEW c \in Conns, Drain(c) \/ Scan(c) \/ Session(c)
      PROVE  LifeStep
  BY <1>4, QuietStep DEF Drain, Scan, Session, routerVars
<1>5. ASSUME NEW c \in Conns, NEW m \in Cmds,
             TargetResult(c, m) \/ ScanStep(c, m)
      PROVE  LifeStep
  BY <1>5, QuietStep DEF TargetResult, ScanStep
<1>6. ASSUME NEW c \in Conns, NEW m \in Cmds, Accepted(c, m) PROVE LifeStep
  <2>1. /\ inFlight[m] # NoEntry /\ UNCHANGED <<row, deliveries>>
        /\ SendFrame(inFlight[m].ctl, AcceptedFrame(m))
    BY <1>6 DEF Accepted, FromTarget
  <2>2. inFlight[m].ctl \in Conns BY <2>1, FieldTypes DEF IInv
  <2> QED BY <2>1, <2>2, QuietSend, FrameFacts, SMTT(30) DEF LifeStep
<1>7. ASSUME NEW m \in Cmds, Timeout(m) PROVE LifeStep
  BY <1>7, QuietStep DEF Timeout
<1>8. ASSUME NEW m \in Cmds, Expire(m) PROVE LifeStep
  BY <1>8, LifeExpire
<1>9. ASSUME NEW m \in Cmds, Prune(m) PROVE LifeStep
  BY <1>9, LifePrune
<1>10. CASE Restart \/ (\E d \in Devices : Revoke(d)) \/ UNCHANGED vars
  BY <1>10, QuietStep, ZenonT(40) DEF Restart, Revoke, routerVars, vars
<1> QED
  BY <1>1, <1>2, <1>3, <1>4, <1>5, <1>6, <1>7, <1>8, <1>9, <1>10 DEF Next

(* The router implements the command lifecycle.                            *)
THEOREM RouterImplementsLifecycle == Spec => ImplementsLifecycle
<1>1. Init => Lifecycle!LifeInit
  <2> SUFFICES ASSUME Init PROVE Lifecycle!LifeInit
    OBVIOUS
  <2>1. \A m \in Cmds : PhaseOf(m) = "none" /\ IsOld(m) = FALSE
    BY DEF Init, PhaseOf, IsOld
  <2>2. \A m \in Cmds : IsDelivered(m) = FALSE
    BY SMTT(30) DEF Init, IsDelivered
  <2>3. \A m \in Cmds : Announced(m) = {}
    BY DEF Init, Announced
  <2> QED BY <2>1, <2>2, <2>3 DEF Lifecycle!LifeInit
<1> QED
  BY <1>1, NextRefines, Invariance, PTL
     DEF Spec, ImplementsLifecycle, Lifecycle!LifeSpec

(* A stored result is final, because the lifecycle never changes one.      *)
THEOREM ResultsNeverChange == Spec => ResultsAreFinal
<1> DEFINE Final == \A m \in Cmds : Terminal(row[m]) =>
                      \/ row'[m] # NoRow /\ row'[m].status = row[m].status
                      \/ ~row[m].fresh /\ ~Terminal(row'[m])
<1>1. ASSUME IInv, [Next]_vars, NEW m \in Cmds, Terminal(row[m])
      PROVE  \/ row'[m] # NoRow /\ row'[m].status = row[m].status
             \/ ~row[m].fresh /\ ~Terminal(row'[m])
  <2>1. PhaseOf(m) \in Results /\ PhaseOf(m) = row[m].status
    BY <1>1, FieldTypes, ResultFacts DEF IInv, Row, PhaseOf, Terminal
  <2>2. Lifecycle!LifeNext \/ UNCHANGED Lifecycle!lifeVars
    BY <1>1, NextRefines
  <2>3. \/ PhaseOf(m)' = PhaseOf(m)
        \/ IsOld(m) /\ PhaseOf(m)' \in {"none", "reserved"}
    <3>1. CASE UNCHANGED Lifecycle!lifeVars
      BY <3>1 DEF Lifecycle!lifeVars
    <3>2. ASSUME NEW n \in Cmds,
                 \/ Lifecycle!Deliver(n) \/ Lifecycle!Announce(n)
                 \/ Lifecycle!Age(n)
          PROVE  PhaseOf(m)' = PhaseOf(m)
      BY <3>2 DEF Lifecycle!Deliver, Lifecycle!Announce, Lifecycle!Age
    <3>3. ASSUME NEW n \in Cmds, Lifecycle!Decide(n)
          PROVE  PhaseOf(m)' = PhaseOf(m)
      BY <2>1, <3>3, ResultFacts DEF Lifecycle!Decide
    <3>4. ASSUME NEW n \in Cmds, Lifecycle!ReserveCmd(n) \/ Lifecycle!Forget(n)
          PROVE  \/ PhaseOf(m)' = PhaseOf(m)
                 \/ IsOld(m) /\ PhaseOf(m)' \in {"none", "reserved"}
      BY <2>1, <3>4, ResultFacts, ZenonT(40) DEF Lifecycle!ReserveCmd, Lifecycle!Forget
    <3> QED BY <2>2, <3>1, <3>2, <3>3, <3>4, ZenonT(40) DEF Lifecycle!LifeNext
  <2>4. CASE PhaseOf(m)' = PhaseOf(m)
    BY <2>1, <2>4, ResultFacts DEF PhaseOf
  <2>5. CASE IsOld(m) /\ PhaseOf(m)' \in {"none", "reserved"}
    <3>1. row'[m] # NoRow => row'[m] \in Row
      BY <1>1, NextInvariant, ZenonT(40) DEF IInv, TypeOK
    <3>2. row'[m] # NoRow => row'[m].status # "none"
      BY <3>1, ResultFacts DEF Row
    <3> QED BY <2>5, <3>2 DEF IsOld, PhaseOf, Terminal
  <2> QED BY <2>3, <2>4, <2>5
<1>2. IInv /\ [Next]_vars => [Final]_vars
  BY <1>1
<1> QED BY <1>2, Invariance, PTL DEF Spec, ResultsAreFinal

(* command.accepted never follows a result: it is sent only for an entry,  *)
(* the record of an entry is reserved, and only stored results are told.   *)
THEOREM AcceptedNeverLate == Spec => NoAcceptedAfterResult
<1> DEFINE Late(c, m) == /\ AcceptedFrame(m) \in told'[c]
                         /\ AcceptedFrame(m) \notin told[c]
           InOrder == \A c \in Conns, m \in Cmds : Late(c, m) =>
                        \A res \in Results : ResultFrame(m, res) \notin told[c]
<1>1. ASSUME IInv, NEW c \in Conns, NEW m \in Cmds, inFlight[m] # NoEntry
      PROVE  \A res \in Results : ResultFrame(m, res) \notin told[c]
  <2> SUFFICES ASSUME NEW res \in Results, ResultFrame(m, res) \in told[c]
               PROVE  FALSE
    OBVIOUS
  <2>1. row[m] # NoRow /\ row[m].status = "reserved"
    BY <1>1 DEF IInv, InvEntry, Live
  <2>2. row[m].status = res
    BY <1>1, <2>1 DEF IInv, ToldResultIsStored
  <2> QED BY <2>1, <2>2, ResultFacts
<1>2. ASSUME IInv, NEW e \in Conns, NEW frame \in Frame, SendFrame(e, frame),
             NEW c \in Conns, NEW m \in Cmds, Late(c, m)
      PROVE  frame = AcceptedFrame(m)
  BY <1>2, SendFrameEffect, SMTT(30) DEF IInv
<1>3. ASSUME IInv, [Next]_vars, NEW c \in Conns, NEW m \in Cmds, Late(c, m)
      PROVE  inFlight[m] # NoEntry
  <2>1. \A e \in Conns, n \in Cmds : ~SendFrame(e, ReceivedFrame(n))
    BY SMTT(30), <1>2, <1>3, FrameFacts
  <2>2. \A e \in Conns, n \in Cmds, r \in Results :
          ~SendFrame(e, ResultFrame(n, r))
    BY SMTT(30), <1>2, <1>3, FrameFacts
  <2>3. ~UNCHANGED told BY <1>3
  <2>4. \A k \in Calls : ~CallStep(k)
    <3> SUFFICES ASSUME NEW k \in Calls, CallStep(k) PROVE FALSE
      OBVIOUS
    <3>1. /\ pc[k] # "idle" /\ req[k].cmd \in Cmds /\ req[k].ctl \in Conns
          /\ pc[k] = "tell" => loaded[k] \in Results
      BY <1>3, FieldTypes DEF CallStep, IInv, InvReplay, Replaying
    <3>2. ~ReplayReceived(k) /\ ~Notify(k)
      BY <2>1, <3>1 DEF ReplayReceived, Notify
    <3>3. ~ReplayResult(k)
      BY <2>2, <3>1 DEF ReplayResult
    <3>4. ~Reserve(k)
      BY <1>3, <2>3 DEF Reserve
    <3> QED
      BY <2>3, <3>2, <3>3, <3>4
         DEF CallStep, Route, Load, CheckCapacity, Reject, InsertInFlight,
             Resolve, Dispatch, ReturnFinished
  <2>5. \A f \in fin : ~FinishStep(f)
    <3> SUFFICES ASSUME NEW f \in fin, FinishStep(f) PROVE FALSE
      OBVIOUS
    <3>1. f.cmd \in Cmds /\ f.ctl \in Conns /\ f.result \in Results
      BY <1>3, FieldTypes, ZenonT(40) DEF IInv
    <3> QED BY <2>2, <2>3, <3>1 DEF FinishStep, FinishComplete, FinishSend
  <2>6. \E e \in Conns, n \in Cmds : Accepted(e, n)
    BY <1>3, <2>3, <2>4, <2>5, ZenonT(40)
       DEF Next, vars, routerVars, Submit, Drain, Scan, Session, TargetResult,
           ScanStep, Timeout, Expire, Prune, Revoke, Restart
  <2>7. PICK n \in Cmds : /\ inFlight[n] # NoEntry
                          /\ SendFrame(inFlight[n].ctl, AcceptedFrame(n))
    BY <2>6 DEF Accepted, FromTarget
  <2>8. inFlight[n].ctl \in Conns BY <1>3, <2>7, FieldTypes DEF IInv
  <2>9. AcceptedFrame(n) = AcceptedFrame(m)
    BY <1>2, <1>3, <2>7, <2>8, FrameFacts
  <2> QED BY <2>7, <2>9, FrameFacts
<1>4. IInv /\ [Next]_vars => [InOrder]_vars
  BY <1>1, <1>3
<1> QED BY <1>4, Invariance, PTL DEF Spec, NoAcceptedAfterResult

-----------------------------------------------------------------------------
(***************************************************************************)
(* The limit of a connection.  A session loop handles one device.command   *)
(* at a time, so on a connection without voice requests the count that     *)
(* submit took is still an upper bound when it inserts its entry.          *)
(***************************************************************************)
Working(k) == pc[k] \notin {"idle", "done"}
LoopCall(k, c) == Working(k) /\ req[k].via = "loop" /\ req[k].ctl = c
NoVoice(c) ==
    \A k \in Calls : pc[k] # "idle" /\ req[k].ctl = c => req[k].via = "loop"

OneLoopCall == \A c \in Conns, k, l \in Calls : LoopCall(k, c) /\ LoopCall(l, c) => k = l
Counted(c) ==
    /\ IsFiniteSet(ConnInFlight(c))
    /\ NoVoice(c) =>
        /\ Cardinality(ConnInFlight(c)) <= MaxConn
        /\ \A k \in Calls : pc[k] = "insert" /\ req[k].ctl = c =>
               Cardinality(ConnInFlight(c)) < MaxConn
LimitInv == OneLoopCall /\ \A c \in Conns : Counted(c)

(* What all steps do but submit's first, its count and its insert: calls   *)
(* go on or end, entries stay or leave.                                    *)
CallsGoOn ==
    \A k \in Calls :
        /\ pc[k] # "idle" => pc'[k] # "idle" /\ req'[k] = req[k]
        /\ pc'[k] \notin {"idle", "done"} => pc[k] \notin {"idle", "done"}
        /\ pc'[k] = "insert" => pc[k] = "insert"
EntriesLeave == \A m \in Cmds : inFlight'[m] # NoEntry => inFlight'[m] = inFlight[m]

(* Fewer entries count no more.                                            *)
LEMMA FewerEntries ==
  ASSUME NEW c \in Conns, IsFiniteSet(ConnInFlight(c)), EntriesLeave
  PROVE  /\ IsFiniteSet(ConnInFlight(c)')
         /\ Cardinality(ConnInFlight(c)') <= Cardinality(ConnInFlight(c))
         /\ Cardinality(ConnInFlight(c)') \in Nat /\ Cardinality(ConnInFlight(c)) \in Nat
<1>1. ConnInFlight(c)' \in SUBSET ConnInFlight(c)
  BY DEF EntriesLeave, ConnInFlight
<1>2. /\ IsFiniteSet(ConnInFlight(c)')
      /\ Cardinality(ConnInFlight(c)') <= Cardinality(ConnInFlight(c))
  BY <1>1, FS_Subset
<1> QED BY <1>2, FS_CardinalityType

(* The calls of a loop when no call begins.                                *)
LEMMA LoopCallsGoOn ==
  ASSUME OneLoopCall, CallsGoOn
  PROVE  OneLoopCall'
<1>1. \A k \in Calls : pc'[k] \notin {"idle", "done"} =>
        pc[k] \notin {"idle", "done"} /\ req'[k] = req[k]
  BY DEF CallsGoOn
<1> QED BY <1>1, SMTT(30) DEF OneLoopCall, LoopCall, Working

(* A connection with a voice request keeps it.                             *)
LEMMA VoiceStays ==
  ASSUME NEW c \in Conns, NoVoice(c)',
         \A k \in Calls : pc[k] # "idle" => pc'[k] # "idle" /\ req'[k] = req[k]
  PROVE  NoVoice(c)
BY DEF NoVoice

(* Such a step keeps the limit.                                            *)
LEMMA GoOnKeepsLimit ==
  ASSUME LimitInv, CallsGoOn, EntriesLeave
  PROVE  LimitInv'
<1>1. OneLoopCall'
  BY LoopCallsGoOn DEF LimitInv
<1>2. ASSUME NEW c \in Conns
      PROVE  Counted(c)'
  <2> DEFINE n == Cardinality(ConnInFlight(c))
             o == Cardinality(ConnInFlight(c)')
  <2>1. IsFiniteSet(ConnInFlight(c)') /\ o <= n /\ o \in Nat /\ n \in Nat
    BY FewerEntries DEF LimitInv, Counted
  <2>2. ASSUME NoVoice(c)'
        PROVE  o <= MaxConn
    <3>1. n <= MaxConn
      BY <2>2, VoiceStays DEF LimitInv, Counted, CallsGoOn
    <3> HIDE DEF n, o
    <3> QED BY <2>1, <3>1, SMT
  <2>3. ASSUME NoVoice(c)', NEW k \in Calls, pc'[k] = "insert", req'[k].ctl = c
        PROVE  o < MaxConn
    <3>1. pc[k] = "insert" /\ req[k].ctl = c
      BY <2>3, ZenonT(40) DEF CallsGoOn
    <3>2. n < MaxConn
      BY <2>3, <3>1, VoiceStays DEF LimitInv, Counted, CallsGoOn
    <3> HIDE DEF n, o
    <3> QED BY <2>1, <3>2, SMT
  <2> QED BY <2>1, <2>2, <2>3 DEF Counted
<1> QED BY <1>1, <1>2 DEF LimitInv

(* A call begins only when the session loop is not inside another.         *)
LEMMA SubmitKeepsLimit ==
  ASSUME TypeOK, LimitInv, NEW k \in Calls, NEW via \in {"loop", "voice"}, NEW m \in Cmds,
         NEW body \in Bodies, NEW ctl \in Conns, NEW target \in Devices,
         Submit(k, via, m, body, ctl, target)
  PROVE  LimitInv'
<1> DEFINE r == [via |-> via, cmd |-> m, body |-> body, ctl |-> ctl, target |-> target]
<1>1. /\ pc[k] = "idle" /\ pc' = [pc EXCEPT ![k] = "route"] /\ req' = [req EXCEPT ![k] = r]
      /\ via = "loop" => ~Busy(ctl)
      /\ inFlight' = inFlight
  BY DEF Submit
<1>2. r.via = via /\ r.ctl = ctl
  OBVIOUS
<1> HIDE DEF r
<1>3. /\ pc'[k] = "route" /\ req'[k] = r
      /\ \A l \in Calls : l # k => pc'[l] = pc[l] /\ req'[l] = req[l]
  BY <1>1 DEF TypeOK
<1>4. ASSUME NEW c \in Conns, NEW l \in Calls, l # k, LoopCall(l, c)'
      PROVE  ~LoopCall(k, c)' /\ LoopCall(l, c)
  <2>1. LoopCall(l, c)
    BY <1>3, <1>4 DEF LoopCall, Working
  <2>2. CASE via = "loop" /\ ctl = c
    BY <1>1, <2>1, <2>2 DEF Busy, LoopCall, Working
  <2>3. CASE ~(via = "loop" /\ ctl = c)
    BY <1>2, <1>3, <2>1, <2>3 DEF LoopCall
  <2> QED BY <2>2, <2>3
<1>5. OneLoopCall'
  <2> SUFFICES ASSUME NEW c \in Conns, NEW l \in Calls, NEW o \in Calls,
                      LoopCall(l, c)', LoopCall(o, c)'
               PROVE  l = o
    BY DEF OneLoopCall
  <2> QED BY <1>4, SMTT(30) DEF LimitInv, OneLoopCall
<1>6. ASSUME NEW c \in Conns
      PROVE  Counted(c)'
  <2>1. ConnInFlight(c)' = ConnInFlight(c)
    BY <1>1 DEF ConnInFlight
  <2>2. NoVoice(c)' => NoVoice(c)
    BY <1>1, <1>3, VoiceStays
  <2>3. \A l \in Calls : pc'[l] = "insert" => pc[l] = "insert" /\ req'[l] = req[l]
    BY <1>3
  <2> QED BY <2>1, <2>2, <2>3 DEF LimitInv, Counted
<1> QED BY <1>5, <1>6 DEF LimitInv

(* What a move of one call does to the calls.                              *)
LEMMA OneCallMoves ==
  ASSUME TypeOK, NEW k \in Calls, Working(k), NEW label, label # "idle", Goto(k, label)
  PROVE  /\ pc'[k] = label /\ req' = req
         /\ \A l \in Calls : l # k => pc'[l] = pc[l]
         /\ \A l \in Calls : pc[l] # "idle" => pc'[l] # "idle" /\ req'[l] = req[l]
         /\ label # "insert" => CallsGoOn
<1>1. /\ pc'[k] = label /\ req' = req /\ \A l \in Calls : l # k => pc'[l] = pc[l]
  BY DEF Goto, TypeOK
<1> QED BY <1>1 DEF CallsGoOn, Working

(* The count.                                                              *)
LEMMA CapacityKeepsLimit ==
  ASSUME TypeOK, LimitInv, NEW k \in Calls, CheckCapacity(k)
  PROVE  LimitInv'
<1>1. /\ pc[k] = "capacity" /\ inFlight' = inFlight /\ Working(k)
  BY DEF CheckCapacity, Working
<1>2. EntriesLeave
  BY <1>1 DEF EntriesLeave
<1>3. CASE Goto(k, "reject")
  BY ZenonT(40), <1>1, <1>2, <1>3, OneCallMoves, GoOnKeepsLimit
<1>4. CASE ~OverCapacity(req[k].ctl, req[k].target) /\ Goto(k, "insert")
  <2>1. /\ pc'[k] = "insert" /\ req' = req /\ \A l \in Calls : l # k => pc'[l] = pc[l]
        /\ \A l \in Calls : pc[l] # "idle" => pc'[l] # "idle" /\ req'[l] = req[l]
    BY <1>1, <1>4, OneCallMoves
  <2>2. OneLoopCall'
    <3>1. \A l \in Calls, c \in Conns : LoopCall(l, c)' => LoopCall(l, c)
      BY <1>1, <2>1 DEF LoopCall, Working
    <3> QED BY <3>1, ZenonT(40) DEF LimitInv, OneLoopCall
  <2>3. ASSUME NEW c \in Conns
        PROVE  Counted(c)'
    <3>1. ConnInFlight(c)' = ConnInFlight(c)
      BY <1>1, ZenonT(40) DEF ConnInFlight
    <3>2. NoVoice(c)' => NoVoice(c)
      BY <2>1, VoiceStays
    <3>3. req[k].ctl = c => Cardinality(ConnInFlight(c)) < MaxConn
      <4>1. Cardinality(ConnInFlight(c)) \in Nat
        BY FS_CardinalityType DEF LimitInv, Counted
      <4>2. req[k].ctl = c => ~(Cardinality(ConnInFlight(c)) >= MaxConn)
        BY <1>4 DEF OverCapacity
      <4> QED BY <4>1, <4>2, SMT
    <3> QED BY <2>1, <3>1, <3>2, <3>3 DEF LimitInv, Counted
  <2> QED BY <2>2, <2>3 DEF LimitInv
<1> QED BY <1>3, <1>4 DEF CheckCapacity

(* The insert: of the calls of its connection, only this one has counted.  *)
LEMMA InsertKeepsLimit ==
  ASSUME TypeOK, LimitInv, NEW k \in Calls, InsertInFlight(k)
  PROVE  LimitInv'
<1>1. pc[k] = "insert" /\ Working(k) /\ Goto(k, "notify")
  BY DEF InsertInFlight, Working
<1>2. PICK m : m = req[k].cmd
  OBVIOUS
<1>3. PICK e : e = req[k].ctl
  OBVIOUS
<1>4. m \in Cmds /\ e \in Conns
  BY ZenonT(40), <1>1, <1>2, <1>3, FieldTypes
<1>5. /\ pc'[k] = "notify" /\ req' = req /\ \A l \in Calls : l # k => pc'[l] = pc[l]
      /\ \A l \in Calls : pc[l] # "idle" => pc'[l] # "idle" /\ req'[l] = req[l]
      /\ CallsGoOn
  BY <1>1, OneCallMoves
<1>6. OneLoopCall'
  BY <1>5, LoopCallsGoOn DEF LimitInv
<1>7. inFlight'[m].ctl = e /\ \A n \in Cmds : n # m => inFlight'[n] = inFlight[n]
  BY <1>2, <1>3, <1>4, ZenonT(40) DEF InsertInFlight, TypeOK
<1>8. ASSUME NEW c \in Conns, c # e
      PROVE  Counted(c)'
  <2> DEFINE n == Cardinality(ConnInFlight(c))
             o == Cardinality(ConnInFlight(c)')
  <2>1. ConnInFlight(c)' \in SUBSET ConnInFlight(c)
    BY <1>4, <1>7, <1>8 DEF ConnInFlight
  <2>2. IsFiniteSet(ConnInFlight(c)') /\ o <= n /\ o \in Nat /\ n \in Nat
    BY <2>1, FS_Subset, FS_CardinalityType, ZenonT(40) DEF LimitInv, Counted
  <2>3. NoVoice(c)' => NoVoice(c)
    BY <1>5, VoiceStays
  <2>4. \A l \in Calls : pc'[l] = "insert" /\ req'[l].ctl = c =>
          pc[l] = "insert" /\ req[l].ctl = c
    BY <1>5
  <2>5. ASSUME NoVoice(c)'
        PROVE  o <= MaxConn
    <3>1. n <= MaxConn
      BY <2>3, <2>5 DEF LimitInv, Counted
    <3> HIDE DEF n, o
    <3> QED BY <2>2, <3>1, SMT
  <2>6. ASSUME NoVoice(c)', NEW l \in Calls, pc'[l] = "insert", req'[l].ctl = c
        PROVE  o < MaxConn
    <3>1. n < MaxConn
      BY <2>3, <2>4, <2>6, ZenonT(40) DEF LimitInv, Counted
    <3> HIDE DEF n, o
    <3> QED BY <2>2, <3>1, SMT
  <2> QED BY <2>2, <2>5, <2>6 DEF Counted
<1>9. Counted(e)'
  <2> DEFINE S == ConnInFlight(e)
             n == Cardinality(S)
             o == Cardinality(ConnInFlight(e)')
  <2>1. ConnInFlight(e)' \in SUBSET (S \cup {m})
    BY <1>4, <1>7 DEF ConnInFlight
  <2>2. IsFiniteSet(S)
    BY <1>4, ZenonT(40) DEF LimitInv, Counted
  <2> HIDE DEF S
  <2>3. IsFiniteSet(S \cup {m}) /\ n \in Nat
        /\ (Cardinality(S \cup {m}) = n \/ Cardinality(S \cup {m}) = n + 1)
    BY <2>2, FS_AddElement, FS_CardinalityType
  <2>4. IsFiniteSet(ConnInFlight(e)') /\ o <= Cardinality(S \cup {m}) /\ o \in Nat
    BY <2>1, <2>3, FS_Subset, FS_CardinalityType
  <2>5. ASSUME NoVoice(e)'
        PROVE  o <= MaxConn
    <3>1. NoVoice(e)
      BY <1>4, <1>5, <2>5, VoiceStays
    <3>2. n < MaxConn
      BY <1>1, <1>3, <1>4, <3>1 DEF LimitInv, Counted, S
    <3> HIDE DEF n, o
    <3> QED BY <2>3, <2>4, <3>2, SMT
  <2>6. ASSUME NoVoice(e)', NEW l \in Calls, pc'[l] = "insert", req'[l].ctl = e
        PROVE  FALSE
    <3>1. NoVoice(e)
      BY <1>4, <1>5, <2>6, VoiceStays
    <3>2. l # k /\ pc[l] = "insert" /\ req[l].ctl = e
      BY <1>5, <2>6
    <3>3. LoopCall(k, e) /\ LoopCall(l, e)
      BY <1>1, <1>3, <3>1, <3>2 DEF NoVoice, LoopCall, Working
    <3> QED BY <1>4, <3>2, <3>3, ZenonT(40) DEF LimitInv, OneLoopCall
  <2> QED BY <2>4, <2>5, <2>6 DEF Counted
<1> QED BY <1>4, <1>6, <1>8, <1>9 DEF LimitInv

(* finish takes entries away.                                              *)
LEMMA FinishLeaves ==
  ASSUME NEW m, NEW res, NEW by, StartFinish(m, res, by), TypeOK
  PROVE  EntriesLeave
BY DEF StartFinish, EntriesLeave, TypeOK

(* The move of one call, wherever it goes but to its insert.               *)
LEMMA OneCallGoesOn ==
  ASSUME TypeOK, NEW k \in Calls, Working(k), NEW label, label \notin {"idle", "insert"},
         pc' = [pc EXCEPT ![k] = label], req' = req
  PROVE  CallsGoOn
<1>1. pc'[k] = label /\ \A l \in Calls : l # k => pc'[l] = pc[l]
  BY DEF TypeOK
<1> QED BY <1>1 DEF CallsGoOn, Working

(* Every step of a call but its count and its insert.                      *)
LEMMA CallGoesOn ==
  ASSUME TypeOK, NEW k \in Calls, CallStep(k), ~CheckCapacity(k), ~InsertInFlight(k)
  PROVE  CallsGoOn /\ EntriesLeave
<1>1. CASE Route(k)
  <2>1. PICK label \in {"done", "reserve"} : pc' = [pc EXCEPT ![k] = label]
    BY <1>1 DEF Route
  <2>2. Working(k) /\ req' = req /\ inFlight' = inFlight
    BY <1>1 DEF Route, Working
  <2> QED BY <2>1, <2>2, OneCallGoesOn DEF EntriesLeave
<1>2. CASE Reserve(k)
  <2>1. PICK label \in {"capacity", "load", "done"} : Goto(k, label)
    BY <1>2 DEF Reserve
  <2>2. Working(k) /\ inFlight' = inFlight
    BY <1>2 DEF Reserve, Working
  <2> QED BY <2>1, <2>2, OneCallGoesOn DEF EntriesLeave, Goto
<1>3. CASE Load(k)
  <2>1. PICK label \in {"replay", "done"} : pc' = [pc EXCEPT ![k] = label]
    BY <1>3 DEF Load, Goto
  <2>2. Working(k) /\ req' = req /\ inFlight' = inFlight
    BY <1>3 DEF Load, Goto, Working
  <2> QED BY <2>1, <2>2, OneCallGoesOn DEF EntriesLeave
<1>4. CASE ReplayReceived(k)
  <2>1. PICK label \in {"tell", "done"} : Goto(k, label)
    BY <1>4 DEF ReplayReceived
  <2>2. Working(k) /\ inFlight' = inFlight
    BY <1>4 DEF ReplayReceived, Working
  <2> QED BY <2>1, <2>2, OneCallGoesOn DEF EntriesLeave, Goto
<1>5. CASE ReplayResult(k) \/ Reject(k) \/ ReturnFinished(k)
  <2>1. Goto(k, "done") /\ Working(k) /\ inFlight' = inFlight
    BY <1>5 DEF ReplayResult, Reject, ReturnFinished, Working
  <2> QED BY <2>1, OneCallGoesOn DEF EntriesLeave, Goto
<1>6. CASE Notify(k)
  <2>1. PICK label \in {"done", "resolve", "dispatch"} : Goto(k, label)
    BY <1>6 DEF Notify
  <2>2. Working(k) /\ inFlight' = inFlight
    BY <1>6, ZenonT(40) DEF Notify, Working
  <2> QED BY <2>1, <2>2, OneCallGoesOn DEF EntriesLeave, Goto
<1>7. CASE Resolve(k)
  <2>1. PICK label \in {"dispatch", "finish"} : Goto(k, label)
    BY <1>7 DEF Resolve
  <2>2. Working(k)
    BY <1>7, ZenonT(40) DEF Resolve, Working
  <2>3. EntriesLeave
    BY <1>7, FinishLeaves DEF Resolve, EntriesLeave
  <2> QED BY <2>1, <2>2, <2>3, OneCallGoesOn DEF Goto
<1>8. CASE Dispatch(k)
  <2>1. PICK label \in {"done", "finish"} : Goto(k, label)
    BY <1>8, ZenonT(40) DEF Dispatch
  <2>2. Working(k)
    BY <1>8 DEF Dispatch, Working
  <2>3. EntriesLeave
    BY <1>8, FinishLeaves DEF Dispatch, EntriesLeave
  <2> QED BY <2>1, <2>2, <2>3, OneCallGoesOn DEF Goto
<1> QED BY <1>1, <1>2, <1>3, <1>4, <1>5, <1>6, <1>7, <1>8 DEF CallStep

(* A step that is no step of a call.                                       *)
LEMMA OthersGoOn ==
  ASSUME TypeOK, UNCHANGED callVars, inFlight' = inFlight \/ EntriesLeave
  PROVE  CallsGoOn /\ EntriesLeave
BY ZenonT(40) DEF callVars, CallsGoOn, EntriesLeave

(* Every step keeps the limit.                                             *)
LEMMA NextKeepsLimit ==
  ASSUME TypeOK, LimitInv, [Next]_vars
  PROVE  LimitInv'
<1>1. ASSUME NEW k \in Calls, NEW via \in {"loop", "voice"}, NEW m \in Cmds,
             NEW body \in Bodies, NEW ctl \in Conns, NEW target \in Devices,
             Submit(k, via, m, body, ctl, target)
      PROVE  LimitInv'
  BY ZenonT(40), <1>1, SubmitKeepsLimit
<1>2. ASSUME NEW k \in Calls, CallStep(k)
      PROVE  LimitInv'
  BY <1>2, CapacityKeepsLimit, InsertKeepsLimit, CallGoesOn, GoOnKeepsLimit
<1>3. ASSUME NEW f \in fin, FinishStep(f)
      PROVE  UNCHANGED callVars /\ inFlight' = inFlight
  BY <1>3 DEF FinishStep, FinishComplete, FinishSend
<1>4. ASSUME NEW c \in Conns, Drain(c) \/ Scan(c) \/ Session(c)
      PROVE  UNCHANGED callVars /\ inFlight' = inFlight
  BY <1>4 DEF Drain, Scan, Session, routerVars
<1>5. ASSUME NEW c \in Conns, NEW m \in Cmds,
             Accepted(c, m) \/ TargetResult(c, m) \/ ScanStep(c, m)
      PROVE  UNCHANGED callVars /\ (inFlight' = inFlight \/ EntriesLeave)
  BY <1>5, FinishLeaves DEF Accepted, TargetResult, ScanStep
<1>6. ASSUME NEW m \in Cmds, Timeout(m) \/ Expire(m) \/ Prune(m)
      PROVE  UNCHANGED callVars /\ (inFlight' = inFlight \/ EntriesLeave)
  BY <1>6, FinishLeaves DEF Timeout, Expire, Prune
<1>7. ASSUME NEW d \in Devices, Revoke(d)
      PROVE  UNCHANGED callVars /\ inFlight' = inFlight
  BY <1>7, ZenonT(40) DEF Revoke, routerVars
<1>8. CASE UNCHANGED vars
  BY <1>8, OthersGoOn, GoOnKeepsLimit DEF vars, routerVars
<1>9. CASE Restart
  <2>1. \A m \in Cmds : inFlight'[m] = NoEntry
    BY <1>9 DEF Restart
  <2>2. /\ req' = req
        /\ \A k \in Calls : pc'[k] = IF pc[k] = "idle" THEN "idle" ELSE "done"
    BY <1>9 DEF Restart
  <2> QED BY <2>1, <2>2, GoOnKeepsLimit DEF CallsGoOn, EntriesLeave
<1> QED BY <1>1, <1>2, <1>3, <1>4, <1>5, <1>6, <1>7, <1>8, <1>9, OthersGoOn,
           GoOnKeepsLimit DEF Next

(* On a connection without voice requests the limit of commands in flight  *)
(* holds, for any number of commands, calls and connections.               *)
THEOREM ConnectionLimitHolds == Spec => []ConnectionLimit
<1>1. Init => LimitInv
  <2> SUFFICES ASSUME Init PROVE LimitInv
    OBVIOUS
  <2>1. \A c \in Conns : ConnInFlight(c) = {}
    BY DEF Init, ConnInFlight
  <2>2. \A k \in Calls : pc[k] = "idle"
    BY DEF Init
  <2>3. 0 <= MaxConn
    BY SMT
  <2> QED BY <2>1, <2>2, <2>3, FS_EmptySet DEF LimitInv, OneLoopCall, LoopCall, Working,
                                               Counted
<1>2. IInv /\ LimitInv /\ [Next]_vars => LimitInv'
  BY NextKeepsLimit DEF IInv
<1>3. LimitInv => ConnectionLimit
  BY DEF LimitInv, Counted, NoVoice, ConnectionLimit
<1> QED BY <1>1, <1>2, <1>3, Invariance, PTL DEF Spec
=============================================================================
