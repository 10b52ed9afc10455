--------------------------- MODULE AccountAccess ---------------------------
(***************************************************************************)
(* Native devices and their sessions: pairing, session issue, revocation   *)
(* and account deletion.  Every request is a process whose database        *)
(* transaction runs statement by statement under PostgreSQL's READ         *)
(* COMMITTED: a statement sees what is committed, waits for the row locks  *)
(* it needs, and looks at the row again once it has the lock.  Writes      *)
(* become visible at commit; the rows a transaction has locked are the     *)
(* rows it writes, so held[p] is also its write set.                       *)
(***************************************************************************)
EXTENDS Naturals, FiniteSets

CONSTANTS Users, Devices,     \* accounts, devices paired beforehand
          Pairings, Passkeys, \* pairing requests, passkey rows
          Procs,              \* requests being served
          Protected,          \* accounts with an active admin identity
          DeviceOwner,        \* owner of each device paired beforehand
          PasskeyOwner,       \* owner of each passkey
          Approver,           \* who approved each pairing request beforehand
          MaxDevices,         \* MAX_ACCOUNT_DEVICES
          Workloads,          \* the combinations of requests considered
          None

VARIABLES userStatus, deviceRow, sessionRow, pairingRow, passkeyLive,
          accReq, accStage, accHeld, accReply, registryRevoked

accTables == <<userStatus, deviceRow, sessionRow, pairingRow, passkeyLive>>
accVars == <<accTables, accReq, accStage, accHeld, accReply, registryRevoked>>

ASSUME AccountAssumption ==
    /\ MaxDevices \in Nat \ {0}
    /\ DeviceOwner \in [Devices -> Users]
    /\ PasskeyOwner \in [Passkeys -> Users]
    /\ Approver \in [Pairings -> Users \cup {None}]
    /\ Devices \cap Procs = {}

(* A completed pairing creates a device and a session with fresh ids: the  *)
(* ids of the process.  A device paired beforehand has the session of the  *)
(* same name.                                                              *)
DeviceIds == Devices \cup Procs
SessionIds == Devices \cup Procs

DeviceRow == [owner : Users, live : BOOLEAN]
SessionRow == [owner : Users, device : DeviceIds, live : BOOLEAN,
               expired : BOOLEAN]
PairingRow == [by : Users \cup {None}, consumed : BOOLEAN,
               revoked : BOOLEAN, expired : BOOLEAN]

Replies == {"none", "completed", "pending", "gone", "limit", "issued", "ok",
            "invalid", "not_found", "unauthorized", "refused", "unavailable"}
Stages == {"start", "read", "request", "account", "insert", "device",
           "devices", "sessions", "passkey", "passkeys", "requests",
           "commit", "notify", "done"}

Rows == ({"user"} \X Users) \cup ({"device"} \X DeviceIds)
          \cup ({"session"} \X SessionIds) \cup ({"pairing"} \X Pairings)
          \cup ({"passkey"} \X Passkeys)

(* A native session that find_active_session_by_access_hash resolves.      *)
ActiveSession(s) ==
    /\ sessionRow[s] # None
    /\ sessionRow[s].live /\ ~sessionRow[s].expired
    /\ userStatus[sessionRow[s].owner] = "active"
    /\ deviceRow[sessionRow[s].device].live
    /\ deviceRow[sessionRow[s].device].owner = sessionRow[s].owner

LiveDevices(u) ==
    {d \in DeviceIds : deviceRow[d] # None /\ deviceRow[d].live
                         /\ deviceRow[d].owner = u}
LiveSessions(u) ==
    {s \in SessionIds : sessionRow[s] # None /\ sessionRow[s].live
                          /\ sessionRow[s].owner = u}
SessionsOf(d) ==
    {s \in SessionIds : sessionRow[s] # None /\ sessionRow[s].live
                          /\ sessionRow[s].device = d}
LivePasskeys(u) == {k \in Passkeys : passkeyLive[k] /\ PasskeyOwner[k] = u}
ApprovedBy(u) ==
    {r \in Pairings : pairingRow[r].by = u /\ ~pairingRow[r].revoked}

(* The account a request acts for: the one that approved the pairing, or   *)
(* the owner of the device, the passkey or the authenticated session.      *)
OwnerOf(p) ==
    LET q == accReq[p]
    IN CASE q.op = "complete" -> pairingRow[q.on].by
         [] q.op \in {"issue", "op_device"} ->
              IF deviceRow[q.on] = None THEN None ELSE deviceRow[q.on].owner
         [] q.op = "op_passkey" -> PasskeyOwner[q.on]
         [] q.op = "deactivate" -> q.on
         [] q.op \in {"delete", "revoke"} -> sessionRow[q.as].owner
         [] q.op \in {"approve", "browser_revoke"} -> q.as

Active(u) == u \in Users /\ userStatus[u] = "active"
DeviceLive(d) == deviceRow[d] # None /\ deviceRow[d].live

(* The rows that match the WHERE clause of the statement p is at.          *)
Matching(p) ==
    LET q == accReq[p]
        u == OwnerOf(p)
        st == accStage[p]
    IN CASE st = "request" -> {<<"pairing", q.on>>}
         [] st = "account" ->
              IF Active(u) \/ q.op = "op_passkey" THEN {<<"user", u>>} ELSE {}
         [] st = "device" ->
              IF DeviceLive(q.on) /\ (q.op = "op_device"
                                        \/ (Active(u) /\ deviceRow[q.on].owner = u))
              THEN {<<"device", q.on>>} ELSE {}
         [] st = "passkey" ->
              IF passkeyLive[q.on] THEN {<<"passkey", q.on>>} ELSE {}
         [] st = "sessions" ->
              {"session"} \X (IF q.op \in {"delete", "deactivate"}
                              THEN LiveSessions(u) ELSE SessionsOf(q.on))
         [] st = "devices" -> {"device"} \X LiveDevices(u)
         [] st = "passkeys" -> {"passkey"} \X LivePasskeys(u)
         [] st = "requests" -> {"pairing"} \X ApprovedBy(u)
         [] OTHER -> {}

Wants(p) == Matching(p) \ accHeld[p]
Free(row) == \A p \in Procs : row \notin accHeld[p]

-----------------------------------------------------------------------------
AccTypeOK ==
    /\ userStatus \in [Users -> {"active", "deleted"}]
    /\ deviceRow \in [DeviceIds -> DeviceRow \cup {None}]
    /\ sessionRow \in [SessionIds -> SessionRow \cup {None}]
    /\ pairingRow \in [Pairings -> PairingRow]
    /\ passkeyLive \in [Passkeys -> BOOLEAN]
    /\ accStage \in [Procs -> Stages]
    /\ accReply \in [Procs -> Replies]
    /\ accHeld \in [Procs -> SUBSET Rows]
    /\ registryRevoked \subseteq DeviceIds
    /\ \A p, q \in Procs : p # q => accHeld[p] \cap accHeld[q] = {}

AccInit ==
    /\ userStatus = [u \in Users |-> "active"]
    /\ deviceRow = [d \in DeviceIds |->
                      IF d \in Devices
                      THEN [owner |-> DeviceOwner[d], live |-> TRUE]
                      ELSE None]
    /\ sessionRow = [s \in SessionIds |->
                       IF s \in Devices
                       THEN [owner |-> DeviceOwner[s], device |-> s,
                             live |-> TRUE, expired |-> FALSE]
                       ELSE None]
    /\ pairingRow = [r \in Pairings |->
                       [by |-> Approver[r], consumed |-> FALSE, revoked |-> FALSE,
                        expired |-> FALSE]]
    /\ passkeyLive = [k \in Passkeys |-> TRUE]
    /\ accReq \in Workloads
    /\ accStage = [p \in Procs |-> "start"]
    /\ accHeld = [p \in Procs |-> {}]
    /\ accReply = [p \in Procs |-> "none"]
    /\ registryRevoked = {}

-----------------------------------------------------------------------------
(* Steps of a transaction.                                                 *)
Goto(p, st) ==
    /\ accStage' = [accStage EXCEPT ![p] = st]
    /\ UNCHANGED <<accHeld, accReply>>

(* Commit or rollback: the locks go, the handler answers.                  *)
Finish(p, answer) ==
    /\ accStage' = [accStage EXCEPT ![p] = "done"]
    /\ accHeld' = [accHeld EXCEPT ![p] = {}]
    /\ accReply' = [accReply EXCEPT ![p] = answer]

(* A transaction that ends without writing.                                *)
Rollback(p, answer) ==
    Finish(p, answer) /\ UNCHANGED <<accTables, registryRevoked>>

AccContinue(p, st) == Goto(p, st) /\ UNCHANGED <<accTables, registryRevoked>>

(* PostgreSQL gives p a row lock its statement waits for.                  *)
LockRow(p) ==
    /\ \E row \in Wants(p) :
         Free(row) /\ accHeld' = [accHeld EXCEPT ![p] = @ \cup {row}]
    /\ UNCHANGED <<accTables, accReq, accStage, accReply, registryRevoked>>

Holds(p, table) == {id \in DeviceIds \cup Pairings \cup Passkeys :
                      <<table, id>> \in accHeld[p]}

(* What revoke_account_dependencies and the two device revocations write   *)
(* is visible from the commit on.                                          *)
RevokeHeld(p) ==
    /\ deviceRow' = [d \in DeviceIds |->
                       IF d \in Holds(p, "device")
                       THEN [deviceRow[d] EXCEPT !.live = FALSE]
                       ELSE deviceRow[d]]
    /\ sessionRow' = [s \in SessionIds |->
                        IF s \in Holds(p, "session")
                        THEN [sessionRow[s] EXCEPT !.live = FALSE]
                        ELSE sessionRow[s]]
    /\ pairingRow' = [r \in Pairings |->
                        IF r \in Holds(p, "pairing")
                        THEN [pairingRow[r] EXCEPT !.revoked = TRUE]
                        ELSE pairingRow[r]]
    /\ passkeyLive' = [k \in Passkeys |->
                         passkeyLive[k] /\ k \notin Holds(p, "passkey")]

-----------------------------------------------------------------------------
(* approve_pairing_request_with_browser_proof is one UPDATE: it reads the  *)
(* browser session and the account from its snapshot, and the pairing row  *)
(* after waiting for its lock.                                             *)
ApproveRead(p) ==
    /\ accReq[p].op = "approve" /\ accStage[p] = "start"
    /\ IF Active(accReq[p].as) THEN AccContinue(p, "read")
                               ELSE Rollback(p, "refused")

ApproveUpdate(p) ==
    LET r == accReq[p].on
    IN /\ accReq[p].op = "approve" /\ accStage[p] = "read"
       /\ Free(<<"pairing", r>>)
       /\ IF pairingRow[r].by = None /\ ~pairingRow[r].consumed
               /\ ~pairingRow[r].revoked /\ ~pairingRow[r].expired
          THEN /\ pairingRow' = [pairingRow EXCEPT ![r].by = accReq[p].as]
               /\ Finish(p, "ok")
               /\ UNCHANGED <<userStatus, deviceRow, sessionRow, passkeyLive,
                              registryRevoked>>
          ELSE Rollback(p, "refused")

(* Mutant: the pairing row is read without FOR UPDATE.                     *)
CompleteRequestUnlocked(p) ==
    LET r == pairingRow[accReq[p].on]
    IN /\ accReq[p].op = "complete" /\ accStage[p] = "request"
       /\ CASE r.revoked \/ r.consumed \/ r.expired -> Rollback(p, "gone")
            [] r.by = None -> Rollback(p, "pending")
            [] OTHER -> AccContinue(p, "account")

(* Mutant: the answer pending leaves the transaction open.                 *)
CompleteRequestOpen(p) ==
    LET r == pairingRow[accReq[p].on]
    IN /\ accReq[p].op = "complete" /\ accStage[p] = "request"
       /\ Wants(p) = {}
       /\ CASE r.revoked \/ r.consumed \/ r.expired -> Rollback(p, "gone")
            [] r.by = None ->
                 /\ accStage' = [accStage EXCEPT ![p] = "done"]
                 /\ accReply' = [accReply EXCEPT ![p] = "pending"]
                 /\ UNCHANGED <<accTables, accHeld, registryRevoked>>
            [] OTHER -> AccContinue(p, "account")

(* complete_pairing_request: a proof that is malformed is refused at once. *)
CompleteStart(p) ==
    /\ accReq[p].op = "complete" /\ accStage[p] = "start"
    /\ AccContinue(p, "request") \/ Rollback(p, "unauthorized")

CompleteRequest(p) ==
    LET r == pairingRow[accReq[p].on]
    IN /\ accReq[p].op = "complete" /\ accStage[p] = "request"
       /\ Wants(p) = {}
       /\ CASE r.revoked \/ r.consumed \/ r.expired -> Rollback(p, "gone")
            [] r.by = None -> Rollback(p, "pending")
            [] OTHER -> AccContinue(p, "account")

(* Mutant: the account is read without FOR UPDATE.                         *)
CompleteAccountUnlocked(p) ==
    /\ accReq[p].op = "complete" /\ accStage[p] = "account"
    /\ IF Matching(p) = {} THEN Rollback(p, "gone") ELSE AccContinue(p, "insert")

(* The lock on the account serialises completions, so that the count of    *)
(* devices the next statement takes is still true at commit.               *)
CompleteAccount(p) ==
    /\ accReq[p].op = "complete" /\ accStage[p] = "account"
    /\ Wants(p) = {}
    /\ IF Matching(p) = {} THEN Rollback(p, "gone") ELSE AccContinue(p, "insert")

CompleteInsert(p) ==
    /\ accReq[p].op = "complete" /\ accStage[p] = "insert"
    /\ IF Cardinality(LiveDevices(OwnerOf(p))) < MaxDevices
       THEN AccContinue(p, "commit")
       ELSE Rollback(p, "limit")

(* The device, its session and the consumed request commit together; the   *)
(* answer may be lost.                                                     *)
CompleteCommit(p) ==
    /\ accReq[p].op = "complete" /\ accStage[p] = "commit"
    /\ deviceRow' = [deviceRow EXCEPT ![p] = [owner |-> OwnerOf(p),
                                              live |-> TRUE]]
    /\ sessionRow' = [sessionRow EXCEPT ![p] =
                        [owner |-> OwnerOf(p), device |-> p, live |-> TRUE,
                         expired |-> FALSE]]
    /\ pairingRow' = [pairingRow EXCEPT ![accReq[p].on].consumed = TRUE]
    /\ \E answer \in {"completed", "unavailable"} : Finish(p, answer)
    /\ UNCHANGED <<userStatus, passkeyLive, registryRevoked>>

-----------------------------------------------------------------------------
(* create_device_session: issue_device_session locks the device and then   *)
(* its account, revokes the device's sessions and inserts a new one.       *)
IssueStart(p) ==
    /\ accReq[p].op = "issue" /\ accStage[p] = "start"
    /\ AccContinue(p, "device") \/ Rollback(p, "unauthorized")

IssueDevice(p) ==
    /\ accReq[p].op = "issue" /\ accStage[p] = "device"
    /\ Wants(p) = {}
    /\ IF Matching(p) = {} THEN Rollback(p, "invalid")
                           ELSE AccContinue(p, "account")

IssueAccount(p) ==
    /\ accReq[p].op = "issue" /\ accStage[p] = "account"
    /\ Wants(p) = {}
    /\ IF Matching(p) = {} THEN Rollback(p, "invalid")
                           ELSE AccContinue(p, "sessions")

IssueCommit(p) ==
    LET d == accReq[p].on
    IN /\ accReq[p].op = "issue" /\ accStage[p] = "sessions"
       /\ Wants(p) = {}
       /\ sessionRow' = [s \in SessionIds |->
            IF s = p THEN [owner |-> deviceRow[d].owner, device |-> d,
                           live |-> TRUE, expired |-> FALSE]
            ELSE IF s \in Holds(p, "session")
                 THEN [sessionRow[s] EXCEPT !.live = FALSE]
                 ELSE sessionRow[s]]
       /\ \E answer \in {"issued", "unavailable"} : Finish(p, answer)
       /\ UNCHANGED <<userStatus, deviceRow, pairingRow, passkeyLive,
                      registryRevoked>>

-----------------------------------------------------------------------------
(* revoke_device authenticates a native session, revoke_browser_device a   *)
(* browser session and its CSRF proof.                                     *)
RevokeAuth(p) ==
    /\ accReq[p].op = "revoke" /\ accStage[p] = "start"
    /\ IF ActiveSession(accReq[p].as) THEN AccContinue(p, "device")
                                      ELSE Rollback(p, "unauthorized")

BrowserRevokeAuth(p) ==
    /\ accReq[p].op = "browser_revoke" /\ accStage[p] = "start"
    /\ IF Active(accReq[p].as) THEN AccContinue(p, "device")
                               ELSE Rollback(p, "unauthorized")

(* revoke_owned_device: the device, then its sessions.                     *)
RevokeDevice(p) ==
    /\ accReq[p].op \in {"revoke", "browser_revoke"} /\ accStage[p] = "device"
    /\ Wants(p) = {}
    /\ IF Matching(p) = {} THEN Rollback(p, "not_found")
                           ELSE AccContinue(p, "sessions")

(* After the commit the handler closes the control connection.             *)
RevokeCommit(p) ==
    /\ accReq[p].op \in {"revoke", "browser_revoke"}
    /\ accStage[p] = "sessions" /\ Wants(p) = {}
    /\ RevokeHeld(p)
    /\ accHeld' = [accHeld EXCEPT ![p] = {}]
    /\ \/ /\ accStage' = [accStage EXCEPT ![p] = "notify"]
          /\ UNCHANGED accReply
       \/ /\ accStage' = [accStage EXCEPT ![p] = "done"]
          /\ accReply' = [accReply EXCEPT ![p] = "unavailable"]
    /\ UNCHANGED <<userStatus, registryRevoked>>

RevokeNotify(p) ==
    /\ accStage[p] = "notify"
    /\ registryRevoked' = registryRevoked \cup {accReq[p].on}
    /\ Finish(p, "ok")
    /\ UNCHANGED accTables

-----------------------------------------------------------------------------
(* delete_account: a native session, then a browser session with a recent  *)
(* passkey assertion (which may be missing), then the transaction.         *)
DeleteAuth(p) ==
    /\ accReq[p].op = "delete" /\ accStage[p] = "start"
    /\ IF ActiveSession(accReq[p].as)
       THEN AccContinue(p, "account") \/ Rollback(p, "refused")
       ELSE Rollback(p, "unauthorized")

DeleteAccount(p) ==
    /\ accReq[p].op = "delete" /\ accStage[p] = "account"
    /\ Wants(p) = {}
    /\ IF Matching(p) = {} THEN Rollback(p, "unauthorized")
                           ELSE AccContinue(p, "devices")

(* deactivate_account_for_operator, after its confirmation phrase: an      *)
(* account with an admin identity is refused.                              *)
DeactivateStart(p) ==
    /\ accReq[p].op = "deactivate" /\ accStage[p] = "start"
    /\ AccContinue(p, "account") \/ Rollback(p, "refused")

DeactivateAccount(p) ==
    /\ accReq[p].op = "deactivate" /\ accStage[p] = "account"
    /\ Wants(p) = {}
    /\ CASE Matching(p) = {} -> Rollback(p, "not_found")
         [] accReq[p].on \in Protected -> Rollback(p, "refused")
         [] OTHER -> AccContinue(p, "devices")

(* revoke_account_dependencies: one UPDATE for each table.                 *)
RevokeDependencies(p) ==
    /\ accReq[p].op \in {"delete", "deactivate"}
    /\ Wants(p) = {}
    /\ \/ accStage[p] = "devices" /\ AccContinue(p, "sessions")
       \/ accStage[p] = "sessions" /\ AccContinue(p, "passkeys")
       \/ accStage[p] = "passkeys" /\ AccContinue(p, "requests")
       \/ accStage[p] = "requests" /\ AccContinue(p, "commit")

DeleteCommit(p) ==
    /\ accReq[p].op \in {"delete", "deactivate"} /\ accStage[p] = "commit"
    /\ userStatus' = [userStatus EXCEPT ![OwnerOf(p)] = "deleted"]
    /\ RevokeHeld(p)
    /\ \E answer \in {"ok", "unavailable"} : Finish(p, answer)
    /\ UNCHANGED registryRevoked

-----------------------------------------------------------------------------
(* revoke_device_for_operator.                                             *)
OperatorDevice(p) ==
    /\ accReq[p].op = "op_device"
    /\ \/ /\ accStage[p] = "start"
          /\ AccContinue(p, "device") \/ Rollback(p, "refused")
       \/ /\ accStage[p] = "device" /\ Wants(p) = {}
          /\ IF Matching(p) = {} THEN Rollback(p, "not_found")
                                 ELSE AccContinue(p, "sessions")
       \/ /\ accStage[p] = "sessions" /\ Wants(p) = {}
          /\ RevokeHeld(p)
          /\ \E answer \in {"ok", "unavailable"} : Finish(p, answer)
          /\ UNCHANGED <<userStatus, registryRevoked>>

(* revoke_credential_for_operator: the passkey, its account, then the      *)
(* count of the working passkeys.                                          *)
OperatorPasskey(p) ==
    /\ accReq[p].op = "op_passkey"
    /\ \/ /\ accStage[p] = "start"
          /\ AccContinue(p, "passkey") \/ Rollback(p, "refused")
       \/ /\ accStage[p] = "passkey" /\ Wants(p) = {}
          /\ IF Matching(p) = {} THEN Rollback(p, "not_found")
                                 ELSE AccContinue(p, "account")
       \/ /\ accStage[p] = "account" /\ Wants(p) = {}
          /\ IF Active(OwnerOf(p)) /\ Cardinality(LivePasskeys(OwnerOf(p))) <= 1
             THEN Rollback(p, "refused")
             ELSE AccContinue(p, "commit")
       \/ /\ accStage[p] = "commit"
          /\ RevokeHeld(p)
          /\ \E answer \in {"ok", "unavailable"} : Finish(p, answer)
          /\ UNCHANGED <<userStatus, registryRevoked>>

-----------------------------------------------------------------------------
(* A statement fails, or the server goes down with the request.            *)
AccFail(p) ==
    /\ accStage[p] \notin {"start", "notify", "done"}
    /\ Rollback(p, "unavailable")

(* PostgreSQL ends one transaction of a set in which each one waits for a  *)
(* row another one holds.                                                  *)
WaitsFor(p, q) == Wants(p) \cap accHeld[q] # {}

DeadlockVictim(p) ==
    /\ \E D \in SUBSET Procs :
         p \in D /\ \A x \in D : \E y \in D \ {x} : WaitsFor(x, y)
    /\ Rollback(p, "unavailable")

(* Time passes: pairing requests live ten minutes, sessions fifteen.       *)
ExpirePairing(r) ==
    /\ ~pairingRow[r].expired
    /\ pairingRow' = [pairingRow EXCEPT ![r].expired = TRUE]
    /\ UNCHANGED <<userStatus, deviceRow, sessionRow, passkeyLive, accReq,
                   accStage, accHeld, accReply, registryRevoked>>

ExpireSession(s) ==
    /\ sessionRow[s] # None /\ sessionRow[s].live /\ ~sessionRow[s].expired
    /\ sessionRow' = [sessionRow EXCEPT ![s].expired = TRUE]
    /\ UNCHANGED <<userStatus, deviceRow, pairingRow, passkeyLive, accReq,
                   accStage, accHeld, accReply, registryRevoked>>

AccStep(p) ==
    \/ LockRow(p)
    \/ /\ \/ ApproveRead(p) \/ ApproveUpdate(p)
          \/ CompleteStart(p) \/ CompleteRequest(p) \/ CompleteAccount(p)
          \/ CompleteInsert(p) \/ CompleteCommit(p)
          \/ IssueStart(p) \/ IssueDevice(p) \/ IssueAccount(p)
          \/ IssueCommit(p)
          \/ RevokeAuth(p) \/ BrowserRevokeAuth(p) \/ RevokeDevice(p)
          \/ RevokeCommit(p) \/ RevokeNotify(p)
          \/ DeleteAuth(p) \/ DeleteAccount(p) \/ DeactivateStart(p)
          \/ DeactivateAccount(p) \/ RevokeDependencies(p) \/ DeleteCommit(p)
          \/ OperatorDevice(p) \/ OperatorPasskey(p)
       /\ UNCHANGED accReq

AccNext ==
    \/ \E p \in Procs : AccStep(p)
    \/ \E p \in Procs : AccFail(p) /\ UNCHANGED accReq
    \/ \E p \in Procs : DeadlockVictim(p) /\ UNCHANGED accReq
    \/ \E r \in Pairings : ExpirePairing(r)
    \/ \E s \in SessionIds : ExpireSession(s)

(* tokio and the database run some request that can go on; a request has   *)
(* few steps, so this is enough for all of them.                           *)
AccProgress ==
    \E p \in Procs : AccStep(p) \/ (DeadlockVictim(p) /\ UNCHANGED accReq)

AccSpec == AccInit /\ [][AccNext]_accVars /\ WF_accVars(AccProgress)

-----------------------------------------------------------------------------
(* complete_pairing counts the devices of the account and then inserts one *)
(* more: completions of different requests that run at the same time never *)
(* take an account above MAX_ACCOUNT_DEVICES.                              *)
DeviceLimitHolds ==
    \A u \in Users : Cardinality(LiveDevices(u)) <= MaxDevices

(* However requests to create a session for one device overlap, the device *)
(* has one live session: issue_device_session revokes the previous ones.   *)
OneSessionPerDevice ==
    \A d \in DeviceIds : Cardinality(SessionsOf(d)) <= 1

(* Once delete_account or an operator's deactivation has committed, no     *)
(* device, session or passkey of the account is live, although pairings    *)
(* were being approved and completed and sessions issued meanwhile.        *)
DeletedHasNothing ==
    \A u \in Users : userStatus[u] = "deleted" =>
        LiveDevices(u) \cup LiveSessions(u) \cup LivePasskeys(u) = {}

(* A pairing request becomes one device at most, also when the desktop     *)
(* sends its completion twice because the first answer was lost.           *)
DeviceFromOneRequest ==
    \A p, q \in Procs :
        (/\ accReq[p].op = "complete" /\ accReq[q].op = "complete"
         /\ accReq[p].on = accReq[q].on
         /\ deviceRow[p] # None /\ deviceRow[q] # None) => p = q

(* A desktop that was told that its pairing is no longer available may     *)
(* forget it: no later completion of that request creates a device.        *)
GoneIsFinal ==
    [][\A p, q \in Procs :
         (/\ accReq[p].op = "complete" /\ accReq[q].op = "complete"
          /\ accReq[p].on = accReq[q].on /\ accReply[p] = "gone")
         => deviceRow'[q] = None \/ deviceRow[q] # None]_accVars

(* An operator who revokes passkeys, two at a time included, never leaves  *)
(* an active account without one.                                          *)
LastPasskeyKept ==
    \A u \in Users :
        (Active(u) /\ \E k \in Passkeys : PasskeyOwner[k] = u)
            => LivePasskeys(u) # {}

(* A revocation that was acknowledged holds: the device is revoked, has no *)
(* live session, not even one issued while it was being revoked, and its   *)
(* control connection was closed.                                          *)
AckedRevocationHolds ==
    \A p \in Procs :
        (accReply[p] = "ok" /\ accReq[p].op \in {"revoke", "browser_revoke"})
        => /\ ~deviceRow[accReq[p].on].live
           /\ SessionsOf(accReq[p].on) = {}
           /\ accReq[p].on \in registryRevoked

(* No request hangs: transactions that lock devices, accounts, pairing     *)
(* rows and passkeys in different orders end all the same, since the       *)
(* database ends one transaction of a deadlock, and each is answered.      *)
RequestsFinish == []<>(\A p \in Procs : accStage[p] \in {"start", "done"})

(* What the transactions on accounts, devices, sessions, pairings and      *)
(* passkeys keep, however their statements interleave.                     *)
AccountSafe ==
    /\ AccTypeOK /\ DeviceLimitHolds /\ OneSessionPerDevice /\ DeletedHasNothing
    /\ DeviceFromOneRequest /\ LastPasskeyKept /\ AckedRevocationHolds
=============================================================================
