----------------------------- MODULE AdminAccess -----------------------------
(***************************************************************************)
(* Administration: the one administrator, login with its lock after failed *)
(* attempts, bearer sessions that are rotated or ended, the record of      *)
(* requests and the paged lists of the console.  A request is a sequence   *)
(* of database statements; any other request may run between two of them.  *)
(***************************************************************************)
EXTENDS Integers, Sequences, SequencesExt, FiniteSetsExt, Sample

CONSTANTS AdminProcs, AdminSessions, AdminNames,
          SessionTtl, LockoutAfter, LockWindow, AuditRetention,
          MaxAdminNow, Nobody

VARIABLES admin,       \* the name of the administrator, or Nobody
          adminSession,\* admin_sessions
          adminNow,    \* the clock of PostgreSQL
          failed,      \* times of the failed login attempts
          audit,       \* times of the recorded requests
          adminReq,    \* what each request is doing
          knows,       \* whether those who log in know the password
          ended        \* history: logins whose session was ended by logout

adminVars == <<admin, adminSession, adminNow, failed, audit, adminReq, knows, ended>>

ASSUME AdminAssumption ==
    {SessionTtl, LockoutAfter, LockWindow, AuditRetention, MaxAdminNow} \subseteq Nat

NoSession == [state |-> "free", expires |-> 0, login |-> Nobody]
NoRequest == [stage |-> "idle", session |-> Nobody, fresh |-> Nobody, at |-> 0]

AdminTypeOK ==
    /\ admin \in AdminNames \cup {Nobody}
    /\ adminSession \in [AdminSessions ->
         [state : {"free", "live", "revoked"}, expires : Nat,
          login : AdminSessions \cup {Nobody}]]
    /\ adminNow \in 0..MaxAdminNow
    /\ failed \in Seq(0..MaxAdminNow) /\ audit \subseteq 0..MaxAdminNow
    /\ adminReq \in [AdminProcs ->
         [stage : {"idle", "credential", "create", "failed", "logout",
                   "insert", "revoke", "page", "record"},
          session : AdminSessions \cup {Nobody},
          fresh : AdminSessions \cup {Nobody}, at : 0..MaxAdminNow]]
    /\ knows \in BOOLEAN /\ ended \subseteq AdminSessions

AdminInit ==
    /\ admin = Nobody
    /\ adminSession = [s \in AdminSessions |-> NoSession]
    /\ adminNow = 0 /\ failed = <<>> /\ audit = {}
    /\ adminReq = [p \in AdminProcs |-> NoRequest]
    /\ knows \in BOOLEAN
    /\ ended = {}

-----------------------------------------------------------------------------
(* The store.                                                              *)
ActiveAdminSession(s) ==
    adminSession[s].state = "live" /\ adminSession[s].expires > adminNow

RecentFailures ==
    Len(SelectSeq(failed, LAMBDA t : t > adminNow - LockWindow))

LiveSession(at, login) ==
    [state |-> "live", expires |-> at + SessionTtl, login |-> login]

(* Mutant: the number of rows the UPDATE changed is not looked at.         *)
RotateCommitUnchecked(old, fresh, at) ==
    [adminSession EXCEPT ![old].state = "revoked",
                         ![fresh] = LiveSession(at, adminSession[old].login)]

(* rotate_session, second half: it takes effect only if the old session is *)
(* still there to be revoked.                                              *)
RotateCommit(old, fresh, at) ==
    IF adminSession[old].state = "live"
    THEN [adminSession EXCEPT ![old].state = "revoked",
                              ![fresh] = LiveSession(at, adminSession[old].login)]
    ELSE adminSession

(* record_request: the new record, and nothing older than the retention.   *)
RecordRequest == {t \in audit \cup {adminNow} : t >= adminNow - AuditRetention}

-----------------------------------------------------------------------------
(* The handlers.                                                           *)
AdminGoto(p, stage) ==
    adminReq' = [adminReq EXCEPT ![p].stage = stage]
AdminDone(p) == adminReq' = [adminReq EXCEPT ![p] = NoRequest]

Unused == {s \in AdminSessions : adminSession[s].state = "free"
             /\ \A p \in AdminProcs : adminReq[p].fresh # s}
NewSession == CHOOSE s \in Unused : TRUE

(* bootstrap_admin: one statement, and an index that allows one row.       *)
BootstrapAdmin(name) ==
    /\ admin' = IF admin = Nobody THEN name ELSE admin
    /\ UNCHANGED <<adminSession, adminNow, failed, audit, adminReq, ended, knows>>

(* login: the lock is looked up first, then the credential is read and the *)
(* password verified; each result is recorded later.                       *)
LoginStart(p) ==
    /\ adminReq[p].stage = "idle" /\ Len(failed) < 2 * LockoutAfter
    /\ RecentFailures < LockoutAfter
    /\ AdminGoto(p, "credential")
    /\ UNCHANGED <<admin, adminSession, adminNow, failed, audit, ended, knows>>

LoginVerify(p) ==
    /\ adminReq[p].stage = "credential"
    /\ AdminGoto(p, IF knows /\ admin # Nobody THEN "create" ELSE "failed")
    /\ UNCHANGED <<admin, adminSession, adminNow, failed, audit, ended, knows>>

LoginFailed(p) ==
    /\ adminReq[p].stage = "failed"
    /\ failed' = Append(failed, adminNow)
    /\ AdminDone(p)
    /\ UNCHANGED <<admin, adminSession, adminNow, audit, ended, knows>>

LoginCreate(p) ==
    /\ adminReq[p].stage = "create"
    /\ Unused # {}
    /\ adminSession' = [adminSession EXCEPT ![NewSession] =
                          LiveSession(adminNow, NewSession)]
    /\ AdminDone(p)
    /\ UNCHANGED <<admin, adminNow, failed, audit, ended, knows>>

(* rotate: refresh and logout find the session of the bearer first.        *)
FindSession(p, s, next) ==
    /\ adminReq[p].stage = "idle" /\ ActiveAdminSession(s)
    /\ adminReq' = [adminReq EXCEPT ![p].stage = next, ![p].session = s]
    /\ UNCHANGED <<admin, adminSession, adminNow, failed, audit, ended, knows>>

RefreshInsert(p) ==
    /\ adminReq[p].stage = "insert"
    /\ Unused # {}
    /\ IF ActiveAdminSession(adminReq[p].session)
       THEN adminReq' = [adminReq EXCEPT ![p].stage = "revoke",
                           ![p].fresh = NewSession, ![p].at = adminNow]
       ELSE AdminDone(p)
    /\ UNCHANGED <<admin, adminSession, adminNow, failed, audit, ended, knows>>

RefreshRevoke(p) ==
    LET r == adminReq[p] IN
    /\ r.stage = "revoke"
    /\ adminSession' = RotateCommit(r.session, r.fresh, r.at)
    /\ adminReq' = [adminReq EXCEPT ![p] =
         [NoRequest EXCEPT !.stage = IF adminSession'[r.fresh].state = "live"
                                     THEN "record" ELSE "idle"]]
    /\ UNCHANGED <<admin, adminNow, failed, audit, ended, knows>>

LogoutRevoke(p) ==
    LET s == adminReq[p].session IN
    /\ adminReq[p].stage = "logout"
    /\ IF adminSession[s].state = "live"
       THEN /\ adminSession' = [adminSession EXCEPT ![s].state = "revoked"]
            /\ ended' = ended \cup {adminSession[s].login}
            /\ adminReq' = [adminReq EXCEPT ![p] =
                              [NoRequest EXCEPT !.stage = "record"]]
       ELSE /\ AdminDone(p)
            /\ UNCHANGED <<adminSession, ended>>
    /\ UNCHANGED <<admin, adminNow, failed, audit, knows>>

(* The lists of the console read and are recorded; a record may be lost.   *)
ConsolePage(p) ==
    /\ adminReq[p].stage = "page"
    /\ adminReq' = [adminReq EXCEPT ![p] = [NoRequest EXCEPT !.stage = "record"]]
    /\ UNCHANGED <<admin, adminSession, adminNow, failed, audit, ended, knows>>

RecordDone(p, ok) ==
    /\ adminReq[p].stage = "record"
    /\ audit' = IF ok THEN RecordRequest ELSE audit
    /\ AdminDone(p)
    /\ UNCHANGED <<admin, adminSession, adminNow, failed, ended, knows>>

(* Any statement may fail; the request ends and changes nothing more.      *)
AdminFail(p) ==
    /\ adminReq[p].stage # "idle"
    /\ AdminDone(p)
    /\ UNCHANGED <<admin, adminSession, adminNow, failed, audit, ended, knows>>

AdminTick ==
    /\ adminNow < MaxAdminNow /\ adminNow' = adminNow + 1
    /\ UNCHANGED <<admin, adminSession, failed, audit, adminReq, ended, knows>>

AdminStep(p) ==
    \/ LoginStart(p) \/ LoginVerify(p) \/ LoginFailed(p) \/ LoginCreate(p)
    \/ \E s \in AdminSessions, next \in {"insert", "logout", "page"} :
          FindSession(p, s, next)
    \/ RefreshInsert(p) \/ RefreshRevoke(p) \/ LogoutRevoke(p)
    \/ ConsolePage(p) \/ AdminFail(p)
    \/ \E ok \in BOOLEAN : RecordDone(p, ok)

AdminNext ==
    \/ \E p \in AdminProcs : AdminStep(p)
    \/ \E name \in AdminNames : BootstrapAdmin(name)
    \/ AdminTick

AdminSpec == AdminInit /\ [][AdminNext]_adminVars

-----------------------------------------------------------------------------
(* page and its three callers: one row more than the page is read to learn *)
(* whether more follow.                                                    *)
RowWindow(rows, offset, n) ==
    LET end == Min({Len(rows), offset + n})
    IN IF offset >= end THEN <<>> ELSE SubSeq(rows, offset + 1, end)

PageOfRows(rows, limit, offset) ==
    LET read == RowWindow(rows, offset, limit + 1)
    IN [items |-> RowWindow(read, 0, limit), more |-> Len(read) > limit]

-----------------------------------------------------------------------------
(* No two bearers of one login are usable at any time: two refreshes of a  *)
(* session, or a refresh and a logout, leave at most one.                  *)
OneBearerPerLogin ==
    \A s, t \in AdminSessions :
        /\ adminSession[s].state = "live" /\ adminSession[t].state = "live"
        /\ adminSession[s].login = adminSession[t].login
        => s = t

(* A logout that was answered ends the login: a refresh that had already   *)
(* inserted its replacement does not bring it back.                        *)
LogoutIsFinal ==
    \A s \in AdminSessions :
        adminSession[s].login \in ended => adminSession[s].state # "live"

(* The lock looks at recorded failures, and requests that passed it may    *)
(* still fail: failures within the window exceed the limit by no more than *)
(* the requests under way.                                                 *)
FailuresBounded ==
    RecentFailures < LockoutAfter + Cardinality(AdminProcs)

(* The pages of a list, followed by offset while more are announced, are   *)
(* the whole list without repetition.                                      *)
PagesAreWhole ==
    sample.of = "page" =>
        LET n == sample.value[1]
            limit == sample.value[2]
            rows == [i \in 1..n |-> i]
            pages == (n + limit - 1) \div limit
            page(k) == PageOfRows(rows, limit, (k - 1) * limit)
        IN /\ FlattenSeq([k \in 1..pages |-> page(k).items]) = rows
           /\ \A k \in 1..pages : page(k).more <=> k < pages

(* The administrator's sessions of http/admin_auth.rs, whatever logins,    *)
(* refreshes and logouts overlap.                                          *)
AdminSafe == OneBearerPerLogin /\ LogoutIsFinal /\ FailuresBounded
=============================================================================
