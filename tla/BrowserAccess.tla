---------------------------- MODULE BrowserAccess ----------------------------
(***************************************************************************)
(* Passkey ceremonies and browser sessions.  A handler is a sequence of    *)
(* database statements (the registration is one transaction); other        *)
(* requests, and time, pass between two of them.  An account is named by   *)
(* the challenge that registered it, or by its authenticator when it       *)
(* existed before.                                                         *)
(***************************************************************************)
EXTENDS Integers

CONSTANTS Challenges, Authenticators, BrowserSessions, BrowserProcs,
          Members,          \* authenticators of accounts that already exist
          ChallengeLife, IdleLife, AbsoluteLife, Recent,
          MaxClock, MaxCount, MaxProofs, Unset

VARIABLES challengeRow,  \* webauthn_challenges
          person,        \* status of the accounts
          credentialRow, \* passkey_credentials
          browserRow,    \* browser_sessions
          clock,         \* the clock of PostgreSQL
          signed,        \* the counter inside each authenticator
          serving        \* what each request is doing

browserVars == <<challengeRow, person, credentialRow, browserRow, clock,
                 signed, serving>>
browserData == <<challengeRow, person, credentialRow, browserRow>>

ASSUME BrowserAssumption ==
    /\ {ChallengeLife, IdleLife, Recent, MaxClock, MaxCount, MaxProofs} \subseteq Nat
    /\ AbsoluteLife \in Nat /\ IdleLife <= AbsoluteLife
    /\ Members \subseteq Authenticators /\ Challenges \cap Members = {}

People == Challenges \cup Members
ChallengeRow == [kind : {"registration", "authentication"}, used : BOOLEAN,
                 expires : Nat]
CredentialRow == [owner : People, count : Nat, live : BOOLEAN]
BrowserRow == [owner : People, from : Challenges, expires : Nat, absolute : Nat,
               revoked : BOOLEAN, proof : Nat, assertedAt : Nat]
ASSUME UnsetAssumption == Unset \notin ChallengeRow \cup CredentialRow \cup BrowserRow

Serving == [stage : {"idle", "register", "find", "consume", "advance", "create",
                     "renew", "act"},
            on : Challenges \cup BrowserSessions \cup {Unset},
            key : Authenticators \cup {Unset}, number : Nat,
            then : {"none", "logout"}]
NotServing == [stage |-> "idle", on |-> Unset, key |-> Unset, number |-> 0,
         then |-> "none"]

BrowserTypeOK ==
    /\ challengeRow \in [Challenges -> ChallengeRow \cup {Unset}]
    /\ person \in [People -> {"none", "active", "deleted"}]
    /\ credentialRow \in [Authenticators -> CredentialRow \cup {Unset}]
    /\ browserRow \in [BrowserSessions -> BrowserRow \cup {Unset}]
    /\ clock \in 0..MaxClock
    /\ signed \in [Authenticators -> Nat]
    /\ serving \in [BrowserProcs -> Serving]

BrowserInit ==
    /\ challengeRow = [c \in Challenges |-> Unset]
    /\ person = [u \in People |-> IF u \in Members THEN "active" ELSE "none"]
    /\ credentialRow = [a \in Authenticators |->
         IF a \in Members THEN [owner |-> a, count |-> 0, live |-> TRUE]
                          ELSE Unset]
    /\ browserRow = [s \in BrowserSessions |-> Unset]
    /\ clock = 0
    /\ signed = [a \in Authenticators |-> 0]
    /\ serving = [p \in BrowserProcs |-> NotServing]

-----------------------------------------------------------------------------
(* The store.                                                              *)
UsableChallenge(c, kind) ==
    /\ challengeRow[c] # Unset /\ challengeRow[c].kind = kind
    /\ ~challengeRow[c].used /\ challengeRow[c].expires > clock

(* Not revoked, not idle for too long, and the account is active: what     *)
(* rotate_browser_csrf, logout_browser_session and the check for a recent  *)
(* assertion look at.  The other lookups add the absolute end.             *)
UnexpiredBrowser(s) ==
    /\ browserRow[s] # Unset /\ ~browserRow[s].revoked
    /\ browserRow[s].expires > clock
    /\ person[browserRow[s].owner] = "active"

LiveBrowser(s) == UnexpiredBrowser(s) /\ browserRow[s].absolute > clock

RecentlyAsserted(s) ==
    UnexpiredBrowser(s) /\ browserRow[s].assertedAt > clock - Recent

NewBrowserRow(u, c) ==
    [owner |-> u, from |-> c, expires |-> clock + IdleLife,
     absolute |-> clock + AbsoluteLife, revoked |-> FALSE, proof |-> 0,
     assertedAt |-> clock]

(* LEAST of the database.                                                  *)
Least(m, n) == IF m <= n THEN m ELSE n

UnusedSessions == {s \in BrowserSessions : browserRow[s] = Unset}
FreshSession == CHOOSE s \in UnusedSessions : TRUE

(* consume_webauthn_challenge as one UPDATE.                               *)
ConsumeChallenge(c) ==
    IF UsableChallenge(c, "authentication")
    THEN [challengeRow EXCEPT ![c].used = TRUE] ELSE challengeRow

AdvanceAllowed(a, n) ==
    /\ credentialRow[a].live
    /\ n >= credentialRow[a].count
    /\ ~(credentialRow[a].count > 0 /\ n = 0)

RenewExpired(s) ==
    LET b == browserRow[s] IN
    IF ~b.revoked /\ 2 * (b.expires - clock) < IdleLife
    THEN [b EXCEPT !.expires = Least(clock + IdleLife, b.absolute)] ELSE b

Renewed(s) ==
    LET b == browserRow[s] IN
    IF ~b.revoked /\ b.expires > clock /\ 2 * (b.expires - clock) < IdleLife
    THEN [b EXCEPT !.expires = Least(clock + IdleLife, b.absolute)] ELSE b

-----------------------------------------------------------------------------
(* The handlers.                                                           *)
BrowserGoto(p, stage) == serving' = [serving EXCEPT ![p].stage = stage]
BrowserDone(p) == serving' = [serving EXCEPT ![p] = NotServing]
Began(p, stage, on, key, n, then) ==
    /\ serving[p] = NotServing
    /\ serving' = [serving EXCEPT ![p] = [stage |-> stage, on |-> on,
                     key |-> key, number |-> n, then |-> then]]

(* create_webauthn_challenge_for_minutes, and the two handlers that call   *)
(* it.                                                                     *)
CreateChallenge(c, kind) ==
    /\ challengeRow[c] = Unset
    /\ challengeRow' = [challengeRow EXCEPT ![c] =
         [kind |-> kind, used |-> FALSE, expires |-> clock + ChallengeLife]]
    /\ UNCHANGED <<person, credentialRow, browserRow, clock, signed, serving>>

RegistrationOptions(c) == CreateChallenge(c, "registration")
AuthenticationOptions(c) == CreateChallenge(c, "authentication")

(* registration_verify loads the challenge and checks the response of the  *)
(* authenticator.                                                          *)
RegistrationLoad(p, c, a) ==
    /\ UsableChallenge(c, "registration")
    /\ Began(p, "register", c, a, signed[a], "none")
    /\ UNCHANGED <<browserData, clock, signed>>

(* complete_passkey_registration: the challenge, the account, the passkey  *)
(* and the session, or nothing.                                            *)
RegistrationComplete(p) ==
    LET c == serving[p].on
        a == serving[p].key
    IN /\ serving[p].stage = "register" /\ UnusedSessions # {}
       /\ IF UsableChallenge(c, "registration") /\ credentialRow[a] = Unset
          THEN /\ challengeRow' = [challengeRow EXCEPT ![c].used = TRUE]
               /\ person' = [person EXCEPT ![c] = "active"]
               /\ credentialRow' = [credentialRow EXCEPT ![a] =
                    [owner |-> c, count |-> serving[p].number, live |-> TRUE]]
               /\ browserRow' = [browserRow EXCEPT ![FreshSession] =
                                   NewBrowserRow(c, c)]
          ELSE UNCHANGED browserData
       /\ BrowserDone(p)
       /\ UNCHANGED <<clock, signed>>

(* authentication_verify: the authenticator has signed and counted; the    *)
(* challenge is loaded,                                                    *)
AuthenticationLoad(p, c, a) ==
    /\ UsableChallenge(c, "authentication")
    /\ \E n \in {signed[a], signed[a] + 1} :
         /\ n <= MaxCount
         /\ signed' = [signed EXCEPT ![a] = n]
         /\ Began(p, "find", c, a, n, "none")
    /\ UNCHANGED <<browserData, clock>>

(* the credential of the account the response names is looked up and the   *)
(* signature verified,                                                     *)
AuthenticationFind(p) ==
    LET a == serving[p].key IN
    /\ serving[p].stage = "find"
    /\ IF credentialRow[a] # Unset /\ credentialRow[a].live
       THEN BrowserGoto(p, "consume")
       ELSE BrowserDone(p)
    /\ UNCHANGED <<browserData, clock, signed>>

(* Mutant: the number of rows the UPDATE changed is not looked at.         *)
AuthenticationConsumeAnyway(p) ==
    LET c == serving[p].on IN
    /\ serving[p].stage = "consume"
    /\ challengeRow' = ConsumeChallenge(c)
    /\ BrowserGoto(p, "advance")
    /\ UNCHANGED <<person, credentialRow, browserRow, clock, signed>>

(* the challenge is consumed,                                              *)
AuthenticationConsume(p) ==
    LET c == serving[p].on IN
    /\ serving[p].stage = "consume"
    /\ challengeRow' = ConsumeChallenge(c)
    /\ IF challengeRow' # challengeRow THEN BrowserGoto(p, "advance")
                                       ELSE BrowserDone(p)
    /\ UNCHANGED <<person, credentialRow, browserRow, clock, signed>>

(* the counter is advanced,                                                *)
AuthenticationAdvance(p) ==
    LET a == serving[p].key IN
    /\ serving[p].stage = "advance"
    /\ IF AdvanceAllowed(a, serving[p].number)
       THEN /\ credentialRow' = [credentialRow EXCEPT ![a].count =
                                   serving[p].number]
            /\ BrowserGoto(p, "create")
       ELSE BrowserDone(p) /\ UNCHANGED credentialRow
    /\ UNCHANGED <<challengeRow, person, browserRow, clock, signed>>

(* and the session is created if the account is still active.              *)
AuthenticationCreate(p) ==
    LET u == credentialRow[serving[p].key].owner IN
    /\ serving[p].stage = "create" /\ UnusedSessions # {}
    /\ browserRow' = IF person[u] = "active"
                     THEN [browserRow EXCEPT ![FreshSession] =
                             NewBrowserRow(u, serving[p].on)]
                     ELSE browserRow
    /\ BrowserDone(p)
    /\ UNCHANGED <<challengeRow, person, credentialRow, clock, signed>>

(* browser_mutation_owner and browser_session_user: the cookie, and for a  *)
(* change the proof, are looked up; then the session is renewed.           *)
ResolveBrowser(p, s, then) ==
    /\ LiveBrowser(s)
    /\ Began(p, "renew", s, Unset, browserRow[s].proof, then)
    /\ UNCHANGED <<browserData, clock, signed>>

RenewBrowser(p) ==
    /\ serving[p].stage = "renew"
    /\ browserRow' = [browserRow EXCEPT ![serving[p].on] =
                        Renewed(serving[p].on)]
    /\ IF serving[p].then = "logout" THEN BrowserGoto(p, "act")
                                     ELSE BrowserDone(p)
    /\ UNCHANGED <<challengeRow, person, credentialRow, clock, signed>>

(* logout_browser_session.                                                 *)
LogoutBrowser(p) ==
    LET s == serving[p].on IN
    /\ serving[p].stage = "act"
    /\ browserRow' = IF /\ ~browserRow[s].revoked /\ browserRow[s].expires > clock
                        /\ browserRow[s].proof = serving[p].number
                     THEN [browserRow EXCEPT ![s].revoked = TRUE]
                     ELSE browserRow
    /\ BrowserDone(p)
    /\ UNCHANGED <<challengeRow, person, credentialRow, clock, signed>>

(* browser_session: a new proof for the cookie.                            *)
RotateProof(s) ==
    /\ UnexpiredBrowser(s) /\ browserRow[s].proof < MaxProofs
    /\ browserRow' = [browserRow EXCEPT ![s].proof = @ + 1]
    /\ UNCHANGED <<challengeRow, person, credentialRow, clock, signed, serving>>

(* delete_account needs a session with a recent assertion; it revokes the  *)
(* passkeys and the sessions of the account.                               *)
DeleteByBrowser(s) ==
    LET u == browserRow[s].owner IN
    /\ RecentlyAsserted(s)
    /\ person' = [person EXCEPT ![u] = "deleted"]
    /\ credentialRow' = [a \in Authenticators |->
         IF credentialRow[a] # Unset /\ credentialRow[a].owner = u
         THEN [credentialRow[a] EXCEPT !.live = FALSE] ELSE credentialRow[a]]
    /\ browserRow' = [t \in BrowserSessions |->
         IF browserRow[t] # Unset /\ browserRow[t].owner = u
         THEN [browserRow[t] EXCEPT !.revoked = TRUE] ELSE browserRow[t]]
    /\ UNCHANGED <<challengeRow, clock, signed, serving>>

(* A statement fails: what was committed before it stays.                  *)
BrowserFail(p) ==
    /\ serving[p] # NotServing
    /\ BrowserDone(p)
    /\ UNCHANGED <<browserData, clock, signed>>

BrowserTick ==
    /\ clock < MaxClock /\ clock' = clock + 1
    /\ UNCHANGED <<browserData, signed, serving>>

BrowserStep(p) ==
    \/ \E c \in Challenges, a \in Authenticators :
         RegistrationLoad(p, c, a) \/ AuthenticationLoad(p, c, a)
    \/ RegistrationComplete(p)
    \/ AuthenticationFind(p) \/ AuthenticationConsume(p)
    \/ AuthenticationAdvance(p) \/ AuthenticationCreate(p)
    \/ \E s \in BrowserSessions, then \in {"none", "logout"} :
         ResolveBrowser(p, s, then)
    \/ RenewBrowser(p) \/ LogoutBrowser(p)
    \/ BrowserFail(p)

BrowserNext ==
    \/ \E p \in BrowserProcs : BrowserStep(p)
    \/ \E c \in Challenges : RegistrationOptions(c) \/ AuthenticationOptions(c)
    \/ \E s \in BrowserSessions : RotateProof(s) \/ DeleteByBrowser(s)
    \/ BrowserTick

BrowserSpec == BrowserInit /\ [][BrowserNext]_browserVars

-----------------------------------------------------------------------------
(* A challenge is good for one session: two verifications that both loaded *)
(* it, or a retry after a lost answer, do not both sign in.                *)
ChallengeUsedOnce ==
    \A s, t \in BrowserSessions :
        (/\ browserRow[s] # Unset /\ browserRow[t] # Unset
         /\ browserRow[s].from = browserRow[t].from) => s = t

(* The stored signature counter never goes back, although assertions that  *)
(* were verified against an older value arrive in any order.               *)
SignCountNeverBack ==
    \A a \in Authenticators :
        credentialRow[a] # Unset => credentialRow'[a].count >= credentialRow[a].count

(* A registration leaves an account with its passkey and a session, or     *)
(* nothing at all: a passkey registered twice, an expired or used          *)
(* challenge or a failure leaves no account behind.                        *)
RegisteredWhole ==
    \A c \in Challenges : person[c] # "none" <=>
        /\ challengeRow[c] # Unset /\ challengeRow[c].kind = "registration"
        /\ challengeRow[c].used
        /\ \E a \in Authenticators : credentialRow[a] # Unset
                                       /\ credentialRow[a].owner = c

(* Three statements leave out the absolute end of a session.  They accept  *)
(* nothing that the others refuse, since renewal never moves the idle end  *)
(* past the absolute one.                                                  *)
AbsoluteEndHolds ==
    \A s \in BrowserSessions : UnexpiredBrowser(s) => LiveBrowser(s)

(* A session that has ended (logout, expiry, deletion of the account)      *)
(* never works again, also when the request that renews it had found it    *)
(* alive.                                                                  *)
EndedStaysEnded ==
    \A s \in BrowserSessions :
        (browserRow[s] # Unset /\ ~LiveBrowser(s)) => ~LiveBrowser(s)'

(* What the handlers of http/auth.rs and http/account.rs keep between      *)
(* them: one session for a challenge, whole registrations, and no session  *)
(* beyond its absolute end, although each request is several statements.   *)
BrowserSafe == ChallengeUsedOnce /\ RegisteredWhole /\ AbsoluteEndHolds

(* What no statement of them may do: take a signature counter back, or     *)
(* bring an ended session to life again.                                   *)
BrowserSteps == [][SignCountNeverBack /\ EndedStaysEnded]_browserVars
=============================================================================
