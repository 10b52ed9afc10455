----------------------- MODULE BrowserAccess_proofs -------------------------
(***************************************************************************)
(* Browser sessions and passkeys for any number of challenges, sessions,   *)
(* authenticators and requests, and for any life times.  A handler reads   *)
(* in one statement and writes in a later one; the invariant says what is  *)
(* still true in between, above all that a consumed challenge is in the    *)
(* hands of one request until it has become one session.                   *)
(***************************************************************************)
EXTENDS BrowserAccess, TLAPS

(* The provers of a step, unless it names one, and their time.             *)
USE ZenonT(5), SMTT(30)

(* What a request may rely on, at each of its statements.                  *)
Holding(v) == v.stage \in {"advance", "create"}
ProcOK(v) ==
    /\ v.stage \in {"register", "find", "consume", "advance", "create"} =>
           v.on \in Challenges /\ v.key \in Authenticators /\ challengeRow[v.on] # Unset
    /\ v.stage \in {"consume", "advance", "create"} => credentialRow[v.key] # Unset
    /\ Holding(v) => challengeRow[v.on].used
    /\ v.stage \in {"renew", "act"} => v.on \in BrowserSessions /\ browserRow[v.on] # Unset
ProcInv == \A p \in BrowserProcs : ProcOK(serving[p])

(* A consumed challenge is held by one request, and no session came of it. *)
TicketInv ==
    \A p \in BrowserProcs : Holding(serving[p]) =>
        /\ \A q \in BrowserProcs :
               Holding(serving[q]) /\ serving[q].on = serving[p].on => q = p
        /\ \A s \in BrowserSessions :
               browserRow[s] # Unset => browserRow[s].from # serving[p].on

(* A session comes from a consumed challenge, of an account that exists or *)
(* existed, and ends by its absolute end.                                  *)
RowOK(b) ==
    /\ challengeRow[b.from] # Unset /\ challengeRow[b.from].used
    /\ person[b.owner] # "none"
    /\ b.expires <= b.absolute
SessionInv == \A s \in BrowserSessions : browserRow[s] # Unset => RowOK(browserRow[s])

BrowserInv ==
    /\ BrowserTypeOK /\ ProcInv /\ TicketInv /\ SessionInv
    /\ ChallengeUsedOnce /\ RegisteredWhole

-----------------------------------------------------------------------------
(* What every statement does to the rows that exist.                       *)
RowStep(b, c) ==
    /\ c.owner = b.owner /\ c.from = b.from /\ c.absolute = b.absolute
    /\ b.revoked => c.revoked
    /\ c.expires <= c.absolute
    /\ c.expires # b.expires => b.expires > clock
Grows ==
    /\ \A c \in Challenges : challengeRow[c] # Unset =>
           challengeRow'[c] # Unset /\ (challengeRow[c].used => challengeRow'[c].used)
    /\ \A a \in Authenticators : credentialRow[a] # Unset =>
           credentialRow'[a] # Unset /\ credentialRow'[a].count >= credentialRow[a].count
    /\ \A s \in BrowserSessions : browserRow[s] # Unset =>
           browserRow'[s] # Unset /\ RowStep(browserRow[s], browserRow'[s])
    /\ \A u \in People : /\ person[u] # "none" => person'[u] # "none"
                         /\ person'[u] = "active" => person[u] # "deleted"
    /\ clock' \in Nat /\ clock' >= clock
NoNewSession == \A s \in BrowserSessions : browserRow[s] = Unset => browserRow'[s] = Unset

(* What a registration is made of.                                         *)
Registered(c) ==
    challengeRow[c] # Unset /\ challengeRow[c].kind = "registration" /\ challengeRow[c].used
Owns(a, c) == credentialRow[a] # Unset /\ credentialRow[a].owner = c
NoNewAccount ==
    \A c \in Challenges :
        /\ person'[c] # "none" <=> person[c] # "none"
        /\ Registered(c)' <=> Registered(c)
        /\ \A a \in Authenticators : Owns(a, c)' <=> Owns(a, c)

(* What a type says of the rows of a table.                                *)
LEMMA RowTypes ==
    ASSUME BrowserTypeOK
    PROVE  /\ \A c \in Challenges : challengeRow[c] # Unset =>
                  /\ challengeRow[c] \in ChallengeRow
                  /\ challengeRow[c].used \in BOOLEAN /\ challengeRow[c].expires \in Nat
           /\ \A a \in Authenticators : credentialRow[a] # Unset =>
                  /\ credentialRow[a] \in CredentialRow
                  /\ credentialRow[a].owner \in People /\ credentialRow[a].count \in Nat
           /\ \A s \in BrowserSessions : browserRow[s] # Unset =>
                  /\ browserRow[s] \in BrowserRow
                  /\ browserRow[s].owner \in People /\ browserRow[s].from \in Challenges
                  /\ browserRow[s].expires \in Nat /\ browserRow[s].absolute \in Nat
                  /\ browserRow[s].revoked \in BOOLEAN
           /\ clock \in Nat
<1>1. \A c \in Challenges : challengeRow[c] # Unset => challengeRow[c] \in ChallengeRow
    BY DEF BrowserTypeOK
<1>2. \A a \in Authenticators : credentialRow[a] # Unset => credentialRow[a] \in CredentialRow
    BY DEF BrowserTypeOK
<1>3. \A s \in BrowserSessions : browserRow[s] # Unset => browserRow[s] \in BrowserRow
    BY DEF BrowserTypeOK
<1>4. clock \in Nat
    <2>1. clock \in 0 .. MaxClock /\ MaxClock \in Nat
        BY BrowserAssumption DEF BrowserTypeOK
    <2> QED BY <2>1, SMT
<1>5. \A r \in ChallengeRow : r.used \in BOOLEAN /\ r.expires \in Nat
    BY DEF ChallengeRow
<1>6. \A r \in CredentialRow : r.owner \in People /\ r.count \in Nat
    BY DEF CredentialRow
<1>7. \A r \in BrowserRow : /\ r.owner \in People /\ r.from \in Challenges
                            /\ r.expires \in Nat /\ r.absolute \in Nat
                            /\ r.revoked \in BOOLEAN
    BY DEF BrowserRow
<1> QED BY <1>1, <1>2, <1>3, <1>4, <1>5, <1>6, <1>7

(* The counter of a passkey never goes back and an ended session never     *)
(* lives again, given what the statements do to the rows.                  *)
LEMMA StepsHold ==
    ASSUME BrowserInv, Grows
    PROVE  SignCountNeverBack /\ EndedStaysEnded
<1>1. SignCountNeverBack
    BY DEF Grows, SignCountNeverBack
<1>2. ASSUME NEW s \in BrowserSessions, browserRow[s] # Unset, LiveBrowser(s)'
      PROVE  LiveBrowser(s)
    <2> DEFINE b == browserRow[s]
               c == browserRow'[s]
    <2>1. /\ c # Unset /\ ~c.revoked /\ c.expires > clock' /\ c.absolute > clock'
          /\ person'[c.owner] = "active"
        BY <1>2 DEF LiveBrowser, UnexpiredBrowser
    <2>2. RowStep(b, c) /\ clock' >= clock
        BY <1>2 DEF Grows
    <2>3. /\ b.owner \in People /\ b.expires \in Nat /\ b.absolute \in Nat /\ clock \in Nat
        BY <1>2, RowTypes DEF BrowserInv
    <2>4. RowOK(b)
        BY <1>2 DEF BrowserInv, SessionInv
    <2> HIDE DEF b, c
    <2>5. person[b.owner] = "active"
        <3>1. person'[b.owner] = "active"
            BY <2>1, <2>2 DEF RowStep
        <3>2. person[b.owner] # "deleted" /\ person[b.owner] # "none"
            BY <2>3, <2>4, <3>1 DEF Grows, RowOK
        <3>3. person[b.owner] \in {"none", "active", "deleted"}
            BY <2>3 DEF BrowserInv, BrowserTypeOK
        <3> QED BY <3>2, <3>3
    <2>6. ~b.revoked
        BY <2>1, <2>2 DEF RowStep
    <2>7. c.absolute = b.absolute /\ (c.expires # b.expires => b.expires > clock)
        BY <2>2 DEF RowStep
    <2>8. b.absolute > clock /\ b.expires > clock
        <3>1. clock' \in Nat /\ clock' >= clock
            BY DEF Grows
        <3>2. b.absolute > clock
            BY <2>1, <2>3, <2>7, <3>1, SMT
        <3>3. b.expires > clock
            BY <2>1, <2>3, <2>7, <3>1, SMT
        <3> QED BY <3>2, <3>3
    <2> QED BY <1>2, <2>5, <2>6, <2>8 DEF b, LiveBrowser, UnexpiredBrowser
<1> QED BY <1>1, <1>2 DEF EndedStaysEnded

(* Sessions that exist keep what the invariant says of them.               *)
LEMMA SessionsKept ==
    ASSUME BrowserInv, Grows, NoNewSession
    PROVE  SessionInv' /\ ChallengeUsedOnce'
<1>1. ASSUME NEW s \in BrowserSessions, browserRow'[s] # Unset
      PROVE  browserRow[s] # Unset /\ RowStep(browserRow[s], browserRow'[s])
    BY <1>1 DEF NoNewSession, Grows
<1>2. ASSUME NEW s \in BrowserSessions, browserRow'[s] # Unset
      PROVE  RowOK(browserRow[s])'
    <2>1. RowOK(browserRow[s]) /\ browserRow[s].from \in Challenges
          /\ browserRow[s].owner \in People
        BY <1>1, <1>2, RowTypes DEF BrowserInv, SessionInv
    <2>2. RowStep(browserRow[s], browserRow'[s])
        BY <1>1, <1>2
    <2>3. /\ challengeRow'[browserRow'[s].from] # Unset
          /\ challengeRow'[browserRow'[s].from].used
        BY <2>1, <2>2 DEF Grows, RowOK, RowStep
    <2>4. person'[browserRow'[s].owner] # "none"
        BY <2>1, <2>2 DEF Grows, RowOK, RowStep
    <2> QED BY <2>2, <2>3, <2>4 DEF RowOK, RowStep
<1>3. SessionInv'
    BY <1>2 DEF SessionInv
<1>4. \A s \in BrowserSessions : browserRow'[s] # Unset =>
          browserRow[s] # Unset /\ browserRow'[s].from = browserRow[s].from
    BY <1>1 DEF RowStep
<1>5. ChallengeUsedOnce'
    BY <1>4 DEF BrowserInv, ChallengeUsedOnce
<1> QED BY <1>3, <1>5

(* A registration stays whole when nothing it is made of changes.          *)
LEMMA AccountsKept ==
    ASSUME BrowserInv, NoNewAccount
    PROVE  RegisteredWhole'
<1>1. \A c \in Challenges : person[c] # "none" <=>
          Registered(c) /\ \E a \in Authenticators : Owns(a, c)
    BY DEF BrowserInv, RegisteredWhole, Registered, Owns
<1>2. \A c \in Challenges : person'[c] # "none" <=>
          Registered(c)' /\ \E a \in Authenticators : Owns(a, c)'
    BY <1>1 DEF NoNewAccount
<1> QED BY <1>2 DEF RegisteredWhole, Registered, Owns

(* What a request relies on survives the statements of the others.         *)
LEMMA ProcGrows ==
    ASSUME Grows, NEW v, ProcOK(v)
    PROVE  ProcOK(v)'
BY DEF Grows, ProcOK, Holding

(* A step of one request.                                                  *)
LEMMA OneProc ==
    ASSUME BrowserInv, Grows, NEW p \in BrowserProcs, NEW v \in Serving,
           serving' = [serving EXCEPT ![p] = v], ProcOK(v)'
    PROVE  /\ ProcInv' /\ serving' \in [BrowserProcs -> Serving]
           /\ serving'[p] = v
           /\ \A q \in BrowserProcs : q # p => serving'[q] = serving[q]
<1>1. serving \in [BrowserProcs -> Serving]
    BY DEF BrowserInv, BrowserTypeOK
<1>2. /\ serving' \in [BrowserProcs -> Serving] /\ serving'[p] = v
      /\ \A q \in BrowserProcs : q # p => serving'[q] = serving[q]
    BY <1>1
<1>3. ASSUME NEW q \in BrowserProcs
      PROVE  ProcOK(serving[q])'
    <2>1. PICK w : w = serving'[q]
        OBVIOUS
    <2>2. ProcOK(w)'
        <3>1. CASE q = p
            BY <1>2, <2>1, <3>1
        <3>2. CASE q # p
            <4>1. w = serving[q]
                BY <1>2, <2>1, <3>2
            <4>2. ProcOK(w)
                BY <4>1 DEF BrowserInv, ProcInv
            <4> QED BY <4>2, ProcGrows
        <3> QED BY <3>1, <3>2
    <2> QED BY <2>1, <2>2 DEF ProcOK, Holding
<1> QED BY <1>2, <1>3 DEF ProcInv

(* No step of any request.                                                 *)
LEMMA NoProc ==
    ASSUME BrowserInv, Grows, serving' = serving
    PROVE  ProcInv'
<1>1. ASSUME NEW q \in BrowserProcs
      PROVE  ProcOK(serving[q])'
    <2>1. PICK w : w = serving[q]
        OBVIOUS
    <2>2. ProcOK(w)'
        BY <2>1, ProcGrows DEF BrowserInv, ProcInv
    <2> QED BY <2>1, <2>2 DEF ProcOK, Holding
<1> QED BY <1>1 DEF ProcInv

(* A request that consumed a challenge goes on with it or gives it up.     *)
LEMMA TicketsKept ==
    ASSUME BrowserInv, Grows, NoNewSession,
           \A q \in BrowserProcs : Holding(serving'[q]) =>
               Holding(serving[q]) /\ serving'[q].on = serving[q].on
    PROVE  TicketInv'
<1>1. \A s \in BrowserSessions : browserRow'[s] # Unset =>
          browserRow[s] # Unset /\ browserRow'[s].from = browserRow[s].from
    BY DEF NoNewSession, Grows, RowStep
<1> QED BY <1>1, SMT DEF BrowserInv, TicketInv, Holding

(* The step of a request that leaves the tables alone.                     *)
LEMMA TablesUnchanged ==
    ASSUME BrowserInv, UNCHANGED browserData, clock' \in Nat, clock' >= clock
    PROVE  Grows /\ NoNewSession /\ NoNewAccount
<1>1. /\ challengeRow' = challengeRow /\ person' = person
      /\ credentialRow' = credentialRow /\ browserRow' = browserRow
    BY DEF browserData
<1>2. \A a \in Authenticators : credentialRow[a] # Unset =>
          credentialRow'[a].count >= credentialRow[a].count
    <2>1. \A a \in Authenticators : credentialRow[a] # Unset => credentialRow[a].count \in Nat
        BY RowTypes DEF BrowserInv
    <2> QED BY <1>1, <2>1, SMT
<1>3. \A s \in BrowserSessions : browserRow[s] # Unset =>
          RowStep(browserRow[s], browserRow[s])
    BY DEF BrowserInv, SessionInv, RowOK, RowStep
<1>4. Grows
    BY <1>1, <1>2, <1>3 DEF Grows
<1> QED BY <1>1, <1>4 DEF NoNewSession, NoNewAccount, Registered, Owns

(* An existing row that a statement leaves as it is.                       *)
LEMMA RowsSame ==
    ASSUME BrowserInv
    PROVE  /\ \A s \in BrowserSessions : browserRow[s] # Unset =>
                  RowStep(browserRow[s], browserRow[s])
           /\ \A a \in Authenticators : credentialRow[a] # Unset =>
                  credentialRow[a].count >= credentialRow[a].count
<1>1. \A a \in Authenticators : credentialRow[a] # Unset => credentialRow[a].count \in Nat
    BY RowTypes DEF BrowserInv
<1>2. \A a \in Authenticators : credentialRow[a] # Unset =>
          credentialRow[a].count >= credentialRow[a].count
    BY <1>1, SMT
<1> QED BY <1>2 DEF BrowserInv, SessionInv, RowOK, RowStep

(* What a request that is being served holds.                              *)
LEMMA Served ==
    ASSUME BrowserTypeOK, NEW p \in BrowserProcs
    PROVE  /\ serving[p] \in Serving /\ serving[p].number \in Nat
           /\ serving[p].key \in Authenticators \cup {Unset}
           /\ serving[p].on \in Challenges \cup BrowserSessions \cup {Unset}
           /\ serving[p].then \in {"none", "logout"}
<1>1. serving[p] \in Serving
    BY DEF BrowserTypeOK
<1> QED BY <1>1, SMT DEF Serving

(* The end of a request.                                                   *)
LEMMA Finished ==
    ASSUME NEW p
    PROVE  /\ NotServing \in Serving /\ ~Holding(NotServing)
           /\ ProcOK(NotServing) /\ ProcOK(NotServing)'
           /\ BrowserDone(p) => serving' = [serving EXCEPT ![p] = NotServing]
<1>1. NotServing.stage = "idle" /\ NotServing \in Serving
    BY SMT DEF NotServing, Serving
<1>2. NotServing.stage \notin {"register", "find", "consume", "advance", "create", "renew", "act"}
    BY <1>1
<1> HIDE DEF NotServing
<1>3. ~Holding(NotServing)
    BY <1>2 DEF Holding
<1>4. ProcOK(NotServing)
    BY <1>2, <1>3 DEF ProcOK
<1>5. ProcOK(NotServing)'
    BY <1>2, <1>3 DEF ProcOK, Holding
<1> QED BY <1>1, <1>3, <1>4, <1>5 DEF BrowserDone

(* The next statement of a request.                                        *)
LEMMA Moved ==
    ASSUME BrowserTypeOK, NEW p \in BrowserProcs,
           NEW x \in {"consume", "advance", "create", "act"}, BrowserGoto(p, x)
    PROVE  \E v \in Serving :
             /\ serving' = [serving EXCEPT ![p] = v]
             /\ v.stage = x /\ v.on = serving[p].on /\ v.key = serving[p].key
             /\ v.number = serving[p].number
<1> DEFINE v == [serving[p] EXCEPT !.stage = x]
<1>1. serving[p] \in Serving
    BY Served
<1>2. v \in Serving /\ v.stage = x /\ v.on = serving[p].on /\ v.key = serving[p].key
      /\ v.number = serving[p].number
    BY <1>1, SMT DEF Serving
<1>3. serving' = [serving EXCEPT ![p] = v]
    BY DEF BrowserGoto
<1> HIDE DEF v
<1> QED BY <1>2, <1>3

(* The beginning of a request.                                             *)
LEMMA Begun ==
    ASSUME NEW p \in BrowserProcs,
           NEW st \in {"register", "find", "renew"},
           NEW on \in Challenges \cup BrowserSessions,
           NEW key \in Authenticators \cup {Unset}, NEW n \in Nat,
           NEW then \in {"none", "logout"}, Began(p, st, on, key, n, then)
    PROVE  \E v \in Serving :
             /\ serving' = [serving EXCEPT ![p] = v] /\ ~Holding(v)
             /\ v.stage = st /\ v.on = on /\ v.key = key /\ v.number = n
<1> DEFINE v == [stage |-> st, on |-> on, key |-> key, number |-> n, then |-> then]
<1>1. v \in Serving
    BY SMT DEF Serving
<1>2. v.stage = st /\ v.on = on /\ v.key = key /\ v.number = n
    OBVIOUS
<1>3. serving' = [serving EXCEPT ![p] = v]
    BY DEF Began
<1> HIDE DEF v
<1> QED BY <1>1, <1>2, <1>3 DEF Holding

(* A statement that only reads, and the step of its request.               *)
LEMMA ReadStep ==
    ASSUME BrowserInv, UNCHANGED <<browserData, clock>>,
           signed' \in [Authenticators -> Nat],
           NEW p \in BrowserProcs, NEW v \in Serving,
           serving' = [serving EXCEPT ![p] = v], ProcOK(v), ~Holding(v)
    PROVE  BrowserInv' /\ Grows
<1>1. UNCHANGED browserData /\ clock' = clock /\ clock \in Nat
    BY RowTypes DEF BrowserInv
<1>2. clock' \in Nat /\ clock' >= clock
    BY <1>1, SMT
<1>3. Grows /\ NoNewSession /\ NoNewAccount
    BY <1>1, <1>2, TablesUnchanged
<1>4. ProcOK(v)'
    BY <1>3, ProcGrows
<1>5. /\ ProcInv' /\ serving' \in [BrowserProcs -> Serving] /\ serving'[p] = v
      /\ \A q \in BrowserProcs : q # p => serving'[q] = serving[q]
    BY <1>3, <1>4, OneProc
<1>6. TicketInv'
    BY <1>3, <1>5, TicketsKept
<1>7. BrowserTypeOK'
    BY <1>1, <1>5 DEF BrowserInv, BrowserTypeOK, browserData
<1> QED BY <1>3, <1>5, <1>6, <1>7, SessionsKept, AccountsKept DEF BrowserInv

(* registration_verify loads its challenge.                                *)
LEMMA RegistrationLoadKeeps ==
    ASSUME BrowserInv, NEW p \in BrowserProcs, NEW c \in Challenges,
           NEW a \in Authenticators, RegistrationLoad(p, c, a)
    PROVE  BrowserInv' /\ Grows
<1>1. signed[a] \in Nat /\ signed' \in [Authenticators -> Nat]
    BY DEF BrowserInv, BrowserTypeOK, RegistrationLoad
<1>2. Began(p, "register", c, a, signed[a], "none") /\ challengeRow[c] # Unset
    BY DEF RegistrationLoad, UsableChallenge
<1>3. PICK v \in Serving :
        /\ serving' = [serving EXCEPT ![p] = v] /\ ~Holding(v)
        /\ v.stage = "register" /\ v.on = c /\ v.key = a
    BY <1>1, <1>2, Begun, SMT
<1>4. ProcOK(v)
    BY <1>2, <1>3 DEF ProcOK
<1>5. UNCHANGED <<browserData, clock>>
    BY DEF RegistrationLoad
<1> QED BY <1>1, <1>3, <1>4, <1>5, ReadStep

(* authentication_verify loads its challenge.                              *)
LEMMA AuthenticationLoadKeeps ==
    ASSUME BrowserInv, NEW p \in BrowserProcs, NEW c \in Challenges,
           NEW a \in Authenticators, AuthenticationLoad(p, c, a)
    PROVE  BrowserInv' /\ Grows
<1>1. PICK n \in {signed[a], signed[a] + 1} :
        signed' = [signed EXCEPT ![a] = n] /\ Began(p, "find", c, a, n, "none")
    BY DEF AuthenticationLoad
<1>2. signed \in [Authenticators -> Nat] /\ signed[a] \in Nat
    BY DEF BrowserInv, BrowserTypeOK
<1>3. n \in Nat
    BY <1>1, <1>2, SMT
<1>4. signed' \in [Authenticators -> Nat]
    BY <1>1, <1>2, <1>3
<1>5. challengeRow[c] # Unset /\ UNCHANGED <<browserData, clock>>
    BY DEF AuthenticationLoad, UsableChallenge
<1>6. PICK v \in Serving :
        /\ serving' = [serving EXCEPT ![p] = v] /\ ~Holding(v)
        /\ v.stage = "find" /\ v.on = c /\ v.key = a
    BY <1>1, <1>3, Begun, SMT
<1>7. ProcOK(v)
    BY <1>5, <1>6 DEF ProcOK
<1> QED BY <1>4, <1>5, <1>6, <1>7, ReadStep

(* A browser request finds its session.                                    *)
LEMMA ResolveKeeps ==
    ASSUME BrowserInv, NEW p \in BrowserProcs, NEW s \in BrowserSessions,
           NEW then \in {"none", "logout"}, ResolveBrowser(p, s, then)
    PROVE  BrowserInv' /\ Grows
<1>1. browserRow[s] # Unset /\ UNCHANGED <<browserData, clock>> /\ signed' = signed
    BY DEF ResolveBrowser, LiveBrowser, UnexpiredBrowser
<1>2. browserRow[s] \in BrowserRow
    BY <1>1, RowTypes DEF BrowserInv
<1>3. browserRow[s].proof \in Nat
    BY <1>2, SMT DEF BrowserRow
<1>4. Began(p, "renew", s, Unset, browserRow[s].proof, then)
    BY DEF ResolveBrowser
<1>5. PICK v \in Serving :
        /\ serving' = [serving EXCEPT ![p] = v] /\ ~Holding(v)
        /\ v.stage = "renew" /\ v.on = s
    BY <1>3, <1>4, Begun, SMT
<1>6. ProcOK(v)
    BY <1>1, <1>5 DEF ProcOK
<1>7. signed' \in [Authenticators -> Nat]
    BY <1>1 DEF BrowserInv, BrowserTypeOK
<1> QED BY <1>1, <1>5, <1>6, <1>7, ReadStep

(* The credential of an assertion is looked up.                            *)
LEMMA FindKeeps ==
    ASSUME BrowserInv, NEW p \in BrowserProcs, AuthenticationFind(p)
    PROVE  BrowserInv' /\ Grows
<1>1. UNCHANGED <<browserData, clock>> /\ signed' \in [Authenticators -> Nat]
    BY DEF AuthenticationFind, BrowserInv, BrowserTypeOK
<1>2. CASE BrowserDone(p)
    BY <1>1, <1>2, Finished, ReadStep
<1>3. CASE credentialRow[serving[p].key] # Unset /\ BrowserGoto(p, "consume")
    <2>1. PICK v \in Serving :
            /\ serving' = [serving EXCEPT ![p] = v]
            /\ v.stage = "consume" /\ v.on = serving[p].on /\ v.key = serving[p].key
        BY <1>3, Moved DEF BrowserInv
    <2>2. serving[p].stage = "find" /\ ProcOK(serving[p])
        BY DEF AuthenticationFind, BrowserInv, ProcInv
    <2>3. ProcOK(v) /\ ~Holding(v)
        BY <1>3, <2>1, <2>2 DEF ProcOK, Holding
    <2> QED BY <1>1, <2>1, <2>3, ReadStep
<1> QED BY <1>2, <1>3 DEF AuthenticationFind

(* A statement fails and its request ends.                                 *)
LEMMA FailKeeps ==
    ASSUME BrowserInv, NEW p \in BrowserProcs, BrowserFail(p)
    PROVE  BrowserInv' /\ Grows
<1>1. UNCHANGED <<browserData, clock>> /\ signed' \in [Authenticators -> Nat]
    BY DEF BrowserFail, BrowserInv, BrowserTypeOK
<1>2. BrowserDone(p)
    BY DEF BrowserFail
<1> QED BY <1>1, <1>2, Finished, ReadStep

(* Time passes.                                                            *)
LEMMA TickKeeps ==
    ASSUME BrowserInv, BrowserTick
    PROVE  BrowserInv' /\ Grows
<1>1. /\ clock \in 0 .. MaxClock /\ MaxClock \in Nat /\ clock < MaxClock
      /\ clock' = clock + 1
    BY BrowserAssumption DEF BrowserInv, BrowserTypeOK, BrowserTick
<1>2. clock' \in 0 .. MaxClock /\ clock' \in Nat /\ clock' >= clock
    BY <1>1, SMT
<1>3. UNCHANGED browserData /\ signed' = signed /\ serving' = serving
    BY DEF BrowserTick
<1>4. Grows /\ NoNewSession /\ NoNewAccount
    BY <1>2, <1>3, TablesUnchanged
<1>5. ProcInv' /\ TicketInv'
    BY <1>3, <1>4, NoProc, TicketsKept
<1>6. BrowserTypeOK'
    BY <1>2, <1>3 DEF BrowserInv, BrowserTypeOK, browserData
<1> QED BY <1>4, <1>5, <1>6, SessionsKept, AccountsKept DEF BrowserInv

(* What a statement on the challenges alone leaves as it was.              *)
LEMMA OnlyChallenges ==
    ASSUME BrowserInv, UNCHANGED <<person, credentialRow, browserRow, clock>>,
           \A c \in Challenges : challengeRow[c] # Unset =>
               challengeRow'[c] # Unset /\ (challengeRow[c].used => challengeRow'[c].used),
           \A c \in Challenges : Registered(c)' <=> Registered(c)
    PROVE  Grows /\ NoNewSession /\ NoNewAccount
<1>1. clock \in Nat
    BY RowTypes DEF BrowserInv
<1>2. clock' \in Nat /\ clock' >= clock
    BY <1>1, SMT
<1>3. Grows
    BY <1>2, RowsSame DEF Grows
<1> QED BY <1>3 DEF NoNewSession, NoNewAccount, Owns

(* A challenge is created.                                                 *)
LEMMA CreateChallengeKeeps ==
    ASSUME BrowserInv, NEW c \in Challenges,
           NEW kind \in {"registration", "authentication"}, CreateChallenge(c, kind)
    PROVE  BrowserInv' /\ Grows
<1> DEFINE r == [kind |-> kind, used |-> FALSE, expires |-> clock + ChallengeLife]
<1>1. clock \in Nat /\ ChallengeLife \in Nat
    BY RowTypes, BrowserAssumption DEF BrowserInv
<1>2. clock + ChallengeLife \in Nat
    BY <1>1, SMT
<1>3. r \in ChallengeRow /\ ~r.used
    BY <1>2 DEF ChallengeRow
<1>4. challengeRow[c] = Unset /\ challengeRow' = [challengeRow EXCEPT ![c] = r]
      /\ challengeRow \in [Challenges -> ChallengeRow \cup {Unset}]
    BY DEF CreateChallenge, BrowserInv, BrowserTypeOK
<1>5. /\ UNCHANGED <<person, credentialRow, browserRow, clock, signed>>
      /\ serving' = serving
    BY DEF CreateChallenge
<1> HIDE DEF r
<1>6. /\ challengeRow' \in [Challenges -> ChallengeRow \cup {Unset}]
      /\ challengeRow'[c] = r
      /\ \A d \in Challenges : d # c => challengeRow'[d] = challengeRow[d]
    BY <1>3, <1>4
<1>7. \A d \in Challenges : challengeRow[d] # Unset =>
          challengeRow'[d] # Unset /\ (challengeRow[d].used => challengeRow'[d].used)
    BY <1>4, <1>6
<1>8. \A d \in Challenges : Registered(d)' <=> Registered(d)
    BY <1>3, <1>4, <1>6 DEF Registered
<1>9. Grows /\ NoNewSession /\ NoNewAccount
    BY <1>5, <1>7, <1>8, OnlyChallenges
<1>10. ProcInv' /\ TicketInv'
    BY <1>5, <1>9, NoProc, TicketsKept
<1>11. BrowserTypeOK'
    BY <1>5, <1>6 DEF BrowserInv, BrowserTypeOK
<1> QED BY <1>9, <1>10, <1>11, SessionsKept, AccountsKept DEF BrowserInv

(* A flag of a row is set.                                                 *)
LEMMA MarkedRows ==
    ASSUME NEW v \in BOOLEAN
    PROVE  /\ \A r \in ChallengeRow : [r EXCEPT !.used = v] \in ChallengeRow
           /\ \A r \in CredentialRow : [r EXCEPT !.live = v] \in CredentialRow
           /\ \A r \in BrowserRow : [r EXCEPT !.revoked = v] \in BrowserRow
<1>1. ASSUME NEW r \in ChallengeRow
      PROVE  [r EXCEPT !.used = v] \in ChallengeRow
    BY DEF ChallengeRow
<1>2. ASSUME NEW r \in CredentialRow
      PROVE  [r EXCEPT !.live = v] \in CredentialRow
    BY DEF CredentialRow
<1>3. ASSUME NEW r \in BrowserRow
      PROVE  [r EXCEPT !.revoked = v] \in BrowserRow
    BY DEF BrowserRow
<1> QED BY <1>1, <1>2, <1>3

(* What the UPDATE of consume_webauthn_challenge does.                     *)
LEMMA Consumed ==
    ASSUME BrowserInv, NEW c \in Challenges, challengeRow' = ConsumeChallenge(c),
           challengeRow' # challengeRow
    PROVE  /\ UsableChallenge(c, "authentication")
           /\ challengeRow' \in [Challenges -> ChallengeRow \cup {Unset}]
           /\ challengeRow'[c] # Unset /\ challengeRow'[c].used
           /\ challengeRow'[c].kind = "authentication"
           /\ \A d \in Challenges : d # c => challengeRow'[d] = challengeRow[d]
<1> DEFINE r == [challengeRow[c] EXCEPT !.used = TRUE]
<1>1. /\ UsableChallenge(c, "authentication")
      /\ challengeRow' = [challengeRow EXCEPT ![c] = r]
    BY DEF ConsumeChallenge
<1>2. /\ challengeRow[c] \in ChallengeRow
      /\ challengeRow \in [Challenges -> ChallengeRow \cup {Unset}]
      /\ challengeRow[c].kind = "authentication"
    BY <1>1, RowTypes DEF UsableChallenge, BrowserInv, BrowserTypeOK
<1>3. r \in ChallengeRow /\ r.used /\ r.kind = challengeRow[c].kind
    <2>1. r \in ChallengeRow
        BY <1>2, MarkedRows
    <2>2. r.kind = challengeRow[c].kind
        BY <1>2, SMT DEF ChallengeRow
    <2>3. r.used = TRUE
        BY <1>2, SMT DEF ChallengeRow
    <2> QED BY <2>1, <2>2, <2>3
<1> HIDE DEF r
<1>4. r # Unset
    BY <1>3, UnsetAssumption
<1> QED BY <1>1, <1>2, <1>3, <1>4

(* The assertion consumes its challenge, or ends.                          *)
LEMMA ConsumeKeeps ==
    ASSUME BrowserInv, NEW p \in BrowserProcs, AuthenticationConsume(p)
    PROVE  BrowserInv' /\ Grows
<1>1. PICK c : c = serving[p].on
    OBVIOUS
<1>2. /\ c \in Challenges /\ challengeRow[c] # Unset /\ serving[p].key \in Authenticators
      /\ credentialRow[serving[p].key] # Unset
    BY <1>1 DEF AuthenticationConsume, BrowserInv, ProcInv, ProcOK
<1>3. /\ challengeRow' = ConsumeChallenge(c)
      /\ UNCHANGED <<person, credentialRow, browserRow, clock, signed>>
    BY <1>1 DEF AuthenticationConsume
<1>4. CASE challengeRow' = challengeRow
    <2>1. UNCHANGED <<browserData, clock>> /\ signed' \in [Authenticators -> Nat]
        BY <1>3, <1>4 DEF browserData, BrowserInv, BrowserTypeOK
    <2>2. BrowserDone(p)
        BY <1>4 DEF AuthenticationConsume
    <2> QED BY <2>1, <2>2, Finished, ReadStep
<1>5. CASE challengeRow' # challengeRow
    <2>1. /\ UsableChallenge(c, "authentication")
          /\ challengeRow' \in [Challenges -> ChallengeRow \cup {Unset}]
          /\ challengeRow'[c] # Unset /\ challengeRow'[c].used
          /\ challengeRow'[c].kind = "authentication"
          /\ \A d \in Challenges : d # c => challengeRow'[d] = challengeRow[d]
        BY <1>2, <1>3, <1>5, Consumed
    <2>2. challengeRow[c].kind = "authentication" /\ ~challengeRow[c].used
        BY <2>1 DEF UsableChallenge
    <2>3. \A d \in Challenges : challengeRow[d] # Unset =>
              challengeRow'[d] # Unset /\ (challengeRow[d].used => challengeRow'[d].used)
        BY <2>1
    <2>4. \A d \in Challenges : Registered(d)' <=> Registered(d)
        <3>1. ~Registered(c) /\ ~Registered(c)'
            BY <2>1, <2>2 DEF Registered
        <3>2. \A d \in Challenges : d # c => (Registered(d)' <=> Registered(d))
            BY <2>1 DEF Registered
        <3> QED BY <3>1, <3>2
    <2>5. Grows /\ NoNewSession /\ NoNewAccount
        BY <1>3, <2>3, <2>4, OnlyChallenges
    <2>6. BrowserGoto(p, "advance")
        BY <1>5 DEF AuthenticationConsume
    <2>7. PICK v \in Serving :
            /\ serving' = [serving EXCEPT ![p] = v]
            /\ v.stage = "advance" /\ v.on = c /\ v.key = serving[p].key
        BY <1>1, <2>6, Moved DEF BrowserInv
    <2>8. ProcOK(v)'
        BY <1>2, <1>3, <2>1, <2>7 DEF ProcOK, Holding
    <2>9. /\ ProcInv' /\ serving' \in [BrowserProcs -> Serving] /\ serving'[p] = v
          /\ \A q \in BrowserProcs : q # p => serving'[q] = serving[q]
        BY <2>5, <2>7, <2>8, OneProc
    <2>10. \A q \in BrowserProcs : Holding(serving[q]) => serving[q].on # c
        BY <2>2 DEF BrowserInv, ProcInv, ProcOK
    <2>11. \A s \in BrowserSessions : browserRow[s] # Unset => browserRow[s].from # c
        BY <2>2 DEF BrowserInv, SessionInv, RowOK
    <2>12. TicketInv'
        <3>1. ASSUME NEW q \in BrowserProcs, Holding(serving'[q])
              PROVE  \A o \in BrowserProcs :
                       Holding(serving'[o]) /\ serving'[o].on = serving'[q].on => o = q
            BY <2>7, <2>9, <2>10, <3>1 DEF BrowserInv, TicketInv
        <3>2. ASSUME NEW q \in BrowserProcs, Holding(serving'[q])
              PROVE  \A s \in BrowserSessions :
                       browserRow'[s] # Unset => browserRow'[s].from # serving'[q].on
            BY <1>3, <2>7, <2>9, <2>11, <3>2 DEF BrowserInv, TicketInv
        <3> QED BY <3>1, <3>2 DEF TicketInv, Holding
    <2>13. BrowserTypeOK'
        BY <1>3, <2>1, <2>9 DEF BrowserInv, BrowserTypeOK
    <2> QED BY <2>5, <2>9, <2>12, <2>13, SessionsKept, AccountsKept DEF BrowserInv
<1> QED BY <1>4, <1>5

(* A statement on the credentials that keeps the rows and their owners.    *)
LEMMA OnlyCredentials ==
    ASSUME BrowserInv, UNCHANGED <<challengeRow, person, browserRow, clock>>,
           \A a \in Authenticators :
               /\ credentialRow'[a] # Unset <=> credentialRow[a] # Unset
               /\ credentialRow[a] # Unset =>
                      /\ credentialRow'[a].owner = credentialRow[a].owner
                      /\ credentialRow'[a].count >= credentialRow[a].count
    PROVE  Grows /\ NoNewSession /\ NoNewAccount
<1>1. clock \in Nat
    BY RowTypes DEF BrowserInv
<1>2. clock' \in Nat /\ clock' >= clock
    BY <1>1, SMT
<1>3. Grows
    BY <1>2, RowsSame DEF Grows
<1> QED BY <1>3 DEF NoNewSession, NoNewAccount, Owns, Registered

(* The counter of the passkey is advanced, or the request ends.            *)
LEMMA AdvanceKeeps ==
    ASSUME BrowserInv, NEW p \in BrowserProcs, AuthenticationAdvance(p)
    PROVE  BrowserInv' /\ Grows
<1>1. PICK a : a = serving[p].key
    OBVIOUS
<1>2. PICK n : n = serving[p].number
    OBVIOUS
<1>3. /\ serving[p].stage = "advance" /\ ProcOK(serving[p]) /\ n \in Nat
      /\ UNCHANGED <<challengeRow, person, browserRow, clock>> /\ signed' = signed
    BY <1>2, Served DEF AuthenticationAdvance, BrowserInv, ProcInv
<1>4. a \in Authenticators /\ credentialRow[a] # Unset /\ Holding(serving[p])
    BY <1>1, <1>3 DEF ProcOK, Holding
<1>5. CASE BrowserDone(p) /\ UNCHANGED credentialRow
    <2>1. UNCHANGED <<browserData, clock>> /\ signed' \in [Authenticators -> Nat]
        BY <1>3, <1>5 DEF browserData, BrowserInv, BrowserTypeOK
    <2> QED BY <1>5, <2>1, Finished, ReadStep
<1>6. CASE /\ AdvanceAllowed(a, n) /\ BrowserGoto(p, "create")
           /\ credentialRow' = [credentialRow EXCEPT ![a].count = n]
    <2> DEFINE r == [credentialRow[a] EXCEPT !.count = n]
    <2>1. /\ credentialRow[a] \in CredentialRow
          /\ credentialRow \in [Authenticators -> CredentialRow \cup {Unset}]
        BY <1>4, RowTypes DEF BrowserInv, BrowserTypeOK
    <2>2. r \in CredentialRow
        BY <1>3, <2>1, SMT DEF CredentialRow
    <2>3. r.owner = credentialRow[a].owner
        BY <2>1, SMT DEF CredentialRow
    <2>4. r.count = n
        BY <2>1, SMT DEF CredentialRow
    <2>5. credentialRow' = [credentialRow EXCEPT ![a] = r]
        BY <1>6
    <2> HIDE DEF r
    <2>6. /\ credentialRow' \in [Authenticators -> CredentialRow \cup {Unset}]
          /\ credentialRow'[a] = r
          /\ \A b \in Authenticators : b # a => credentialRow'[b] = credentialRow[b]
        BY <1>4, <2>1, <2>2, <2>5
    <2>7. r # Unset /\ r.count >= credentialRow[a].count
        BY <1>6, <2>2, <2>4, UnsetAssumption DEF AdvanceAllowed
    <2>8. \A b \in Authenticators :
              /\ credentialRow'[b] # Unset <=> credentialRow[b] # Unset
              /\ credentialRow[b] # Unset =>
                     /\ credentialRow'[b].owner = credentialRow[b].owner
                     /\ credentialRow'[b].count >= credentialRow[b].count
        BY <1>4, <2>3, <2>6, <2>7, RowsSame
    <2>9. Grows /\ NoNewSession /\ NoNewAccount
        BY <1>3, <2>8, OnlyCredentials
    <2>10. PICK v \in Serving :
            /\ serving' = [serving EXCEPT ![p] = v]
            /\ v.stage = "create" /\ v.on = serving[p].on /\ v.key = serving[p].key
        BY <1>6, Moved DEF BrowserInv
    <2>11. ProcOK(v)
        BY <1>3, <2>10 DEF ProcOK, Holding
    <2>12. /\ ProcInv' /\ serving' \in [BrowserProcs -> Serving] /\ serving'[p] = v
           /\ \A q \in BrowserProcs : q # p => serving'[q] = serving[q]
        BY <2>9, <2>10, <2>11, OneProc, ProcGrows
    <2>13. TicketInv'
        BY <1>4, <2>9, <2>10, <2>12, TicketsKept
    <2>14. BrowserTypeOK'
        BY <1>3, <2>6, <2>12 DEF BrowserInv, BrowserTypeOK
    <2> QED BY <2>9, <2>12, <2>13, <2>14, SessionsKept, AccountsKept DEF BrowserInv
<1> QED BY <1>1, <1>2, <1>5, <1>6 DEF AuthenticationAdvance

(* What a new row of browser_sessions holds.                               *)
LEMMA NewRow ==
    ASSUME BrowserTypeOK, NEW u \in People, NEW c \in Challenges
    PROVE  /\ NewBrowserRow(u, c) \in BrowserRow
           /\ NewBrowserRow(u, c).owner = u /\ NewBrowserRow(u, c).from = c
           /\ NewBrowserRow(u, c).expires <= NewBrowserRow(u, c).absolute
<1>1. clock \in Nat /\ IdleLife \in Nat /\ AbsoluteLife \in Nat /\ IdleLife <= AbsoluteLife
    BY RowTypes, BrowserAssumption
<1>2. /\ clock + IdleLife \in Nat /\ clock + AbsoluteLife \in Nat
      /\ clock + IdleLife <= clock + AbsoluteLife
    BY <1>1, SMT
<1> QED BY <1>1, <1>2, SMT DEF NewBrowserRow, BrowserRow

(* The session that a statement inserts is a new one.                      *)
LEMMA Inserted ==
    ASSUME BrowserTypeOK, UnusedSessions # {}, NEW r \in BrowserRow,
           browserRow' = [browserRow EXCEPT ![FreshSession] = r]
    PROVE  /\ browserRow' \in [BrowserSessions -> BrowserRow \cup {Unset}]
           /\ \E f \in BrowserSessions :
                /\ browserRow[f] = Unset /\ browserRow'[f] = r
                /\ \A s \in BrowserSessions : s # f => browserRow'[s] = browserRow[s]
<1>1. PICK f : f = FreshSession
    OBVIOUS
<1>2. f \in UnusedSessions
    BY <1>1 DEF FreshSession
<1>3. f \in BrowserSessions /\ browserRow[f] = Unset
    BY <1>2 DEF UnusedSessions
<1>4. browserRow \in [BrowserSessions -> BrowserRow \cup {Unset}]
    BY DEF BrowserTypeOK
<1> QED BY <1>1, <1>3, <1>4

(* A challenge in no other hands becomes a session, and is given up.       *)
LEMMA SessionAdded ==
    ASSUME BrowserInv, Grows, NEW p \in BrowserProcs,
           serving' = [serving EXCEPT ![p] = NotServing],
           NEW r \in BrowserRow, NEW f \in BrowserSessions,
           browserRow[f] = Unset, browserRow'[f] = r, RowOK(r)',
           \A s \in BrowserSessions : s # f => browserRow'[s] = browserRow[s],
           \A q \in BrowserProcs :
               q # p /\ Holding(serving[q]) => serving[q].on # r.from,
           \A s \in BrowserSessions : browserRow[s] # Unset => browserRow[s].from # r.from
    PROVE  /\ ProcInv' /\ serving' \in [BrowserProcs -> Serving]
           /\ TicketInv' /\ SessionInv' /\ ChallengeUsedOnce'
<1>1. /\ ProcInv' /\ serving' \in [BrowserProcs -> Serving]
      /\ serving'[p] = NotServing
      /\ \A q \in BrowserProcs : q # p => serving'[q] = serving[q]
    BY Finished, OneProc
<1>2. \A q \in BrowserProcs : Holding(serving'[q]) =>
          q # p /\ serving'[q] = serving[q] /\ Holding(serving[q])
    BY <1>1, Finished
<1>3. \A s \in BrowserSessions : browserRow'[s] # Unset =>
          s = f \/ (s # f /\ browserRow[s] # Unset /\ browserRow'[s] = browserRow[s])
    OBVIOUS
<1>4. TicketInv'
    <2>1. ASSUME NEW q \in BrowserProcs, Holding(serving'[q])
          PROVE  \A o \in BrowserProcs :
                   Holding(serving'[o]) /\ serving'[o].on = serving'[q].on => o = q
        BY <1>2, <2>1, SMT DEF BrowserInv, TicketInv
    <2>2. ASSUME NEW q \in BrowserProcs, Holding(serving'[q]),
                 NEW s \in BrowserSessions, browserRow'[s] # Unset
          PROVE  browserRow'[s].from # serving'[q].on
        BY <1>2, <1>3, <2>2, SMT DEF BrowserInv, TicketInv
    <2> QED BY <2>1, <2>2 DEF TicketInv, Holding
<1>5. ChallengeUsedOnce'
    BY <1>3, SMT DEF BrowserInv, ChallengeUsedOnce
<1>6. ASSUME NEW s \in BrowserSessions, browserRow'[s] # Unset
      PROVE  RowOK(browserRow[s])'
    <2>1. CASE s = f
        BY <2>1 DEF RowOK
    <2>2. CASE s # f
        <3>1. browserRow[s] # Unset /\ browserRow'[s] = browserRow[s]
            BY <1>3, <1>6, <2>2
        <3>2. RowOK(browserRow[s]) /\ browserRow[s].from \in Challenges
              /\ browserRow[s].owner \in People
            BY <3>1, RowTypes DEF BrowserInv, SessionInv
        <3> QED BY <3>1, <3>2, ZenonT(40) DEF RowOK, Grows
    <2> QED BY <2>1, <2>2
<1> QED BY <1>1, <1>4, <1>5, <1>6 DEF SessionInv

(* The session of an assertion is created, unless the account has gone.    *)
LEMMA CreateKeeps ==
    ASSUME BrowserInv, NEW p \in BrowserProcs, AuthenticationCreate(p)
    PROVE  BrowserInv' /\ Grows
<1>1. PICK c : c = serving[p].on
    OBVIOUS
<1>2. PICK u : u = credentialRow[serving[p].key].owner
    OBVIOUS
<1>3. /\ serving[p].stage = "create" /\ UnusedSessions # {} /\ ProcOK(serving[p])
      /\ UNCHANGED <<challengeRow, person, credentialRow, clock>> /\ signed' = signed
      /\ serving' = [serving EXCEPT ![p] = NotServing]
    BY DEF AuthenticationCreate, BrowserDone, BrowserInv, ProcInv
<1>4. /\ Holding(serving[p]) /\ c \in Challenges /\ challengeRow[c] # Unset
      /\ challengeRow[c].used /\ u \in People
    BY <1>1, <1>2, <1>3, RowTypes DEF ProcOK, Holding, BrowserInv
<1>5. CASE person[u] # "active"
    <2>1. UNCHANGED <<browserData, clock>> /\ signed' \in [Authenticators -> Nat]
        BY <1>2, <1>3, <1>5 DEF AuthenticationCreate, browserData, BrowserInv, BrowserTypeOK
    <2> QED BY <1>3, <2>1, Finished, ReadStep
<1>6. CASE person[u] = "active"
    <2>1. PICK r \in BrowserRow : r = NewBrowserRow(u, c)
        BY <1>4, NewRow DEF BrowserInv
    <2>2. r.owner = u /\ r.from = c /\ r.expires <= r.absolute
        BY <1>4, <2>1, NewRow DEF BrowserInv
    <2>3. browserRow' = [browserRow EXCEPT ![FreshSession] = r]
        BY <1>1, <1>2, <1>6, <2>1 DEF AuthenticationCreate
    <2>4. browserRow' \in [BrowserSessions -> BrowserRow \cup {Unset}]
        BY <1>3, <2>3, Inserted DEF BrowserInv
    <2>5. PICK f \in BrowserSessions :
            /\ browserRow[f] = Unset /\ browserRow'[f] = r
            /\ \A s \in BrowserSessions : s # f => browserRow'[s] = browserRow[s]
        BY <1>3, <2>3, Inserted DEF BrowserInv
    <2>6. clock' \in Nat /\ clock' >= clock
        <3>1. clock \in Nat /\ clock' = clock
            BY <1>3, RowTypes DEF BrowserInv
        <3> QED BY <3>1, SMT
    <2>7. Grows
        <3>1. \A s \in BrowserSessions : browserRow[s] # Unset =>
                  browserRow'[s] = browserRow[s]
            BY <2>5
        <3> QED BY <1>3, <2>6, <3>1, RowsSame DEF Grows
    <2>8. RowOK(r)'
        BY <1>3, <1>4, <1>6, <2>2 DEF RowOK
    <2>9. \A q \in BrowserProcs : q # p /\ Holding(serving[q]) => serving[q].on # r.from
        BY <1>1, <1>4, <2>2 DEF BrowserInv, TicketInv
    <2>10. \A s \in BrowserSessions : browserRow[s] # Unset => browserRow[s].from # r.from
        BY <1>1, <1>4, <2>2 DEF BrowserInv, TicketInv
    <2>11. /\ ProcInv' /\ serving' \in [BrowserProcs -> Serving]
           /\ TicketInv' /\ SessionInv' /\ ChallengeUsedOnce'
        BY <1>3, <2>5, <2>7, <2>8, <2>9, <2>10, SessionAdded, ZenonT(40)
    <2>12. RegisteredWhole'
        BY <1>3, AccountsKept DEF NoNewAccount, Registered, Owns
    <2>13. BrowserTypeOK'
        BY <1>3, <2>4, <2>11 DEF BrowserInv, BrowserTypeOK
    <2> QED BY <2>7, <2>11, <2>12, <2>13 DEF BrowserInv
<1> QED BY <1>5, <1>6

(* The transaction of a registration.                                      *)
LEMMA RegistrationKeeps ==
    ASSUME BrowserInv, NEW p \in BrowserProcs, RegistrationComplete(p)
    PROVE  BrowserInv' /\ Grows
<1>1. PICK c : c = serving[p].on
    OBVIOUS
<1>2. PICK a : a = serving[p].key
    OBVIOUS
<1>3. PICK n : n = serving[p].number
    OBVIOUS
<1>4. /\ serving[p].stage = "register" /\ UnusedSessions # {} /\ ProcOK(serving[p])
      /\ clock' = clock /\ signed' = signed /\ n \in Nat
      /\ serving' = [serving EXCEPT ![p] = NotServing]
    BY <1>3, Served DEF RegistrationComplete, BrowserDone, BrowserInv, ProcInv
<1>5. c \in Challenges /\ a \in Authenticators /\ c \in People
    BY <1>1, <1>2, <1>4 DEF ProcOK, People
<1>6. CASE UNCHANGED browserData
    <2>1. UNCHANGED <<browserData, clock>> /\ signed' \in [Authenticators -> Nat]
        BY <1>4, <1>6 DEF BrowserInv, BrowserTypeOK
    <2> QED BY <1>4, <2>1, Finished, ReadStep
<1>7. CASE /\ UsableChallenge(c, "registration") /\ credentialRow[a] = Unset
           /\ challengeRow' = [challengeRow EXCEPT ![c].used = TRUE]
           /\ person' = [person EXCEPT ![c] = "active"]
           /\ credentialRow' = [credentialRow EXCEPT ![a] =
                    [owner |-> c, count |-> n, live |-> TRUE]]
           /\ browserRow' = [browserRow EXCEPT ![FreshSession] = NewBrowserRow(c, c)]
    <2> DEFINE k == [owner |-> c, count |-> n, live |-> TRUE]
               d == [challengeRow[c] EXCEPT !.used = TRUE]
    <2>1. /\ challengeRow[c] # Unset /\ challengeRow[c].kind = "registration"
          /\ ~challengeRow[c].used /\ challengeRow[c] \in ChallengeRow
        BY <1>5, <1>7, RowTypes DEF UsableChallenge, BrowserInv
    <2>2. d \in ChallengeRow
        BY <2>1, MarkedRows
    <2>3. d.kind = challengeRow[c].kind
        BY <2>1, SMT DEF ChallengeRow
    <2>4. d.used = TRUE
        BY <2>1, SMT DEF ChallengeRow
    <2>5. k \in CredentialRow /\ k.owner = c
        BY <1>4, <1>5, Zenon DEF CredentialRow
    <2>6. /\ challengeRow' = [challengeRow EXCEPT ![c] = d]
          /\ credentialRow' = [credentialRow EXCEPT ![a] = k]
        BY <1>7
    <2> HIDE DEF k, d
    <2>7. d # Unset /\ k # Unset
        BY <2>2, <2>5, UnsetAssumption
    <2>8. /\ challengeRow' \in [Challenges -> ChallengeRow \cup {Unset}]
          /\ challengeRow'[c] = d
          /\ \A e \in Challenges : e # c => challengeRow'[e] = challengeRow[e]
        BY <1>5, <2>2, <2>6 DEF BrowserInv, BrowserTypeOK
    <2>9. /\ credentialRow' \in [Authenticators -> CredentialRow \cup {Unset}]
          /\ credentialRow'[a] = k
          /\ \A b \in Authenticators : b # a => credentialRow'[b] = credentialRow[b]
        BY <1>5, <2>5, <2>6 DEF BrowserInv, BrowserTypeOK
    <2>10. /\ person' \in [People -> {"none", "active", "deleted"}]
           /\ person'[c] = "active"
           /\ \A u \in People : u # c => person'[u] = person[u]
        BY <1>5, <1>7 DEF BrowserInv, BrowserTypeOK
    <2>11. person[c] = "none"
        <3>1. ~Registered(c)
            BY <2>1 DEF Registered
        <3> QED BY <1>5, <3>1 DEF BrowserInv, RegisteredWhole, Registered
    <2>12. PICK r \in BrowserRow : r = NewBrowserRow(c, c)
        BY <1>5, NewRow DEF BrowserInv
    <2>13. r.owner = c /\ r.from = c /\ r.expires <= r.absolute
        BY <1>5, <2>12, NewRow DEF BrowserInv
    <2>14. browserRow' = [browserRow EXCEPT ![FreshSession] = r]
        BY <1>7, <2>12
    <2>15. browserRow' \in [BrowserSessions -> BrowserRow \cup {Unset}]
        BY <1>4, <2>14, Inserted DEF BrowserInv
    <2>16. PICK f \in BrowserSessions :
            /\ browserRow[f] = Unset /\ browserRow'[f] = r
            /\ \A s \in BrowserSessions : s # f => browserRow'[s] = browserRow[s]
        BY <1>4, <2>14, Inserted DEF BrowserInv
    <2>17. Grows
        <3>1. clock \in Nat
            BY RowTypes DEF BrowserInv
        <3>2. clock' \in Nat /\ clock' >= clock
            BY <1>4, <3>1, SMT
        <3>3. \A s \in BrowserSessions : browserRow[s] # Unset =>
                  browserRow'[s] = browserRow[s]
            BY <2>16
        <3>4. \A b \in Authenticators : credentialRow[b] # Unset =>
                  credentialRow'[b] = credentialRow[b]
            BY <1>7, <2>9
        <3>5. \A e \in Challenges : challengeRow[e] # Unset =>
                challengeRow'[e] # Unset /\ (challengeRow[e].used => challengeRow'[e].used)
            BY <2>4, <2>7, <2>8
        <3>6. \A u \in People : /\ person[u] # "none" => person'[u] # "none"
                                /\ person'[u] = "active" => person[u] # "deleted"
            BY <2>10, <2>11
        <3> QED BY <3>2, <3>3, <3>4, <3>5, <3>6, RowsSame DEF Grows
    <2>18. RowOK(r)'
        BY <2>4, <2>7, <2>8, <2>10, <2>13 DEF RowOK
    <2>19. \A q \in BrowserProcs : Holding(serving[q]) => serving[q].on # r.from
        BY <2>1, <2>13 DEF BrowserInv, ProcInv, ProcOK
    <2>20. \A s \in BrowserSessions : browserRow[s] # Unset => browserRow[s].from # r.from
        BY <2>1, <2>13 DEF BrowserInv, SessionInv, RowOK
    <2>21. /\ ProcInv' /\ serving' \in [BrowserProcs -> Serving]
           /\ TicketInv' /\ SessionInv' /\ ChallengeUsedOnce'
        BY <1>4, <2>16, <2>17, <2>18, <2>19, <2>20, SessionAdded
    <2>22. RegisteredWhole'
        <3>1. person'[c] # "none" /\ Registered(c)' /\ Owns(a, c)'
            BY <2>1, <2>3, <2>4, <2>5, <2>7, <2>8, <2>9, <2>10 DEF Registered, Owns
        <3>2. ASSUME NEW e \in Challenges, e # c
              PROVE  person'[e] # "none" <=>
                       Registered(e)' /\ \E b \in Authenticators : Owns(b, e)'
            <4>1. person'[e] = person[e] /\ (Registered(e)' <=> Registered(e))
                BY <2>8, <2>10, <3>2 DEF People, Registered
            <4>2. \A b \in Authenticators : Owns(b, e)' <=> Owns(b, e)
                BY <1>7, <2>5, <2>9, <3>2 DEF Owns
            <4>3. person[e] # "none" <=>
                    Registered(e) /\ \E b \in Authenticators : Owns(b, e)
                BY DEF BrowserInv, RegisteredWhole, Registered, Owns
            <4> QED BY <4>1, <4>2, <4>3
        <3>3. \A e \in Challenges : person'[e] # "none" <=>
                  Registered(e)' /\ \E b \in Authenticators : Owns(b, e)'
            BY <1>5, <3>1, <3>2
        <3> QED BY <3>3 DEF RegisteredWhole, Registered, Owns
    <2>23. BrowserTypeOK'
        BY <1>4, <2>8, <2>9, <2>10, <2>15, <2>21 DEF BrowserInv, BrowserTypeOK
    <2> QED BY <2>17, <2>21, <2>22, <2>23 DEF BrowserInv
<1> QED BY <1>1, <1>2, <1>3, <1>6, <1>7 DEF RegistrationComplete

(* A statement on the sessions alone, which inserts none.                  *)
LEMMA OnlySessions ==
    ASSUME BrowserInv, UNCHANGED <<challengeRow, person, credentialRow, clock>>,
           \A s \in BrowserSessions :
               /\ browserRow[s] = Unset => browserRow'[s] = Unset
               /\ browserRow[s] # Unset =>
                      browserRow'[s] # Unset /\ RowStep(browserRow[s], browserRow'[s])
    PROVE  Grows /\ NoNewSession /\ NoNewAccount
<1>1. clock \in Nat
    BY RowTypes DEF BrowserInv
<1>2. clock' \in Nat /\ clock' >= clock
    BY <1>1, SMT
<1>3. Grows
    BY <1>2, RowsSame DEF Grows
<1> QED BY <1>3 DEF NoNewSession, NoNewAccount, Owns, Registered

(* One session changes.                                                    *)
LEMMA OneRow ==
    ASSUME BrowserInv, UNCHANGED <<challengeRow, person, credentialRow, clock>>,
           NEW s \in BrowserSessions, browserRow[s] # Unset,
           NEW r \in BrowserRow, RowStep(browserRow[s], r),
           browserRow' = [browserRow EXCEPT ![s] = r]
    PROVE  /\ Grows /\ NoNewSession /\ NoNewAccount
           /\ browserRow' \in [BrowserSessions -> BrowserRow \cup {Unset}]
<1>1. browserRow \in [BrowserSessions -> BrowserRow \cup {Unset}]
    BY DEF BrowserInv, BrowserTypeOK
<1>2. /\ browserRow' \in [BrowserSessions -> BrowserRow \cup {Unset}]
      /\ browserRow'[s] = r
      /\ \A o \in BrowserSessions : o # s => browserRow'[o] = browserRow[o]
    BY <1>1
<1>3. r # Unset
    BY UnsetAssumption
<1>4. \A o \in BrowserSessions :
          /\ browserRow[o] = Unset => browserRow'[o] = Unset
          /\ browserRow[o] # Unset =>
                 browserRow'[o] # Unset /\ RowStep(browserRow[o], browserRow'[o])
    BY <1>2, <1>3, RowsSame
<1> QED BY <1>2, <1>4, OnlySessions

(* A row that a statement revokes, and one that it gives a new proof.      *)
LEMMA RowChanges ==
    ASSUME BrowserInv, NEW s \in BrowserSessions, browserRow[s] # Unset
    PROVE  /\ [browserRow[s] EXCEPT !.revoked = TRUE] \in BrowserRow
           /\ [browserRow[s] EXCEPT !.proof = @ + 1] \in BrowserRow
           /\ RowStep(browserRow[s], [browserRow[s] EXCEPT !.revoked = TRUE])
           /\ RowStep(browserRow[s], [browserRow[s] EXCEPT !.proof = @ + 1])
<1>1. PICK b \in BrowserRow : b = browserRow[s]
    BY RowTypes DEF BrowserInv
<1>2. b.expires <= b.absolute
    BY <1>1 DEF BrowserInv, SessionInv, RowOK
<1> DEFINE c == [b EXCEPT !.revoked = TRUE]
           d == [b EXCEPT !.proof = @ + 1]
<1>3. c \in BrowserRow
    BY MarkedRows
<1>4. c.owner = b.owner /\ c.from = b.from /\ c.absolute = b.absolute /\ c.expires = b.expires
    BY SMT DEF BrowserRow
<1>5. c.revoked = TRUE
    BY SMT DEF BrowserRow
<1>6. b.proof + 1 \in Nat
    BY SMT DEF BrowserRow
<1>7. d \in BrowserRow
    BY <1>6, SMT DEF BrowserRow
<1>8. d.owner = b.owner /\ d.from = b.from /\ d.absolute = b.absolute /\ d.expires = b.expires
    BY SMT DEF BrowserRow
<1>9. d.revoked = b.revoked
    BY SMT DEF BrowserRow
<1>10. c = [browserRow[s] EXCEPT !.revoked = TRUE] /\ d = [browserRow[s] EXCEPT !.proof = @ + 1]
    BY <1>1
<1> HIDE DEF c, d
<1>11. RowStep(b, c) /\ RowStep(b, d)
    BY <1>2, <1>4, <1>5, <1>8, <1>9 DEF RowStep
<1> QED BY <1>1, <1>3, <1>7, <1>10, <1>11

(* A renewed row keeps its end below its absolute end, and only a row that *)
(* has not ended is renewed.                                               *)
LEMMA RenewedRow ==
    ASSUME BrowserInv, NEW s \in BrowserSessions, browserRow[s] # Unset
    PROVE  Renewed(s) \in BrowserRow /\ RowStep(browserRow[s], Renewed(s))
<1>1. PICK b \in BrowserRow : b = browserRow[s]
    BY RowTypes DEF BrowserInv
<1>2. b.expires <= b.absolute
    BY <1>1 DEF BrowserInv, SessionInv, RowOK
<1>3. b.absolute \in Nat /\ clock \in Nat /\ IdleLife \in Nat
    BY <1>1, RowTypes, BrowserAssumption DEF BrowserInv
<1>4. PICK n : n = Least(clock + IdleLife, b.absolute)
    OBVIOUS
<1>5. n \in Nat /\ n <= b.absolute
    BY <1>3, <1>4, SMT DEF Least
<1> DEFINE c == [b EXCEPT !.expires = n]
<1>6. c \in BrowserRow
    BY <1>5, SMT DEF BrowserRow
<1>7. c.owner = b.owner /\ c.from = b.from /\ c.absolute = b.absolute /\ c.expires = n
    BY SMT DEF BrowserRow
<1>8. c.revoked = b.revoked
    BY SMT DEF BrowserRow
<1>9. Renewed(s) = b \/ (Renewed(s) = c /\ b.expires > clock)
    BY <1>1, <1>4 DEF Renewed
<1> HIDE DEF c
<1>10. b.expires > clock => RowStep(b, c)
    BY <1>5, <1>7, <1>8 DEF RowStep
<1>11. RowStep(b, b)
    BY <1>1, RowsSame
<1> QED BY <1>1, <1>6, <1>9, <1>10, <1>11

(* The statement that renews a session.                                    *)
LEMMA RenewKeeps ==
    ASSUME BrowserInv, NEW p \in BrowserProcs, RenewBrowser(p)
    PROVE  BrowserInv' /\ Grows
<1>1. PICK s : s = serving[p].on
    OBVIOUS
<1>2. /\ serving[p].stage = "renew" /\ ProcOK(serving[p])
      /\ UNCHANGED <<challengeRow, person, credentialRow, clock>> /\ signed' = signed
    BY DEF RenewBrowser, BrowserInv, ProcInv
<1>3. s \in BrowserSessions /\ browserRow[s] # Unset
    BY <1>1, <1>2 DEF ProcOK
<1>4. browserRow' = [browserRow EXCEPT ![s] = Renewed(s)]
    BY <1>1 DEF RenewBrowser
<1>5. PICK r \in BrowserRow : r = Renewed(s) /\ RowStep(browserRow[s], r)
    BY <1>3, RenewedRow
<1>6. browserRow' = [browserRow EXCEPT ![s] = r]
    BY <1>4, <1>5
<1>7. /\ Grows /\ NoNewSession /\ NoNewAccount
      /\ browserRow' \in [BrowserSessions -> BrowserRow \cup {Unset}]
    BY <1>2, <1>3, <1>5, <1>6, OneRow
<1>8. PICK v \in Serving :
        serving' = [serving EXCEPT ![p] = v] /\ ProcOK(v) /\ ~Holding(v)
    <2>1. CASE BrowserDone(p)
        BY <2>1, Finished
    <2>2. CASE BrowserGoto(p, "act")
        <3>1. PICK v \in Serving :
                /\ serving' = [serving EXCEPT ![p] = v]
                /\ v.stage = "act" /\ v.on = serving[p].on
            BY <2>2, Moved DEF BrowserInv
        <3>2. ProcOK(v) /\ ~Holding(v)
            BY <1>1, <1>3, <3>1 DEF ProcOK, Holding
        <3> QED BY <3>1, <3>2
    <2> QED BY <2>1, <2>2 DEF RenewBrowser
<1>9. /\ ProcInv' /\ serving' \in [BrowserProcs -> Serving] /\ serving'[p] = v
      /\ \A q \in BrowserProcs : q # p => serving'[q] = serving[q]
    BY <1>7, <1>8, OneProc, ProcGrows
<1>10. TicketInv'
    BY <1>7, <1>8, <1>9, TicketsKept
<1>11. BrowserTypeOK'
    BY <1>2, <1>7, <1>9 DEF BrowserInv, BrowserTypeOK
<1> QED BY <1>7, <1>9, <1>10, <1>11, SessionsKept, AccountsKept DEF BrowserInv

(* logout_browser_session.                                                 *)
LEMMA LogoutKeeps ==
    ASSUME BrowserInv, NEW p \in BrowserProcs, LogoutBrowser(p)
    PROVE  BrowserInv' /\ Grows
<1>1. PICK s : s = serving[p].on
    OBVIOUS
<1>2. /\ serving[p].stage = "act" /\ ProcOK(serving[p])
      /\ UNCHANGED <<challengeRow, person, credentialRow, clock>> /\ signed' = signed
      /\ serving' = [serving EXCEPT ![p] = NotServing]
    BY DEF LogoutBrowser, BrowserDone, BrowserInv, ProcInv
<1>3. s \in BrowserSessions /\ browserRow[s] # Unset
    BY <1>1, <1>2 DEF ProcOK
<1>4. CASE browserRow' = browserRow
    <2>1. UNCHANGED <<browserData, clock>> /\ signed' \in [Authenticators -> Nat]
        BY <1>2, <1>4 DEF browserData, BrowserInv, BrowserTypeOK
    <2> QED BY <1>2, <2>1, Finished, ReadStep
<1>5. CASE browserRow' = [browserRow EXCEPT ![s].revoked = TRUE]
    <2>1. PICK r \in BrowserRow : /\ r = [browserRow[s] EXCEPT !.revoked = TRUE]
                                  /\ RowStep(browserRow[s], r)
        BY <1>3, RowChanges
    <2>2. browserRow' = [browserRow EXCEPT ![s] = r]
        BY <1>5, <2>1
    <2>3. /\ Grows /\ NoNewSession /\ NoNewAccount
          /\ browserRow' \in [BrowserSessions -> BrowserRow \cup {Unset}]
        BY <1>2, <1>3, <2>1, <2>2, OneRow
    <2>4. /\ ProcInv' /\ serving' \in [BrowserProcs -> Serving]
          /\ serving'[p] = NotServing
          /\ \A q \in BrowserProcs : q # p => serving'[q] = serving[q]
        BY <1>2, <2>3, Finished, OneProc
    <2>5. TicketInv'
        BY <2>3, <2>4, Finished, TicketsKept
    <2>6. BrowserTypeOK'
        BY <1>2, <2>3, <2>4 DEF BrowserInv, BrowserTypeOK
    <2> QED BY <2>3, <2>4, <2>5, <2>6, SessionsKept, AccountsKept DEF BrowserInv
<1> QED BY <1>1, <1>4, <1>5 DEF LogoutBrowser

(* A new proof for a cookie.                                               *)
LEMMA RotateKeeps ==
    ASSUME BrowserInv, NEW s \in BrowserSessions, RotateProof(s)
    PROVE  BrowserInv' /\ Grows
<1>1. /\ browserRow[s] # Unset
      /\ UNCHANGED <<challengeRow, person, credentialRow, clock>>
      /\ signed' = signed /\ serving' = serving
      /\ browserRow' = [browserRow EXCEPT ![s].proof = @ + 1]
    BY DEF RotateProof, UnexpiredBrowser
<1>2. PICK r \in BrowserRow : /\ r = [browserRow[s] EXCEPT !.proof = @ + 1]
                              /\ RowStep(browserRow[s], r)
    BY <1>1, RowChanges
<1>3. browserRow' = [browserRow EXCEPT ![s] = r]
    BY <1>1, <1>2
<1>4. /\ Grows /\ NoNewSession /\ NoNewAccount
      /\ browserRow' \in [BrowserSessions -> BrowserRow \cup {Unset}]
    BY <1>1, <1>2, <1>3, OneRow
<1>5. ProcInv' /\ TicketInv'
    BY <1>1, <1>4, NoProc, TicketsKept
<1>6. BrowserTypeOK'
    BY <1>1, <1>4 DEF BrowserInv, BrowserTypeOK
<1> QED BY <1>4, <1>5, <1>6, SessionsKept, AccountsKept DEF BrowserInv

(* delete_account.                                                         *)
LEMMA DeleteKeeps ==
    ASSUME BrowserInv, NEW s \in BrowserSessions, DeleteByBrowser(s)
    PROVE  BrowserInv' /\ Grows
<1>1. PICK u : u = browserRow[s].owner
    OBVIOUS
<1>2. /\ browserRow[s] # Unset /\ person[u] = "active"
      /\ challengeRow' = challengeRow /\ clock' = clock /\ signed' = signed
      /\ serving' = serving
    BY <1>1 DEF DeleteByBrowser, RecentlyAsserted, UnexpiredBrowser
<1>3. u \in People
    BY <1>1, <1>2, RowTypes DEF BrowserInv
<1>4. /\ person' \in [People -> {"none", "active", "deleted"}]
      /\ person'[u] = "deleted"
      /\ \A v \in People : v # u => person'[v] = person[v]
    BY <1>1, <1>3 DEF DeleteByBrowser, BrowserInv, BrowserTypeOK
<1>5. ASSUME NEW a \in Authenticators
      PROVE  /\ credentialRow'[a] \in CredentialRow \cup {Unset}
             /\ credentialRow'[a] # Unset <=> credentialRow[a] # Unset
             /\ credentialRow[a] # Unset =>
                    /\ credentialRow'[a].owner = credentialRow[a].owner
                    /\ credentialRow'[a].count >= credentialRow[a].count
    <2>1. credentialRow[a] \in CredentialRow \cup {Unset}
        BY DEF BrowserInv, BrowserTypeOK
    <2>2. CASE credentialRow'[a] = credentialRow[a]
        BY <2>1, <2>2, RowsSame
    <2>3. CASE /\ credentialRow[a] # Unset
               /\ credentialRow'[a] = [credentialRow[a] EXCEPT !.live = FALSE]
        <3> DEFINE k == credentialRow[a]
                   r == [k EXCEPT !.live = FALSE]
        <3>1. k \in CredentialRow
            BY <2>1, <2>3
        <3>2. r \in CredentialRow
            BY <3>1, MarkedRows
        <3>3. r.owner = k.owner /\ r.count = k.count
            BY <3>1, SMT DEF CredentialRow
        <3>4. credentialRow'[a] = r
            BY <2>3
        <3>5. k.count >= k.count
            BY <2>3, RowsSame
        <3> HIDE DEF r
        <3> QED BY <2>3, <3>2, <3>3, <3>4, <3>5, UnsetAssumption
    <2> QED BY <2>2, <2>3 DEF DeleteByBrowser
<1>6. ASSUME NEW t \in BrowserSessions
      PROVE  /\ browserRow'[t] \in BrowserRow \cup {Unset}
             /\ browserRow[t] = Unset => browserRow'[t] = Unset
             /\ browserRow[t] # Unset =>
                    browserRow'[t] # Unset /\ RowStep(browserRow[t], browserRow'[t])
    <2>1. browserRow[t] \in BrowserRow \cup {Unset}
        BY DEF BrowserInv, BrowserTypeOK
    <2>2. CASE browserRow'[t] = browserRow[t]
        BY <2>1, <2>2, RowsSame
    <2>3. CASE /\ browserRow[t] # Unset
               /\ browserRow'[t] = [browserRow[t] EXCEPT !.revoked = TRUE]
        <3>1. PICK r \in BrowserRow : /\ r = [browserRow[t] EXCEPT !.revoked = TRUE]
                                      /\ RowStep(browserRow[t], r)
            BY <2>3, RowChanges
        <3> QED BY <2>3, <3>1, UnsetAssumption
    <2> QED BY <2>2, <2>3 DEF DeleteByBrowser
<1>7. clock' \in Nat /\ clock' >= clock
    <2>1. clock \in Nat
        BY RowTypes DEF BrowserInv
    <2> QED BY <1>2, <2>1, SMT
<1>8. \A v \in People : /\ person[v] # "none" <=> person'[v] # "none"
                        /\ person'[v] = "active" => person[v] # "deleted"
    BY <1>2, <1>4
<1>9. Grows /\ NoNewSession
    BY <1>2, <1>5, <1>6, <1>7, <1>8 DEF Grows, NoNewSession
<1>10. NoNewAccount
    BY <1>2, <1>5, <1>8 DEF NoNewAccount, Registered, Owns, People
<1>11. ProcInv' /\ TicketInv'
    BY <1>2, <1>9, NoProc, TicketsKept
<1>12. /\ credentialRow' \in [Authenticators -> CredentialRow \cup {Unset}]
       /\ browserRow' \in [BrowserSessions -> BrowserRow \cup {Unset}]
    <2>1. \E f : credentialRow' = [a \in Authenticators |-> f[a]]
        BY ZenonT(40) DEF DeleteByBrowser
    <2>2. \E f : browserRow' = [t \in BrowserSessions |-> f[t]]
        BY ZenonT(40) DEF DeleteByBrowser
    <2> QED BY <1>5, <1>6, <2>1, <2>2
<1>13. BrowserTypeOK'
    BY <1>2, <1>4, <1>12 DEF BrowserInv, BrowserTypeOK
<1> QED BY <1>9, <1>10, <1>11, <1>13, SessionsKept, AccountsKept DEF BrowserInv

(* Nothing has happened yet.                                               *)
LEMMA BrowserStarts ==
    ASSUME BrowserInit
    PROVE  BrowserInv
<1>1. BrowserTypeOK
    <2>1. \A a \in Members : [owner |-> a, count |-> 0, live |-> TRUE] \in CredentialRow
        BY Zenon DEF CredentialRow, People
    <2>2. credentialRow \in [Authenticators -> CredentialRow \cup {Unset}]
        BY <2>1 DEF BrowserInit
    <2>3. clock \in 0 .. MaxClock
        <3>1. clock = 0 /\ MaxClock \in Nat
            BY BrowserAssumption DEF BrowserInit
        <3> QED BY <3>1, SMT
    <2>4. serving \in [BrowserProcs -> Serving]
        BY Finished DEF BrowserInit
    <2>5. /\ challengeRow \in [Challenges -> ChallengeRow \cup {Unset}]
          /\ browserRow \in [BrowserSessions -> BrowserRow \cup {Unset}]
          /\ person \in [People -> {"none", "active", "deleted"}]
        BY DEF BrowserInit
    <2>6. signed \in [Authenticators -> Nat]
        BY DEF BrowserInit
    <2> QED BY <2>2, <2>3, <2>4, <2>5, <2>6 DEF BrowserTypeOK
<1>2. \A p \in BrowserProcs : serving[p] = NotServing
    BY DEF BrowserInit
<1>3. ProcInv /\ TicketInv
    BY <1>2, Finished DEF ProcInv, TicketInv
<1>4. SessionInv /\ ChallengeUsedOnce
    BY DEF BrowserInit, SessionInv, ChallengeUsedOnce
<1>5. RegisteredWhole
    <2>1. \A c \in Challenges : challengeRow[c] = Unset
        BY DEF BrowserInit
    <2>2. \A c \in Challenges : person[c] = "none"
        BY BrowserAssumption DEF BrowserInit, People
    <2> QED BY <2>1, <2>2 DEF RegisteredWhole
<1> QED BY <1>1, <1>3, <1>4, <1>5 DEF BrowserInv

(* Every statement keeps the invariant, and only moves the rows forward.   *)
LEMMA BrowserMoves ==
    ASSUME BrowserInv, BrowserNext
    PROVE  BrowserInv' /\ Grows
<1>1. ASSUME NEW p \in BrowserProcs, BrowserStep(p)
      PROVE  BrowserInv' /\ Grows
    <2>1. ASSUME NEW c \in Challenges, NEW a \in Authenticators,
                 RegistrationLoad(p, c, a) \/ AuthenticationLoad(p, c, a)
          PROVE  BrowserInv' /\ Grows
        BY <2>1, RegistrationLoadKeeps, AuthenticationLoadKeeps
    <2>2. CASE RegistrationComplete(p)
        BY <2>2, RegistrationKeeps
    <2>3. CASE AuthenticationFind(p)
        BY <2>3, FindKeeps
    <2>4. CASE AuthenticationConsume(p)
        BY <2>4, ConsumeKeeps
    <2>5. CASE AuthenticationAdvance(p)
        BY <2>5, AdvanceKeeps
    <2>6. CASE AuthenticationCreate(p)
        BY <2>6, CreateKeeps
    <2>7. ASSUME NEW s \in BrowserSessions, NEW then \in {"none", "logout"},
                 ResolveBrowser(p, s, then)
          PROVE  BrowserInv' /\ Grows
        BY <2>7, ResolveKeeps
    <2>8. CASE RenewBrowser(p)
        BY <2>8, RenewKeeps
    <2>9. CASE LogoutBrowser(p)
        BY <2>9, LogoutKeeps
    <2>10. CASE BrowserFail(p)
        BY <2>10, FailKeeps
    <2> QED BY <1>1, <2>1, <2>2, <2>3, <2>4, <2>5, <2>6, <2>7, <2>8, <2>9, <2>10
            DEF BrowserStep
<1>2. ASSUME NEW c \in Challenges, RegistrationOptions(c) \/ AuthenticationOptions(c)
      PROVE  BrowserInv' /\ Grows
    BY <1>2, CreateChallengeKeeps DEF RegistrationOptions, AuthenticationOptions
<1>3. ASSUME NEW s \in BrowserSessions, RotateProof(s) \/ DeleteByBrowser(s)
      PROVE  BrowserInv' /\ Grows
    BY <1>3, RotateKeeps, DeleteKeeps
<1>4. CASE BrowserTick
    BY <1>4, TickKeeps
<1> QED BY <1>1, <1>2, <1>3, <1>4 DEF BrowserNext

(* Nothing happens.                                                        *)
LEMMA BrowserStutters ==
    ASSUME BrowserInv, UNCHANGED browserVars
    PROVE  BrowserInv'
<1>1. /\ challengeRow' = challengeRow /\ person' = person /\ signed' = signed
      /\ credentialRow' = credentialRow /\ browserRow' = browserRow
      /\ clock' = clock /\ serving' = serving
    BY DEF browserVars
<1> QED BY <1>1, SMT DEF BrowserInv, BrowserTypeOK, ProcInv, ProcOK, Holding, TicketInv,
                    SessionInv, RowOK, ChallengeUsedOnce, RegisteredWhole

(* No session outlives its absolute end, although three statements do not  *)
(* look at it.                                                             *)
LEMMA NoneBeyondItsEnd ==
    ASSUME BrowserInv
    PROVE  AbsoluteEndHolds
<1>1. ASSUME NEW s \in BrowserSessions, UnexpiredBrowser(s)
      PROVE  LiveBrowser(s)
    <2>1. browserRow[s] # Unset /\ browserRow[s].expires > clock
        BY <1>1 DEF UnexpiredBrowser
    <2>2. /\ browserRow[s].expires <= browserRow[s].absolute /\ clock \in Nat
          /\ browserRow[s].expires \in Nat /\ browserRow[s].absolute \in Nat
        BY <2>1, RowTypes DEF BrowserInv, SessionInv, RowOK
    <2>3. browserRow[s].absolute > clock
        BY <2>1, <2>2, SMT
    <2> QED BY <1>1, <2>3 DEF LiveBrowser
<1> QED BY <1>1 DEF AbsoluteEndHolds

-----------------------------------------------------------------------------
(* The handlers of http/auth.rs and http/account.rs, statement by          *)
(* statement and in any interleaving, keep the invariant.                  *)
THEOREM BrowserAlwaysConsistent == BrowserSpec => []BrowserInv
<1>1. BrowserInit => BrowserInv
    BY BrowserStarts
<1>2. BrowserInv /\ [BrowserNext]_browserVars => BrowserInv'
    BY BrowserMoves, BrowserStutters
<1> QED BY <1>1, <1>2, PTL DEF BrowserSpec

(* One challenge becomes at most one session, a registration is whole or   *)
(* leaves nothing, and no session is accepted beyond its absolute end.     *)
THEOREM BrowserAlwaysSafe == BrowserSpec => []BrowserSafe
<1>1. BrowserInv => BrowserSafe
    BY NoneBeyondItsEnd DEF BrowserInv, BrowserSafe
<1> QED BY <1>1, BrowserAlwaysConsistent, PTL

(* The stored signature counter never goes back, and a session that has    *)
(* ended never works again.                                                *)
THEOREM NothingComesBack == BrowserSpec => BrowserSteps
<1>1. BrowserInv /\ [BrowserNext]_browserVars =>
          [SignCountNeverBack /\ EndedStaysEnded]_browserVars
    BY BrowserMoves, StepsHold
<1> QED BY <1>1, BrowserAlwaysConsistent, PTL DEF BrowserSpec, BrowserSteps

=============================================================================
