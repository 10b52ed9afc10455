----------------------------- MODULE YandexLink -----------------------------
(***************************************************************************)
(* The link of an account to its Yandex smart home: authorization with a   *)
(* one-time state, the stored token, reading of the sensors, and the ends  *)
(* of the link.  Every step is one database statement or one call of       *)
(* Yandex; a token is opaque and stands for its encrypted form.            *)
(***************************************************************************)
EXTENDS Integers, Sequences, SequencesExt, FiniteSetsExt, Sample

CONSTANTS Homes,          \* accounts
          OAuthStates, LinkProcs,
          Rooms, MaxSensors, \* bounds of the answers considered
          NoLink

VARIABLES oauth,      \* yandex_home_oauth_states: the owner, or NoLink
          issued,     \* states handed out so far, with their owners
          link,       \* yandex_home_connections
          closed,     \* deleted accounts
          refused,    \* tokens that Yandex no longer accepts
          visit,      \* what each request is doing
          saves       \* history: connections saved for each state

linkVars == <<oauth, issued, link, closed, refused, visit, saves>>

(* A token is named by the state whose authorization produced it.          *)
LinkRow == [token : OAuthStates, revoked : BOOLEAN]
NoVisit == [stage |-> "idle", home |-> NoLink, state |-> NoLink]

LinkTypeOK ==
    /\ oauth \in [OAuthStates -> Homes \cup {NoLink}]
    /\ issued \in [OAuthStates -> Homes \cup {NoLink}]
    /\ link \in [Homes -> LinkRow \cup {NoLink}]
    /\ closed \subseteq Homes /\ refused \subseteq OAuthStates
    /\ visit \in [LinkProcs ->
         [stage : {"idle", "cookie", "exchange", "save", "fetch", "revoke"},
          home : Homes \cup {NoLink}, state : OAuthStates \cup {NoLink}]]
    /\ saves \in [OAuthStates -> Nat]

LinkInit ==
    /\ oauth = [o \in OAuthStates |-> NoLink]
    /\ issued = [o \in OAuthStates |-> NoLink]
    /\ link = [h \in Homes |-> NoLink]
    /\ closed = {} /\ refused = {}
    /\ visit = [p \in LinkProcs |-> NoVisit]
    /\ saves = [o \in OAuthStates |-> 0]

LinkLive(h) == link[h] # NoLink /\ ~link[h].revoked

-----------------------------------------------------------------------------
Going(p, stage) == visit' = [visit EXCEPT ![p].stage = stage]
Left(p) == visit' = [visit EXCEPT ![p] = NoVisit]

(* begin_authorization.                                                    *)
BeginAuthorization(h, o) ==
    /\ issued[o] = NoLink /\ h \notin closed
    /\ oauth' = [oauth EXCEPT ![o] = h]
    /\ issued' = [issued EXCEPT ![o] = h]
    /\ UNCHANGED <<link, closed, refused, visit, saves>>

ExpireState(o) ==
    /\ oauth[o] # NoLink
    /\ oauth' = [oauth EXCEPT ![o] = NoLink]
    /\ UNCHANGED <<issued, link, closed, refused, visit, saves>>

(* authorization_callback: DELETE ... RETURNING gives the owner once.      *)
ConsumeState(p, o) ==
    /\ visit[p] = NoVisit
    /\ oauth[o] # NoLink /\ oauth[o] \notin closed
    /\ oauth' = [oauth EXCEPT ![o] = NoLink]
    /\ visit' = [visit EXCEPT ![p] = [stage |-> "cookie", home |-> oauth[o],
                                      state |-> o]]
    /\ UNCHANGED <<issued, link, closed, refused, saves>>

(* A cookie of another account ends the callback; none, or one that cannot *)
(* be looked up, does not.  The mutant goes on for the cookie's account.   *)
CheckCookieOther(p, cookie) ==
    /\ visit[p].stage = "cookie"
    /\ visit' = [visit EXCEPT ![p].stage = "exchange",
                   ![p].home = IF cookie = NoLink THEN @ ELSE cookie]
    /\ UNCHANGED <<oauth, issued, link, closed, refused, saves>>

CheckCookie(p, cookie) ==
    /\ visit[p].stage = "cookie"
    /\ IF cookie \in {NoLink, visit[p].home} THEN Going(p, "exchange")
                                             ELSE Left(p)
    /\ UNCHANGED <<oauth, issued, link, closed, refused, saves>>

(* exchange_code: a token, or the callback fails.                          *)
ExchangeCode(p, ok) ==
    /\ visit[p].stage = "exchange"
    /\ IF ok THEN Going(p, "save") ELSE Left(p)
    /\ UNCHANGED <<oauth, issued, link, closed, refused, saves>>

(* save_yandex_home_connection replaces the token and clears revoked_at.   *)
SaveConnection(p) ==
    LET h == visit[p].home IN
    /\ visit[p].stage = "save"
    /\ IF h \in closed
       THEN UNCHANGED <<link, saves>>
       ELSE /\ link' = [link EXCEPT ![h] = [token |-> visit[p].state,
                                            revoked |-> FALSE]]
            /\ saves' = [saves EXCEPT ![visit[p].state] = @ + 1]
    /\ Left(p)
    /\ UNCHANGED <<oauth, issued, closed, refused>>

-----------------------------------------------------------------------------
(* sensors: the stored token is read, then Yandex is asked.                *)
ReadConnection(p, h) ==
    /\ visit[p] = NoVisit /\ h \notin closed /\ LinkLive(h)
    /\ visit' = [visit EXCEPT ![p] = [stage |-> "fetch", home |-> h,
                                      state |-> link[h].token]]
    /\ UNCHANGED <<oauth, issued, link, closed, refused, saves>>

(* home_devices: answers that refuse the token lead to a revocation, any   *)
(* other failure does not.                                                 *)
Answers == {"devices", "unauthorized", "undecipherable", "unavailable"}

FetchDevices(p, answer) ==
    /\ visit[p].stage = "fetch"
    /\ answer = "unauthorized" => visit[p].state \in refused
    /\ answer = "undecipherable" => visit[p].state \in refused
    /\ IF answer \in {"unauthorized", "undecipherable"} THEN Going(p, "revoke")
                                                        ELSE Left(p)
    /\ UNCHANGED <<oauth, issued, link, closed, refused, saves>>

(* revoke_yandex_home_connection, after a refusal or for disconnect.       *)
Revoked(h) ==
    IF LinkLive(h) THEN [link EXCEPT ![h].revoked = TRUE] ELSE link

RevokeRefused(p) ==
    /\ visit[p].stage = "revoke"
    /\ link' = Revoked(visit[p].home)
    /\ Left(p)
    /\ UNCHANGED <<oauth, issued, closed, refused, saves>>

Disconnect(h) ==
    /\ h \notin closed /\ link' = Revoked(h)
    /\ UNCHANGED <<oauth, issued, closed, refused, visit, saves>>

(* The deletion of the account revokes the link; the states stay.          *)
CloseHome(h) ==
    /\ h \notin closed /\ closed' = closed \cup {h}
    /\ link' = Revoked(h)
    /\ UNCHANGED <<oauth, issued, refused, visit, saves>>

(* The owner withdraws the token at Yandex, or the key it is encrypted     *)
(* with changes.                                                           *)
RefuseToken(o) ==
    /\ refused' = refused \cup {o}
    /\ UNCHANGED <<oauth, issued, link, closed, visit, saves>>

LinkFail(p) ==
    /\ visit[p] # NoVisit /\ Left(p)
    /\ UNCHANGED <<oauth, issued, link, closed, refused, saves>>

LinkNext ==
    \/ \E h \in Homes, o \in OAuthStates : BeginAuthorization(h, o)
    \/ \E o \in OAuthStates : ExpireState(o) \/ RefuseToken(o)
    \/ \E h \in Homes : Disconnect(h) \/ CloseHome(h)
    \/ \E p \in LinkProcs :
         \/ \E o \in OAuthStates : ConsumeState(p, o)
         \/ \E cookie \in Homes \cup {NoLink} : CheckCookie(p, cookie)
         \/ \E ok \in BOOLEAN : ExchangeCode(p, ok)
         \/ \E h \in Homes : ReadConnection(p, h)
         \/ \E answer \in Answers : FetchDevices(p, answer)
         \/ SaveConnection(p) \/ RevokeRefused(p) \/ LinkFail(p)

LinkSpec == LinkInit /\ [][LinkNext]_linkVars

-----------------------------------------------------------------------------
(* parse_home_devices: devices without a readable value are left out, an   *)
(* unknown room is no room, properties are ordered by priority and devices *)
(* by room (none first) and name; sorts are stable.  An instance stands    *)
(* for its rank in property_priority.                                      *)
StableSort(s, before) ==
    FoldLeft(LAMBDA acc, x :
               LET k == Cardinality({i \in DOMAIN acc : <<x, acc[i]>> \notin before})
               IN SubSeq(acc, 1, k) \o <<x>> \o SubSeq(acc, k + 1, Len(acc)),
             <<>>, s)

ByPriority(s) == {<<a, b>> \in Range(s) \X Range(s) : a.rank < b.rank}
ByRoom(s) == {<<a, b>> \in Range(s) \X Range(s) :
                 a.room < b.room \/ (a.room = b.room /\ a.name < b.name)}

RoomRank(d, rooms) == IF d.room \in rooms THEN d.room ELSE 0

ParseHomeDevices(raw, rooms) ==
    LET readable(d) == SelectSeq(d.properties, LAMBDA q : q.value # NoLink)
        parsed == [i \in DOMAIN raw |->
                     [name |-> raw[i].name, room |-> RoomRank(raw[i], rooms),
                      properties |-> StableSort(readable(raw[i]), ByPriority(readable(raw[i])))]]
        kept == SelectSeq(parsed, LAMBDA d : d.properties # <<>>)
    IN StableSort(kept, ByRoom(kept))

(* sensors lists the values of all devices in the same order.              *)
FlatSensors(devices) ==
    FlattenSeq([i \in DOMAIN devices |->
                  [k \in DOMAIN devices[i].properties |->
                     [device |-> devices[i].name,
                      rank |-> devices[i].properties[k].rank]]])

-----------------------------------------------------------------------------
(* One authorization links a home once: a callback that is repeated, or    *)
(* two that race, find the state gone.                                     *)
StateSavesOnce == \A o \in OAuthStates : saves[o] <= 1

(* A home is linked with a token that its own account asked for, whoever   *)
(* is signed in where the callback arrives.                                *)
LinkedByOwner ==
    \A h \in Homes : link[h] # NoLink => issued[link[h].token] = h

(* The list of sensors has every readable value of the answer once, the    *)
(* devices in order of room and name.                                      *)
Answer == UNION {[1..n -> [name : 1..2, room : 0..1,
                           properties : UNION {[1..k -> [rank : 1..2,
                                                         value : {0, NoLink}]] :
                                               k \in 0..2}]] : n \in 0..MaxSensors}
SensorsWhole ==
    sample.of = "answer" =>
        LET raw == sample.value
            devices == ParseHomeDevices(raw, Rooms)
            values(d) == Len(SelectSeq(d.properties, LAMBDA q : q.value # NoLink))
        IN /\ Len(FlatSensors(devices)) =
                FoldLeft(LAMBDA n, d : n + values(d), 0, raw)
           /\ \A i, j \in DOMAIN devices : i < j =>
                \/ devices[i].room < devices[j].room
                \/ /\ devices[i].room = devices[j].room
                   /\ devices[i].name <= devices[j].name

(* A link of http/yandex_home.rs is saved once, for the account that asked *)
(* for it.                                                                 *)
LinkSafe == StateSavesOnce /\ LinkedByOwner
=============================================================================
