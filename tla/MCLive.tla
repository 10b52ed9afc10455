------------------------------- MODULE MCLive -------------------------------
(***************************************************************************)
(* Instances of the device state, of voice sessions and of requests about  *)
(* accounts, with the fairness under which they make progress: two sockets *)
(* of one device, two of three voice sessions, three requests at a time.   *)
(* The parts share no variable, so in a behaviour one of them moves.       *)
(***************************************************************************)
EXTENDS StateSync, VoiceStream, AccountAccess

CONSTANTS playback, u1, u2, d1, d2, r1, r2, r3, k1, k2, p1, p2

VARIABLE part

-----------------------------------------------------------------------------
(* Accounts: who asks for what at the same time.                           *)
Request(o, x, a) == [op |-> o, on |-> x, as |-> a]
Together(a, b, c) == [p \in Procs |-> CASE p = p1 -> a [] p = p2 -> b [] OTHER -> c]
DevicesOfFirst == [d \in Devices |-> u1]
PasskeysOfFirst == [k \in Passkeys |-> u1]
ApprovedBefore == [r \in Pairings |-> CASE r = r2 -> u1 [] r = r3 -> u2 [] OTHER -> None]

PairingLoads ==
    {Together(Request("approve", r1, u1), Request("complete", r1, None), x) :
        x \in {Request("complete", r1, None), Request("complete", r2, None),
               Request("delete", u1, d1)}}
    \cup {Together(Request("deactivate", u, None), Request("complete", r, None),
                   Request("complete", r, None)) : <<u, r>> \in {<<u1, r2>>, <<u2, r3>>}}
DeviceLoads ==
    {Together(Request("issue", d1, None), x, y) :
        x \in {Request("issue", d1, None), Request("op_passkey", k1, None)},
        y \in {Request("revoke", d1, d2), Request("browser_revoke", d1, u1),
               Request("op_device", d1, None), Request("delete", u1, d1),
               Request("op_passkey", k2, None)}}
TheLoads == PairingLoads \cup DeviceLoads

(* Only what a request depends on expires.                                 *)
Requests ==
    /\ AccNext
    /\ \A r \in Pairings : pairingRow'[r].expired =>
          \E p \in Procs : accReq[p] = Request("approve", r, u1)
    /\ \A s \in SessionIds : sessionRow'[s] # None /\ sessionRow'[s].expired =>
          \E p \in Procs : accReq[p].op \in {"revoke", "delete"} /\ accReq[p].as = s

(* Voice sessions, two of the three.                                       *)
Conversations == VoiceNext /\ \E v \in VoiceSessions : voiceAt'[v] = "new"

TheTranscripts == {{<<"volume">>, <<"number", 7>>}, {<<"genre">>}, {<<"play">>}}
TheReplies ==
    [intent : {"play_radio", "stop", "volume_change", "set_volume", "add_favorite", "unknown"},
     query : BOOLEAN, delta : {NoVoice, 0, 5}, level : {NoVoice, 7, 101}]

liveVars == <<vars, voiceVars, accVars, part>>

LiveInit ==
    /\ part \in {"state", "voice", "accounts"}
    /\ Init /\ VoiceInit /\ AccInit
    /\ part # "accounts" => accReq = CHOOSE load \in TheLoads : TRUE
    /\ part # "voice" => favourites = {}
    /\ truth[1][playback] = 1 \* the fields are alike

LiveNext ==
    /\ \/ part = "state" /\ Next /\ UNCHANGED <<voiceVars, accVars>>
       \/ part = "voice" /\ Conversations /\ UNCHANGED <<vars, accVars>>
       \/ part = "accounts" /\ Requests /\ UNCHANGED <<vars, voiceVars>>
    /\ UNCHANGED part

PartsSpec ==
    /\ LiveInit /\ [][LiveNext]_liveVars
    /\ \A c \in Conns :
         /\ WF_vars(part = "state" /\ ServerStep(c))
         /\ WF_vars(part = "state" /\ AnswerResync(c))
    /\ \A v \in VoiceSessions : WF_voiceVars(part = "voice" /\ ServerVoice(v))
    /\ WF_accVars(part = "accounts" /\ AccProgress)
=============================================================================
