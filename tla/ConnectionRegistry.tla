------------------------- MODULE ConnectionRegistry -------------------------
(***************************************************************************)
(* The generations of device connections: what ConnectionRegistry          *)
(* (device_control_presence.rs) and the control sessions that drive it     *)
(* (http/control.rs) promise to the command router.  Every control         *)
(* WebSocket gets a fresh connection id, its generation; a device has at   *)
(* most one active generation.  ControlSession is the detailed model of    *)
(* the same code and implements this one.                                  *)
(***************************************************************************)

CONSTANTS
    Devices,    \* device_id
    Conns,      \* connection_id: one value for each control WebSocket
    DeviceOf,   \* [Conns -> Devices], the authenticated device of a socket
    NoConn      \* no generation

ASSUME DeviceOfAssumption == DeviceOf \in [Conns -> Devices]
ASSUME NoConnAssumption == NoConn \notin Conns

VARIABLES
    active,     \* RegistryState.active: the active generation of a device
    sess,       \* where the session task of each generation is
    cleaning,   \* the generation for which the session still has to call
                \* CommandRouter::disconnected
    revoked,    \* devices for which the store's owned() fails
    revoking    \* revoke handlers between their store and registry calls

regVars == <<active, sess, cleaning, revoked, revoking>>

(***************************************************************************)
(* new       the socket has not registered                                 *)
(* admitted  the manifest is stored, register is the next call             *)
(* starting  registered, the handshake is not over                         *)
(* loop      in the select! loop: reads the socket, drains its queue       *)
(* ended     the session has left the loop or the handshake                *)
(***************************************************************************)
SessStates == {"new", "admitted", "starting", "loop", "ended"}

RegTypeOK ==
    /\ active \in [Devices -> Conns \cup {NoConn}]
    /\ sess \in [Conns -> SessStates]
    /\ cleaning \in [Conns -> Conns \cup {NoConn}]
    /\ revoked \subseteq Devices
    /\ revoking \subseteq revoked

RegInit ==
    /\ active = [d \in Devices |-> NoConn]
    /\ sess = [c \in Conns |-> "new"]
    /\ cleaning = [c \in Conns |-> NoConn]
    /\ revoked = {}
    /\ revoking = {}

IsActive(c) == active[DeviceOf[c]] = c

Registered(c) == sess[c] \in {"starting", "loop", "ended"}

(* apply_manifest accepted the registration: the device is owned.          *)
Admit(c) ==
    /\ sess[c] = "new"
    /\ DeviceOf[c] \notin revoked
    /\ sess' = [sess EXCEPT ![c] = "admitted"]
    /\ UNCHANGED <<active, cleaning, revoked, revoking>>

(* registry.register: c becomes the active generation of its device, and   *)
(* the session owes a disconnected() for a generation it replaced.         *)
Register(c) ==
    /\ sess[c] = "admitted"
    /\ sess' = [sess EXCEPT ![c] = "starting"]
    /\ active' = [active EXCEPT ![DeviceOf[c]] = c]
    /\ cleaning' = [cleaning EXCEPT ![c] = active[DeviceOf[c]]]
    /\ UNCHANGED <<revoked, revoking>>

(* CommandRouter::disconnected has been called.                            *)
Cleaned(c) ==
    /\ cleaning[c] # NoConn
    /\ cleaning' = [cleaning EXCEPT ![c] = NoConn]
    /\ UNCHANGED <<active, sess, revoked, revoking>>

(* registry.disconnect removes the entry only if it is still of generation *)
(* c; a session that was replaced or revoked meanwhile removes nothing.    *)
RemoveOwn(c) ==
    active' = [d \in Devices |-> IF d = DeviceOf[c] /\ IsActive(c)
                                 THEN NoConn ELSE active[d]]

EnterLoop(c) ==
    /\ sess[c] = "starting" /\ cleaning[c] = NoConn
    /\ sess' = [sess EXCEPT ![c] = "loop"]
    /\ UNCHANGED <<active, cleaning, revoked, revoking>>

(* device.registered could not be sent: disconnect, and the router is not  *)
(* told.                                                                   *)
AbortRegistration(c) ==
    /\ sess[c] = "starting" /\ cleaning[c] = NoConn
    /\ sess' = [sess EXCEPT ![c] = "ended"]
    /\ RemoveOwn(c)
    /\ UNCHANGED <<cleaning, revoked, revoking>>

(* The initial directory snapshot could not be built or sent: the session  *)
(* returns and leaves its registry entry behind.                           *)
AbandonRegistration(c) ==
    /\ sess[c] = "starting" /\ cleaning[c] = NoConn
    /\ sess' = [sess EXCEPT ![c] = "ended"]
    /\ UNCHANGED <<active, cleaning, revoked, revoking>>

(* The session leaves its loop (close, transport loss, heartbeat expiry,   *)
(* protocol error, shutdown, replacement).  Only if it still owned the     *)
(* entry, it goes on to call CommandRouter::disconnected for itself.       *)
EndLoop(c) ==
    /\ sess[c] = "loop"
    /\ sess' = [sess EXCEPT ![c] = "ended"]
    /\ RemoveOwn(c)
    /\ cleaning' = [cleaning EXCEPT ![c] = IF IsActive(c) THEN c ELSE @]
    /\ UNCHANGED <<revoked, revoking>>

(* The revoke handlers: the store marks the device revoked ...             *)
RevokeInStore(d) ==
    /\ d \notin revoked
    /\ revoked' = revoked \cup {d}
    /\ revoking' = revoking \cup {d}
    /\ UNCHANGED <<active, sess, cleaning>>

(* ... and registry.revoke removes its active generation.  The router is   *)
(* not told.                                                               *)
RevokeInRegistry(d) ==
    /\ d \in revoking
    /\ revoking' = revoking \ {d}
    /\ active' = [active EXCEPT ![d] = NoConn]
    /\ UNCHANGED <<sess, cleaning, revoked>>

(* The server process restarts: the sessions, the registry and the         *)
(* handlers in progress are lost.                                          *)
RegRestart ==
    /\ active' = [d \in Devices |-> NoConn]
    /\ sess' = [c \in Conns |-> IF sess[c] = "new" THEN "new" ELSE "ended"]
    /\ cleaning' = [c \in Conns |-> NoConn]
    /\ revoking' = {}
    /\ UNCHANGED revoked

RegNext ==
    \/ \E c \in Conns :
        \/ Admit(c) \/ Register(c) \/ Cleaned(c) \/ EnterLoop(c)
        \/ AbortRegistration(c) \/ AbandonRegistration(c) \/ EndLoop(c)
    \/ \E d \in Devices : RevokeInStore(d) \/ RevokeInRegistry(d)
    \/ RegRestart

RegSpec == RegInit /\ [][RegNext]_regVars
=============================================================================
