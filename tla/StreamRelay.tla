----------------------------- MODULE StreamRelay -----------------------------
(***************************************************************************)
(* The relay of station streams (http/relay.rs, http/relay/*.rs): the      *)
(* permits, the opening of the upstream, the pump that takes the ICY       *)
(* blocks out of the audio, the map of latest titles and its subscribers.  *)
(*                                                                         *)
(* Bytes are small numbers; a length byte counts blocks of BlockUnit bytes *)
(* instead of 16.  One pump is followed byte by byte, the others only as   *)
(* far as they hold a permit and observe titles.                           *)
(***************************************************************************)
EXTENDS Naturals, Sequences, FiniteSets, FiniteSetsExt, SequencesExt

CONSTANTS
    Upstreams,      \* what the server of a station may send: <<metaint, bytes>>
    BlockUnit,      \* 16
    TakeLimit,      \* 16 * 1024
    RelayUrls,      \* what a station or a redirect may point to
    Listeners, RelayStations, Titles, Subscribers,
    MaxConnections, MaxSubscribers, MaxRedirects, MaxTitles, ChangeCap, StaleAfter, MaxRelayClock,
    NoTitle

-----------------------------------------------------------------------------
(* The pump *)

VARIABLES
    upstream,   \* bytes the server has not sent yet
    metaint,    \* 0 when there is none
    wantsIcy,   \* the client asked for the blocks
    chunk,      \* the transport chunk in the reader, what is left of it
    pumpAt,     \* "audio", "block" or "done"
    remaining,  \* audio bytes before the next length
    length,     \* the length byte
    block,      \* what was read of the block
    out,        \* bytes sent to the client
    whole       \* the bytes of the server, for the properties

pumpVars == <<upstream, metaint, wantsIcy, chunk, pumpAt, remaining, length, block, out, whole>>

PumpInit ==
    \E u \in Upstreams :
        /\ metaint = u[1] /\ upstream = u[2] /\ whole = u[2]
        /\ wantsIcy \in BOOLEAN
        /\ chunk = <<>> /\ pumpAt = "audio" /\ remaining = u[1]
        /\ length = 0 /\ block = <<>> /\ out = <<>>

(* Reader::take at an empty chunk: the next transport chunk, of any size,  *)
(* or the end or a failure of the upstream.                                *)
Refill ==
    /\ pumpAt # "done" /\ chunk = <<>>
    /\ \/ \E n \in 1..Len(upstream) :
             /\ chunk' = SubSeq(upstream, 1, n)
             /\ upstream' = SubSeq(upstream, n + 1, Len(upstream))
             /\ UNCHANGED pumpAt
       \/ pumpAt' = "done" /\ UNCHANGED <<chunk, upstream>>
    /\ UNCHANGED <<metaint, wantsIcy, remaining, length, block, out, whole>>

(* take: at most limit bytes of the chunk.                                 *)
Taken(limit) == Min({limit, Len(chunk)})
Drop(n) == chunk' = SubSeq(chunk, n + 1, Len(chunk))

(* Audio up to the next length; without metaint there is none.             *)
PumpAudio ==
    /\ pumpAt = "audio" /\ chunk # <<>> /\ (metaint = 0 \/ remaining > 0)
    /\ LET n == Taken(IF metaint = 0 THEN TakeLimit ELSE Min({remaining, TakeLimit})) IN
       /\ Drop(n)
       /\ out' = out \o SubSeq(chunk, 1, n)
       /\ remaining' = IF metaint = 0 THEN 0 ELSE remaining - n
    /\ UNCHANGED <<upstream, metaint, wantsIcy, pumpAt, length, block, whole>>

(* exact(1).                                                               *)
PumpLength ==
    /\ pumpAt = "audio" /\ chunk # <<>> /\ metaint > 0 /\ remaining = 0
    /\ length' = chunk[1] /\ Drop(1)
    /\ pumpAt' = "block" /\ block' = <<>>
    /\ UNCHANGED <<upstream, metaint, wantsIcy, remaining, out, whole>>

(* exact(size): the block may lie across chunks.                           *)
PumpBlock ==
    /\ pumpAt = "block" /\ chunk # <<>> /\ Len(block) < length * BlockUnit
    /\ LET n == Taken(length * BlockUnit - Len(block)) IN
       block' = block \o SubSeq(chunk, 1, n) /\ Drop(n)
    /\ UNCHANGED <<upstream, metaint, wantsIcy, pumpAt, remaining, length, out, whole>>

(* The block is complete: the title is noted (see TitleObserved), and the  *)
(* length and the block go to a client that asked for them.                *)
PumpForward ==
    /\ pumpAt = "block" /\ Len(block) = length * BlockUnit
    /\ out' = IF wantsIcy THEN out \o <<length>> \o block ELSE out
    /\ pumpAt' = "audio" /\ remaining' = metaint
    /\ UNCHANGED <<upstream, metaint, wantsIcy, chunk, length, block, whole>>

(* The client goes away, or STREAM_LIFETIME is over.                       *)
PumpCut ==
    /\ pumpAt # "done" /\ pumpAt' = "done"
    /\ UNCHANGED <<upstream, metaint, wantsIcy, chunk, remaining, length, block, out, whole>>

PumpNext == Refill \/ PumpAudio \/ PumpLength \/ PumpBlock \/ PumpForward \/ PumpCut

(* What the protocol says of a stream, byte by byte: what is audio, and    *)
(* what belongs to blocks.                                                 *)
Protocol(bytes, interval, icy) ==
    LET step(s, b) ==
            IF s.meta > 0
            THEN [s EXCEPT !.meta = @ - 1, !.out = IF icy THEN Append(@, b) ELSE @]
            ELSE IF interval = 0 \/ s.audio > 0
            THEN [s EXCEPT !.audio = IF interval = 0 THEN 0 ELSE @ - 1, !.out = Append(@, b)]
            ELSE [audio |-> interval, meta |-> b * BlockUnit,
                  out |-> IF icy THEN Append(s.out, b) ELSE s.out]
    IN FoldLeft(step, [audio |-> interval, meta |-> 0, out |-> <<>>], bytes).out

(* However the upstream is cut into chunks, what the client has got is the *)
(* beginning of what the protocol says, and between blocks it is all that  *)
(* was read: no audio is lost, and no byte of a block is played.           *)
PumpIsExact ==
    LET read == SubSeq(whole, 1, Len(whole) - Len(upstream) - Len(chunk)) IN
    /\ IsPrefix(out, Protocol(whole, metaint, wantsIcy))
    /\ pumpAt = "audio" => out = Protocol(read, metaint, wantsIcy)

-----------------------------------------------------------------------------
(* Permits, titles and subscribers *)

VARIABLES
    listenerAt, \* of each listener: "idle", "opening", "pumping", "ended"
    hop,        \* redirects followed
    tuned,      \* its station
    slots,      \* free permits of relay.slots
    titles,     \* station -> NoTitle or [title, at]
    unsent,     \* stations whose title is stored and not yet broadcast
    subAt,      \* of each subscriber: "off", "subscribed", "on", "gone"
    subTo,      \* its station
    inbox,      \* its receiver of the broadcast channel
    behind,     \* it has lagged
    shown,      \* the last snapshot it was sent
    staleAt,    \* when its timer fires, or 0
    relayClock

relayVars == <<listenerAt, hop, tuned, slots, titles, unsent, subAt, subTo, inbox, behind, shown, staleAt, relayClock>>

RelayTypeOK ==
    /\ pumpAt \in {"audio", "block", "done"} /\ remaining \in Int
    /\ listenerAt \in [Listeners -> {"idle", "opening", "pumping", "ended"}]
    /\ slots \in 0..MaxConnections
    /\ hop \in [Listeners -> 0..MaxRedirects]
    /\ \A s \in RelayStations : titles[s] = NoTitle \/ titles[s].at \in 0..MaxRelayClock
    /\ unsent \subseteq RelayStations
    /\ subAt \in [Subscribers -> {"off", "subscribed", "on", "gone"}]
    /\ \A u \in Subscribers : Len(inbox[u]) <= ChangeCap

RelayInit ==
    /\ listenerAt = [l \in Listeners |-> "idle"] /\ hop = [l \in Listeners |-> 0]
    /\ tuned \in [Listeners -> RelayStations] /\ slots = MaxConnections
    /\ titles = [s \in RelayStations |-> NoTitle] /\ unsent = {}
    /\ subAt = [u \in Subscribers |-> "off"] /\ subTo \in [Subscribers -> RelayStations]
    /\ inbox = [u \in Subscribers |-> <<>>] /\ behind = [u \in Subscribers |-> FALSE]
    /\ shown = [u \in Subscribers |-> NoTitle] /\ staleAt = [u \in Subscribers |-> 0]
    /\ relayClock = 1

subVars == <<subAt, subTo, inbox, behind, shown, staleAt>>

(* station_access: a bearer is not replaced by a cookie; a cookie counts   *)
(* only behind the trusted proxy.                                          *)
StationAccess(headers) ==
    IF headers.bearer # "none" THEN headers.bearer = "valid"
    ELSE headers.cookie = "valid" /\ headers.proxy

(* stream up to the permit: refused at once when there is none.            *)
RelayStream(l, headers) ==
    /\ listenerAt[l] = "idle" /\ StationAccess(headers)
    /\ slots > 0
    /\ listenerAt' = [listenerAt EXCEPT ![l] = "opening"]
    /\ slots' = slots - 1
    /\ UNCHANGED <<hop, tuned, titles, unsent, subVars, relayClock>>

Released(l) == listenerAt' = [listenerAt EXCEPT ![l] = "ended"] /\ slots' = slots + 1

(* The classes of addresses that public_ip refuses; an address mapped into *)
(* IPv6 is of the class of the address inside.                             *)
InnerClasses == {"private", "loopback", "link_local", "multicast", "documentation",
                 "unspecified", "shared", "transition"}
PublicIp(class) == class \notin InnerClasses

(* checked_endpoint: every address a hop resolves to is public, and the    *)
(* connection is pinned to one of them.                                    *)
CheckedEndpoint(url) ==
    /\ url.scheme \in {"http", "https"} /\ url.plain
    /\ url.addresses # {} /\ \A class \in url.addresses : PublicIp(class)

(* open_icy: after a failed request a plain HTTP source may still greet    *)
(* with the status line of ICY.                                            *)
OpenIcy(url, reply) == reply = "icy" /\ url.scheme = "http" /\ CheckedEndpoint(url)

(* One turn of open_upstream: a stream, one redirect more, or a failure.   *)
OpenUpstream(l, url, reply) ==
    /\ listenerAt[l] = "opening"
    /\ CASE OpenIcy(url, reply) \/ (CheckedEndpoint(url) /\ reply = "stream") ->
               listenerAt' = [listenerAt EXCEPT ![l] = "pumping"] /\ UNCHANGED <<hop, slots>>
         [] CheckedEndpoint(url) /\ reply = "redirect" /\ hop[l] < MaxRedirects ->
               hop' = [hop EXCEPT ![l] = @ + 1] /\ UNCHANGED <<listenerAt, slots>>
         [] OTHER -> Released(l) /\ UNCHANGED hop
    /\ UNCHANGED <<tuned, titles, unsent, subVars, relayClock>>

StreamEnds(l) ==
    /\ listenerAt[l] = "pumping" /\ Released(l)
    /\ UNCHANGED <<hop, tuned, titles, unsent, subVars, relayClock>>

(* pump notes a title under the mutex: the oldest one makes room.          *)
TitleObserved(l, t) ==
    LET s == tuned[l]
        known == {x \in RelayStations : titles[x] # NoTitle}
        oldest == CHOOSE x \in known : \A y \in known : titles[x].at <= titles[y].at
        kept == IF Cardinality(known) >= MaxTitles /\ s \notin known
                THEN [titles EXCEPT ![oldest] = NoTitle] ELSE titles
    IN /\ listenerAt[l] = "pumping" /\ s \notin unsent
       /\ titles' = [kept EXCEPT ![s] = [title |-> t, at |-> relayClock]]
       /\ unsent' = unsent \cup {s}
       /\ UNCHANGED <<listenerAt, hop, tuned, slots, subVars, relayClock>>

(* A plausible bug: the channel is subscribed to by the task only.         *)
BroadcastToTasks(s) ==
    /\ s \in unsent /\ unsent' = unsent \ {s}
    /\ inbox' = [u \in Subscribers |-> IF subAt[u] = "on" /\ Len(inbox[u]) < ChangeCap
                                        THEN Append(inbox[u], s) ELSE inbox[u]]
    /\ UNCHANGED <<listenerAt, hop, tuned, slots, titles, subAt, subTo, behind, shown, staleAt, relayClock>>

(* The broadcast of the change; a receiver that is full loses the oldest.  *)
Broadcast(s) ==
    /\ s \in unsent /\ unsent' = unsent \ {s}
    /\ LET on == {u \in Subscribers : subAt[u] \in {"subscribed", "on"}}
           full == {u \in on : Len(inbox[u]) = ChangeCap}
       IN /\ inbox' = [u \in Subscribers |-> IF u \in full THEN Append(Tail(inbox[u]), s)
                                             ELSE IF u \in on THEN Append(inbox[u], s) ELSE inbox[u]]
          /\ behind' = [u \in Subscribers |-> behind[u] \/ u \in full]
    /\ UNCHANGED <<listenerAt, hop, tuned, slots, titles, subAt, subTo, shown, staleAt, relayClock>>

(* snapshot and stale_deadline of metadata.rs.                             *)
Snapshot(s) ==
    IF titles[s] = NoTitle THEN NoTitle
    ELSE [title |-> titles[s].title, stale |-> relayClock - titles[s].at >= StaleAfter]
StaleDeadline(s) ==
    IF titles[s] = NoTitle \/ relayClock - titles[s].at >= StaleAfter THEN 0
    ELSE titles[s].at + StaleAfter

(* events: a permit, the subscription, then the first snapshot.            *)
Subscribe(u) ==
    /\ subAt[u] = "off" /\ Cardinality({v \in Subscribers : subAt[v] \in {"subscribed", "on"}}) < MaxSubscribers
    /\ subAt' = [subAt EXCEPT ![u] = "subscribed"]
    /\ shown' = [shown EXCEPT ![u] = Snapshot(subTo[u])]
    /\ UNCHANGED <<listenerAt, hop, tuned, slots, titles, unsent, subTo, inbox, behind, staleAt, relayClock>>

(* The spawned task computes its first deadline.                           *)
StartEvents(u) ==
    /\ subAt[u] = "subscribed"
    /\ subAt' = [subAt EXCEPT ![u] = "on"]
    /\ staleAt' = [staleAt EXCEPT ![u] = StaleDeadline(subTo[u])]
    /\ UNCHANGED <<listenerAt, hop, tuned, slots, titles, unsent, subTo, inbox, behind, shown, relayClock>>

(* One turn of select!: the timer, a change or a lag.  A subscriber that   *)
(* does not take its events is dropped by EventsEnd.                       *)
ShowSnapshot(u) == shown' = [shown EXCEPT ![u] = Snapshot(subTo[u])]

StaleFires(u) ==
    /\ subAt[u] = "on" /\ staleAt[u] # 0 /\ relayClock >= staleAt[u]
    /\ ShowSnapshot(u) /\ staleAt' = [staleAt EXCEPT ![u] = 0]
    /\ UNCHANGED <<listenerAt, hop, tuned, slots, titles, unsent, subAt, subTo, inbox, behind, relayClock>>

ReceiveChange(u) ==
    /\ subAt[u] = "on" /\ ~behind[u] /\ inbox[u] # <<>>
    /\ inbox' = [inbox EXCEPT ![u] = Tail(@)]
    /\ IF Head(inbox[u]) = subTo[u]
       THEN ShowSnapshot(u) /\ staleAt' = [staleAt EXCEPT ![u] = StaleDeadline(subTo[u])]
       ELSE UNCHANGED <<shown, staleAt>>
    /\ UNCHANGED <<listenerAt, hop, tuned, slots, titles, unsent, subAt, subTo, behind, relayClock>>

ReceiveLagged(u) ==
    /\ subAt[u] = "on" /\ behind[u]
    /\ behind' = [behind EXCEPT ![u] = FALSE] /\ inbox' = [inbox EXCEPT ![u] = <<>>]
    /\ ShowSnapshot(u) /\ staleAt' = [staleAt EXCEPT ![u] = StaleDeadline(subTo[u])]
    /\ UNCHANGED <<listenerAt, hop, tuned, slots, titles, unsent, subAt, subTo, relayClock>>

EventsEnd(u) ==
    /\ subAt[u] = "on" /\ subAt' = [subAt EXCEPT ![u] = "gone"]
    /\ UNCHANGED <<listenerAt, hop, tuned, slots, titles, unsent, subTo, inbox, behind, shown, staleAt, relayClock>>

RelayTick ==
    /\ relayClock < MaxRelayClock /\ relayClock' = relayClock + 1
    /\ UNCHANGED <<listenerAt, hop, tuned, slots, titles, unsent, subVars>>

RelayNext ==
    \/ \E l \in Listeners :
          \/ \E h \in [bearer : {"none", "valid", "bad"}, cookie : {"none", "valid"}, proxy : BOOLEAN] :
                RelayStream(l, h)
          \/ \E url \in RelayUrls, reply \in {"stream", "redirect", "icy", "failure"} :
                OpenUpstream(l, url, reply)
          \/ StreamEnds(l) \/ \E t \in Titles : TitleObserved(l, t)
    \/ \E s \in RelayStations : Broadcast(s)
    \/ \E u \in Subscribers : \/ Subscribe(u) \/ StartEvents(u) \/ StaleFires(u)
                              \/ ReceiveChange(u) \/ ReceiveLagged(u) \/ EventsEnd(u)
    \/ RelayTick

(* No more upstreams are open than there are permits, redirects and        *)
(* failures to open one included, and a permit is never lost.              *)
UpstreamsBounded ==
    Cardinality({l \in Listeners : listenerAt[l] \in {"opening", "pumping"}}) + slots = MaxConnections

(* A subscriber was shown the latest title of its station, or is about to  *)
(* be: a change is on its way to it or it has lagged.  Only a title that   *)
(* made room for another goes without a word.                              *)
SubscriberUpToDate ==
    \A u \in Subscribers : subAt[u] = "on" =>
        LET s == subTo[u] IN
        \/ titles[s] = NoTitle
        \/ s \in unsent \/ behind[u] \/ s \in ToSet(inbox[u])
        \/ shown[u] # NoTitle /\ shown[u].title = titles[s].title

(* The relay passes the audio on unchanged, opens no more than it may, and *)
(* leaves no subscriber with an old title.                                 *)
RelaySafe == PumpIsExact /\ UpstreamsBounded /\ SubscriberUpToDate
=============================================================================
