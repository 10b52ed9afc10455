----------------------- MODULE SessionDirectory_proofs ----------------------
(***************************************************************************)
(* Proofs about the live directory of ControlSession: where no revocation  *)
(* and no aborted registration happens, what a controller is shown has no  *)
(* gap, for any devices, connections and channel capacity.                 *)
(***************************************************************************)
EXTENDS ControlSession_proofs

(* The provers of a step, unless it names one, and their time.             *)
USE ZenonT(5), SMTT(30)

Early == {"new", "welcomed", "stored", "registered", "cleaned", "published", "ready"}

(* An entry that is being built was listed, by a session that subscribes,  *)
(* and is not read again.                                                  *)
LoadedInv ==
    \A c \in Conns : loaded[c] =>
        /\ stage[c] \in {"snapshot", "loop"}
        /\ handling[c] \in known /\ handling[c] \notin unread[c]

(* Nothing is shown of a device before it is read, nor of one without a    *)
(* manifest; the loop begins when all are read.                            *)
ViewInv ==
    \A c \in Conns :
        /\ stage[c] = "loop" => unread[c] = {}
        /\ \A d \in Devices : /\ stage[c] \in Early \/ d \in unread[c] => view[c][d] = "absent"
                              /\ view[c][d] # "absent" => d \in known

(* DirectoryUpToDate from the subscription on.                             *)
FeedInv ==
    \A w \in Watchers, d \in Devices :
        \/ stage[w] \notin {"snapshot", "loop"} \/ lagged[w]
        \/ d \in unread[w] \/ d \in ToSet(pending[w]) \/ handling[w] = d \/ Unpublished(d)
        \/ view[w][d] = Presence(d)

NoRevocation == revoked = {} /\ revoking = {}

DirectoryInv == NoRevocation /\ LoadedInv /\ ViewInv /\ FeedInv

(* An event that is sent reaches a receiver, after those already there, or *)
(* the receiver lags.                                                      *)
LEMMA PublishReaches ==
    ASSUME TypeOK, NEW d \in Devices, Publish(d), NEW w \in Watchers,
           stage[w] \in {"snapshot", "loop"}, ~lagged'[w]
    PROVE ~lagged[w] /\ ToSet(pending'[w]) = ToSet(pending[w]) \cup {d}
<1>1. w \in Conns /\ Subscribed(w)
  BY SessionConstants DEF Subscribed
<1>2. ~lagged[w] /\ Len(pending[w]) # EventCap
  BY <1>1 DEF Publish
<1>3. pending[w] \in Seq(Devices) /\ Len(pending[w]) \in Nat /\ Len(pending[w]) <= EventCap
  BY <1>1 DEF TypeOK
<1>4. pending'[w] = Append(pending[w], d)
  BY <1>1, <1>2, <1>3, SessionConstants DEF Publish
<1>5. ToSet(Append(pending[w], d)) = ToSet(pending[w]) \cup {d}
  <2> DEFINE s == pending[w]
  <2>1. s \in Seq(Devices) /\ Len(s) \in Nat /\ DOMAIN s = 1..Len(s)
    BY <1>3
  <2> HIDE DEF s
  <2>2. /\ DOMAIN Append(s, d) = 1..(Len(s) + 1)
        /\ \A i \in 1..Len(s) : Append(s, d)[i] = s[i]
        /\ Append(s, d)[Len(s) + 1] = d
    BY <2>1
  <2>3. ToSet(Append(s, d)) = ToSet(s) \cup {d}
    BY <2>1, <2>2 DEF ToSet
  <2> QED
    BY <2>3 DEF s
<1> QED
  BY <1>2, <1>4, <1>5

(* A queue that is not empty is its head and its tail.                     *)
LEMMA HeadOrTail ==
    ASSUME NEW s \in Seq(Devices), s # <<>>
    PROVE ToSet(s) = ToSet(Tail(s)) \cup {Head(s)}
<1>1. /\ Len(s) \in Nat \ {0} /\ DOMAIN s = 1..Len(s)
      /\ DOMAIN Tail(s) = 1..(Len(s) - 1) /\ Head(s) = s[1]
      /\ \A i \in 1..(Len(s) - 1) : Tail(s)[i] = s[i + 1]
  OBVIOUS
<1>2. \A i \in DOMAIN s : i = 1 \/ (i - 1 \in 1..(Len(s) - 1) /\ s[i] = Tail(s)[i - 1])
  BY <1>1
<1>3. \A i \in 1..(Len(s) - 1) : i + 1 \in DOMAIN s
  BY <1>1
<1>4. 1 \in DOMAIN s
  BY <1>1
<1>5. ASSUME NEW i \in DOMAIN s PROVE s[i] \in ToSet(Tail(s)) \cup {Head(s)}
  BY <1>1, <1>2 DEF ToSet
<1>6. ASSUME NEW i \in DOMAIN Tail(s) PROVE Tail(s)[i] \in ToSet(s)
  BY <1>1, <1>3 DEF ToSet
<1>7. Head(s) \in ToSet(s)
  BY <1>1, <1>4 DEF ToSet
<1> QED
  BY <1>5, <1>6, <1>7 DEF ToSet

Feeding == {"snapshot", "loop"}
Owing == {"stored", "registered", "cleaned", "leaving", "left"}

(* Without a revocation the directory lists the devices with a manifest,   *)
(* and a change is unpublished while a session owes its event.             *)
LEMMA DirectoryTerms ==
    ASSUME NoRevocation, NEW d \in Devices
    PROVE /\ Listed(d) <=> d \in known
          /\ Presence(d) = IF d \in known THEN Online(d) ELSE "absent"
          /\ Unpublished(d) <=> \E c \in Conns : DeviceOf[c] = d /\ stage[c] \in Owing
BY DEF NoRevocation, Listed, Presence, Unpublished, Owing

(* A step that moves a session on, and publishes its device when it stops  *)
(* owing that, leaves no gap in a feed.                                    *)
LEMMA MoveFeeds ==
    ASSUME Inv, DirectoryInv, NEW c \in Conns, NEW s \in Stages, Goto(c, s),
           UNCHANGED <<registryVars, storeVars, watchVars>>,
           s \in Feeding => stage[c] \in Feeding,
           \/ Publish(DeviceOf[c])
           \/ UNCHANGED feedVars /\ (stage[c] \in Owing => s \in Owing)
    PROVE FeedInv'
<1>1. /\ stage \in [Conns -> Stages] /\ stage' = [stage EXCEPT ![c] = s]
      /\ active' = active /\ known' = known /\ revoked' = revoked /\ revoking' = revoking
      /\ handling' = handling /\ unread' = unread /\ view' = view
      /\ DeviceOf[c] \in Devices
  BY SessionConstants DEF Inv, TypeOK, Goto, registryVars, storeVars, watchVars
<1>2. SUFFICES ASSUME NEW w \in Watchers, NEW d \in Devices, stage'[w] \in Feeding, ~lagged'[w]
               PROVE \/ d \in unread'[w] \/ d \in ToSet(pending'[w]) \/ handling'[w] = d
                     \/ Unpublished(d)' \/ view'[w][d] = Presence(d)'
  BY DEF FeedInv, Feeding
<1>3. w \in Conns /\ stage[w] \in Feeding
  BY <1>1, <1>2, SessionConstants
<1>4. /\ ~lagged[w] /\ ToSet(pending[w]) \subseteq ToSet(pending'[w])
      /\ d \in ToSet(pending'[w]) \/ (Unpublished(d) => Unpublished(d)')
  <2>1. CASE Publish(DeviceOf[c])
    <3>1. ~lagged[w] /\ ToSet(pending'[w]) = ToSet(pending[w]) \cup {DeviceOf[c]}
      BY <1>1, <1>2, <1>3, <2>1, PublishReaches DEF Inv, Feeding
    <3>2. d # DeviceOf[c] => (Unpublished(d) => Unpublished(d)')
      BY <1>1 DEF Unpublished
    <3> QED
      BY <3>1, <3>2
  <2>2. CASE UNCHANGED feedVars /\ (stage[c] \in Owing => s \in Owing)
    BY <1>1, <1>2, <2>2 DEF feedVars, Unpublished, Owing
  <2> QED
    BY <2>1, <2>2
<1>5. Presence(d)' = Presence(d)
  BY <1>1 DEF Presence, Listed, Online
<1>6. \/ d \in unread[w] \/ d \in ToSet(pending[w]) \/ handling[w] = d
      \/ Unpublished(d) \/ view[w][d] = Presence(d)
  BY <1>3, <1>4 DEF DirectoryInv, FeedInv, Feeding
<1> QED
  BY <1>1, <1>4, <1>5, <1>6

(* A step that changes the presence of one device leaves a session that    *)
(* owes the event for it.                                                  *)
LEMMA ChangeFeeds ==
    ASSUME Inv, DirectoryInv, NEW c \in Conns, NEW s \in Owing, Goto(c, s),
           UNCHANGED <<revoked, revoking, pending, lagged, unread, view>>,
           \A k \in Conns \ {c} : handling'[k] = handling[k],
           \A d \in Devices \ {DeviceOf[c]} :
              active'[d] = active[d] /\ (d \in known' <=> d \in known)
    PROVE FeedInv'
<1>1. stage \in [Conns -> Stages] /\ stage' = [stage EXCEPT ![c] = s] /\ stage'[c] \in Owing
  BY DEF Inv, TypeOK, Goto
<1>2. SUFFICES ASSUME NEW w \in Watchers, NEW d \in Devices, stage'[w] \in Feeding, ~lagged'[w]
               PROVE \/ d \in unread'[w] \/ d \in ToSet(pending'[w]) \/ handling'[w] = d
                     \/ Unpublished(d)' \/ view'[w][d] = Presence(d)'
  BY DEF FeedInv, Feeding
<1>3. w \in Conns /\ w # c /\ stage[w] \in Feeding
  BY <1>1, <1>2, SessionConstants DEF Feeding, Owing
<1>4. CASE d = DeviceOf[c]
  BY <1>1, <1>4 DEF Unpublished, Owing
<1>5. CASE d # DeviceOf[c]
  <2>1. Presence(d)' = Presence(d)
    BY <1>5 DEF Presence, Listed, Online
  <2>2. Unpublished(d) => Unpublished(d)'
    BY <1>1, <1>5 DEF Unpublished
  <2> QED
    BY <1>2, <1>3, <2>1, <2>2 DEF DirectoryInv, FeedInv, Feeding
<1> QED
  BY <1>4, <1>5

(* A session that ends without a change takes only its own feed along.     *)
LEMMA EndFeeds ==
    ASSUME Inv, DirectoryInv, NEW c \in Conns, Goto(c, "ended"), stage[c] \in Feeding,
           UNCHANGED <<active, storeVars, feedVars, unread, view>>,
           \A k \in Conns \ {c} : handling'[k] = handling[k]
    PROVE FeedInv'
<1>1. stage \in [Conns -> Stages] /\ stage' = [stage EXCEPT ![c] = "ended"]
  BY DEF Inv, TypeOK, Goto
<1>2. SUFFICES ASSUME NEW w \in Watchers, NEW d \in Devices, stage'[w] \in Feeding, ~lagged'[w]
               PROVE \/ d \in unread'[w] \/ d \in ToSet(pending'[w]) \/ handling'[w] = d
                     \/ Unpublished(d)' \/ view'[w][d] = Presence(d)'
  BY DEF FeedInv, Feeding
<1>3. w \in Conns /\ w # c /\ stage[w] \in Feeding
  BY <1>1, <1>2, SessionConstants DEF Feeding
<1>4. Presence(d)' = Presence(d)
  BY DEF Presence, Listed, Online, storeVars
<1>5. Unpublished(d) => Unpublished(d)'
  BY <1>1 DEF Unpublished, storeVars, Feeding
<1> QED
  BY <1>2, <1>3, <1>4, <1>5 DEF DirectoryInv, FeedInv, Feeding, feedVars

(* The subscription: everything is still to be read.                       *)
LEMMA SubscribeFeeds ==
    ASSUME Inv, DirectoryInv, NEW c \in Conns, Subscribe(c)
    PROVE FeedInv'
<1>1. /\ stage \in [Conns -> Stages]
      /\ stage' = [stage EXCEPT ![c] = IF c \in Watchers THEN "snapshot" ELSE "loop"]
      /\ unread \in [Conns -> SUBSET Devices] /\ stage[c] = "ready"
      /\ unread' = [unread EXCEPT ![c] = IF c \in Watchers THEN Devices ELSE {}]
      /\ UNCHANGED <<active, known, revoked, revoking, pending, lagged, handling, view>>
  BY DEF Inv, TypeOK, Subscribe, Goto, registryVars, storeVars, feedVars
<1>2. SUFFICES ASSUME NEW w \in Watchers, NEW d \in Devices, stage'[w] \in Feeding, ~lagged'[w]
               PROVE \/ d \in unread'[w] \/ d \in ToSet(pending'[w]) \/ handling'[w] = d
                     \/ Unpublished(d)' \/ view'[w][d] = Presence(d)'
  BY DEF FeedInv, Feeding
<1>3. w \in Conns
  BY SessionConstants
<1>4. CASE w = c
  BY <1>1, <1>3, <1>4
<1>5. CASE w # c
  <2>1. stage[w] \in Feeding /\ unread'[w] = unread[w]
    BY <1>1, <1>2, <1>3, <1>5
  <2>2. Presence(d)' = Presence(d)
    BY <1>1 DEF Presence, Listed, Online
  <2>3. Unpublished(d) => Unpublished(d)'
    BY <1>1 DEF Unpublished
  <2> QED
    BY <1>1, <1>2, <2>1, <2>2, <2>3 DEF DirectoryInv, FeedInv, Feeding
<1> QED
  BY <1>4, <1>5

(* A session that reads its devices or its events accounts for each: it is *)
(* in hand, shown as it is, or absent and not listed.                      *)
LEMMA ReadFeeds ==
    ASSUME Inv, DirectoryInv, NEW c \in Conns,
           UNCHANGED <<active, stage, storeVars, lagged>>,
           \A k \in Conns \ {c} : /\ handling'[k] = handling[k] /\ unread'[k] = unread[k]
                                  /\ pending'[k] = pending[k] /\ view'[k] = view[k],
           \A d \in Devices :
              \/ /\ d \in unread[c] => d \in unread'[c]
                 /\ d \in ToSet(pending[c]) => d \in ToSet(pending'[c])
                 /\ handling[c] = d => handling'[c] = d
                 /\ view'[c][d] = view[c][d]
              \/ handling'[c] = d
              \/ view'[c][d] = Presence(d)
    PROVE FeedInv'
<1>1. SUFFICES ASSUME NEW w \in Watchers, NEW d \in Devices, stage'[w] \in Feeding, ~lagged'[w]
               PROVE \/ d \in unread'[w] \/ d \in ToSet(pending'[w]) \/ handling'[w] = d
                     \/ Unpublished(d)' \/ view'[w][d] = Presence(d)'
  BY DEF FeedInv, Feeding
<1>2. w \in Conns
  BY SessionConstants
<1>3. Presence(d)' = Presence(d) /\ (Unpublished(d)' <=> Unpublished(d))
  BY DEF Presence, Listed, Online, Unpublished, storeVars
<1>4. \/ d \in unread[w] \/ d \in ToSet(pending[w]) \/ handling[w] = d
      \/ Unpublished(d) \/ view[w][d] = Presence(d)
  BY <1>1 DEF DirectoryInv, FeedInv, Feeding
<1> QED
  BY <1>1, <1>2, <1>3, <1>4

ShownInv == LoadedInv /\ ViewInv

(* A step that moves a session on, not back to a stage before its          *)
(* subscription, changes nothing that is shown.                            *)
LEMMA MoveShows ==
    ASSUME Inv, ShownInv, NEW c \in Conns, NEW s \in Stages, Goto(c, s),
           UNCHANGED watchVars, known \subseteq known',
           s = "loop" => unread[c] = {},
           s \in Early => stage[c] \in Early,
           stage[c] \in Feeding => s \in Feeding
    PROVE ShownInv'
<1>1. /\ stage \in [Conns -> Stages] /\ stage' = [stage EXCEPT ![c] = s]
      /\ handling' = handling /\ loaded' = loaded /\ unread' = unread /\ view' = view
  BY DEF Inv, TypeOK, Goto, watchVars
<1>2. LoadedInv'
  BY <1>1 DEF ShownInv, LoadedInv, Feeding
<1>3. ViewInv'
  BY <1>1 DEF ShownInv, ViewInv
<1> QED
  BY <1>2, <1>3 DEF ShownInv

(* A session that ends drops the entry in its hands.                       *)
LEMMA EndShows ==
    ASSUME Inv, ShownInv, NEW c \in Conns, NEW s \in {"leaving", "ended"}, Goto(c, s),
           loaded' = [loaded EXCEPT ![c] = FALSE], handling' = [handling EXCEPT ![c] = NoDevice],
           UNCHANGED <<known, unread, view>>
    PROVE ShownInv'
<1>1. /\ stage \in [Conns -> Stages] /\ stage' = [stage EXCEPT ![c] = s]
      /\ loaded \in [Conns -> BOOLEAN] /\ handling \in [Conns -> Devices \cup {NoDevice}]
  BY DEF Inv, TypeOK, Goto
<1>2. LoadedInv'
  BY <1>1 DEF ShownInv, LoadedInv
<1>3. ViewInv'
  BY <1>1 DEF ShownInv, ViewInv, Early
<1> QED
  BY <1>2, <1>3 DEF ShownInv

(* directory::snapshot and the upserts show listed devices only.           *)
LEMMA ReadShows ==
    ASSUME Inv, NoRevocation, ShownInv, NEW c \in Conns,
           \/ Subscribe(c) \/ \E d \in Devices : StartEntry(c, d)
           \/ FinishEntry(c) \/ TakeEvent(c) \/ LoadEntry(c)
    PROVE ShownInv'
<1>1. /\ stage \in [Conns -> Stages] /\ loaded \in [Conns -> BOOLEAN]
      /\ handling \in [Conns -> Devices \cup {NoDevice}] /\ unread \in [Conns -> SUBSET Devices]
      /\ view \in [Conns -> [Devices -> Presences]] /\ known \subseteq Devices
  BY DEF Inv, TypeOK
<1>2. \A k \in Conns : handling[k] = NoDevice => ~loaded[k]
  BY <1>1, SessionConstants DEF ShownInv, LoadedInv
<1>3. CASE Subscribe(c)
  <2>1. /\ stage[c] = "ready" /\ known' = known /\ view' = view
        /\ loaded' = loaded /\ handling' = handling
        /\ stage' = [stage EXCEPT ![c] = IF c \in Watchers THEN "snapshot" ELSE "loop"]
        /\ unread' = [unread EXCEPT ![c] = IF c \in Watchers THEN Devices ELSE {}]
    BY <1>3 DEF Subscribe, Goto, storeVars
  <2>2. ~loaded[c] /\ \A d \in Devices : view[c][d] = "absent"
    BY <2>1 DEF ShownInv, LoadedInv, ViewInv, Early
  <2>3. LoadedInv'
    BY <1>1, <2>1, <2>2 DEF ShownInv, LoadedInv
  <2>4. ViewInv'
    BY <1>1, <2>1, <2>2 DEF ShownInv, ViewInv, Early
  <2> QED
    BY <2>3, <2>4 DEF ShownInv
<1>4. ASSUME NEW d \in Devices, StartEntry(c, d) PROVE ShownInv'
  <2>1. /\ stage[c] = "snapshot" /\ known' = known /\ view' = view /\ stage' = stage
        /\ unread' = [unread EXCEPT ![c] = @ \ {d}]
        /\ handling' = [handling EXCEPT ![c] = IF d \in known THEN d ELSE NoDevice]
        /\ loaded' = [loaded EXCEPT ![c] = d \in known]
    <3>1. Listed(d) <=> d \in known
      BY DirectoryTerms
    <3>2. Listed(d) = (d \in known)
      BY <3>1 DEF Listed
    <3> QED
      BY <1>4, <3>2, ZenonT(40) DEF StartEntry, storeVars
  <2>2. LoadedInv'
    BY <1>1, <2>1 DEF ShownInv, LoadedInv
  <2>3. ViewInv'
    BY <1>1, <2>1 DEF ShownInv, ViewInv
  <2> QED
    BY <2>2, <2>3 DEF ShownInv
<1>5. CASE FinishEntry(c)
  <2> DEFINE h == handling[c]
  <2>1. /\ known' = known /\ stage' = stage /\ unread' = unread /\ loaded[c]
        /\ loaded' = [loaded EXCEPT ![c] = FALSE] /\ handling' = [handling EXCEPT ![c] = NoDevice]
        /\ view' = [view EXCEPT ![c][h] = Online(h)]
    BY <1>5 DEF FinishEntry, storeVars
  <2>2. h \in known /\ h \notin unread[c] /\ stage[c] \in Feeding
    BY <2>1 DEF ShownInv, LoadedInv, Feeding
  <2>3. LoadedInv'
    BY <1>1, <2>1 DEF ShownInv, LoadedInv
  <2>4. ViewInv'
    <3>1. /\ \A k \in Conns \ {c} : view'[k] = view[k]
          /\ \A d \in Devices \ {h} : view'[c][d] = view[c][d]
      BY <1>1, <2>1
    <3> HIDE DEF h
    <3> QED
      BY <1>1, <2>1, <2>2, <3>1 DEF ShownInv, ViewInv, Feeding, Early
  <2> QED
    BY <2>3, <2>4 DEF ShownInv
<1>6. CASE TakeEvent(c)
  <2>1. /\ known' = known /\ stage' = stage /\ unread' = unread /\ view' = view
        /\ loaded' = loaded /\ ~loaded[c]
        /\ handling' = [handling EXCEPT ![c] = Head(pending[c])]
    BY <1>2, <1>6 DEF TakeEvent, Idle, storeVars
  <2>2. LoadedInv'
    BY <1>1, <2>1 DEF ShownInv, LoadedInv
  <2>3. ViewInv'
    BY <2>1 DEF ShownInv, ViewInv
  <2> QED
    BY <2>2, <2>3 DEF ShownInv
<1>7. CASE LoadEntry(c)
  <2>1. /\ known' = known /\ stage' = stage /\ unread' = unread /\ view' = view
        /\ stage[c] = "loop" /\ handling[c] \in Devices
    BY <1>1, <1>7 DEF LoadEntry, storeVars
  <2>2. /\ loaded' = [loaded EXCEPT ![c] = handling[c] \in known]
        /\ handling' = [handling EXCEPT ![c] = IF handling[c] \in known THEN handling[c] ELSE NoDevice]
    <3>1. Listed(handling[c]) <=> handling[c] \in known
      BY <2>1, DirectoryTerms
    <3>2. Listed(handling[c]) = (handling[c] \in known)
      BY <3>1 DEF Listed
    <3> QED
      BY <1>7, <3>2, ZenonT(40) DEF LoadEntry
  <2>3. LoadedInv'
    BY <1>1, <2>1, <2>2 DEF ShownInv, LoadedInv, ViewInv
  <2>4. ViewInv'
    BY <2>1 DEF ShownInv, ViewInv
  <2> QED
    BY <2>3, <2>4 DEF ShownInv
<1> QED
  BY <1>3, <1>4, <1>5, <1>6, <1>7

(* The same steps leave no gap in the feed.                                *)
LEMMA ReadStepFeeds ==
    ASSUME Inv, DirectoryInv, NEW c \in Conns,
           \/ \E d \in Devices : StartEntry(c, d)
           \/ FinishEntry(c) \/ TakeEvent(c) \/ LoadEntry(c)
    PROVE FeedInv'
<1>1. /\ loaded \in [Conns -> BOOLEAN] /\ pending \in [Conns -> Seq(Devices)]
      /\ handling \in [Conns -> Devices \cup {NoDevice}] /\ unread \in [Conns -> SUBSET Devices]
      /\ view \in [Conns -> [Devices -> Presences]] /\ NoDevice \notin Devices
  BY SessionConstants DEF Inv, TypeOK
<1>2. \A d \in Devices : /\ Listed(d) <=> d \in known
                         /\ Presence(d) = IF d \in known THEN Online(d) ELSE "absent"
  BY DirectoryTerms DEF DirectoryInv
<1>3. ASSUME NEW d \in Devices, StartEntry(c, d) PROVE FeedInv'
  <2>1. /\ UNCHANGED <<active, stage, storeVars, lagged, pending, view>>
        /\ unread' = [unread EXCEPT ![c] = @ \ {d}] /\ d \in unread[c] /\ handling[c] = NoDevice
        /\ handling' = [handling EXCEPT ![c] = IF Listed(d) THEN d ELSE NoDevice]
    BY <1>3 DEF StartEntry, registryVars, feedVars
  <2>2. view[c][d] = "absent"
    BY <2>1 DEF DirectoryInv, ViewInv
  <2>3. \A e \in Devices : \/ /\ e \in unread[c] => e \in unread'[c]
                              /\ e \in ToSet(pending[c]) => e \in ToSet(pending'[c])
                              /\ handling[c] = e => handling'[c] = e
                              /\ view'[c][e] = view[c][e]
                           \/ handling'[c] = e \/ view'[c][e] = Presence(e)
    BY <1>1, <1>2, <2>1, <2>2
  <2> QED
    BY <1>1, <2>1, <2>3, ReadFeeds
<1>4. CASE FinishEntry(c)
  <2> DEFINE h == handling[c]
  <2>1. /\ UNCHANGED <<active, stage, storeVars, lagged, pending, unread>> /\ loaded[c]
        /\ handling' = [handling EXCEPT ![c] = NoDevice]
        /\ view' = [view EXCEPT ![c][h] = Online(h)]
    BY <1>4 DEF FinishEntry, registryVars, feedVars
  <2>2. h \in known /\ h \in Devices
    BY <2>1 DEF DirectoryInv, LoadedInv, Inv, TypeOK
  <2>3. /\ view'[c][h] = Online(h) /\ \A e \in Devices \ {h} : view'[c][e] = view[c][e]
        /\ \A k \in Conns \ {c} : view'[k] = view[k]
    BY <1>1, <2>1, <2>2
  <2>4. \A e \in Devices : \/ /\ e \in unread[c] => e \in unread'[c]
                              /\ e \in ToSet(pending[c]) => e \in ToSet(pending'[c])
                              /\ handling[c] = e => handling'[c] = e
                              /\ view'[c][e] = view[c][e]
                           \/ handling'[c] = e \/ view'[c][e] = Presence(e)
    BY <1>2, <2>1, <2>2, <2>3
  <2> QED
    BY <1>1, <2>1, <2>3, <2>4, ReadFeeds
<1>5. CASE TakeEvent(c)
  <2>1. /\ UNCHANGED <<active, stage, storeVars, lagged, unread, view>>
        /\ handling[c] = NoDevice /\ pending[c] # <<>>
        /\ handling' = [handling EXCEPT ![c] = Head(pending[c])]
        /\ pending' = [pending EXCEPT ![c] = Tail(@)]
    BY <1>5 DEF TakeEvent, Idle, registryVars
  <2>2. ToSet(pending[c]) = ToSet(pending'[c]) \cup {handling'[c]}
    BY <1>1, <2>1, HeadOrTail
  <2>3. \A e \in Devices : \/ /\ e \in unread[c] => e \in unread'[c]
                              /\ e \in ToSet(pending[c]) => e \in ToSet(pending'[c])
                              /\ handling[c] = e => handling'[c] = e
                              /\ view'[c][e] = view[c][e]
                           \/ handling'[c] = e \/ view'[c][e] = Presence(e)
    BY <1>1, <2>1, <2>2
  <2> QED
    BY <1>1, <2>1, <2>3, ReadFeeds
<1>6. CASE LoadEntry(c)
  <2>1. /\ UNCHANGED <<active, stage, storeVars, lagged, pending, unread, view>>
        /\ handling[c] \in Devices
        /\ handling' = [handling EXCEPT ![c] = IF Listed(handling[c]) THEN handling[c] ELSE NoDevice]
    BY <1>1, <1>6 DEF LoadEntry, registryVars, feedVars
  <2>2. handling[c] \notin known => view[c][handling[c]] = "absent"
    BY <2>1 DEF DirectoryInv, ViewInv
  <2>3. \A e \in Devices : \/ /\ e \in unread[c] => e \in unread'[c]
                              /\ e \in ToSet(pending[c]) => e \in ToSet(pending'[c])
                              /\ handling[c] = e => handling'[c] = e
                              /\ view'[c][e] = view[c][e]
                           \/ handling'[c] = e \/ view'[c][e] = Presence(e)
    BY <1>1, <1>2, <2>1, <2>2
  <2> QED
    BY <1>1, <2>1, <2>3, ReadFeeds
<1> QED
  BY <1>3, <1>4, <1>5, <1>6

(* Every step of the sessions keeps the directory invariant, where devices *)
(* are not revoked and registrations not aborted: these two change a       *)
(* presence and publish nothing.                                           *)
LEMMA DirectoryStep ==
    ASSUME "revoke" \notin Faults, "abort" \notin Faults, Inv, DirectoryInv, [Next]_vars
    PROVE DirectoryInv'
<1>1. stage \in [Conns -> Stages] /\ NoRevocation /\ ShownInv
  BY DEF Inv, TypeOK, DirectoryInv, ShownInv
<1>2. ASSUME NoRevocation', FeedInv', ShownInv' PROVE DirectoryInv'
  BY <1>2 DEF DirectoryInv, ShownInv
<1>3. ASSUME NEW c \in Conns,
             \/ Hello(c) \/ Refuse(c) \/ CleanPrevious(c) \/ PublishRegistration(c)
             \/ SendRegistered(c) \/ SendSnapshot(c) \/ FinishScan(c) \/ PublishOffline(c)
      PROVE DirectoryInv'
  <2>1. NoRevocation' /\ UNCHANGED <<registryVars, storeVars, watchVars>>
    BY <1>1, <1>3 DEF NoRevocation, storeVars, Hello, Refuse, CleanPrevious, PublishRegistration,
       SendRegistered, SendSnapshot, FinishScan, PublishOffline
  <2>2. PICK s \in Stages :
           /\ Goto(c, s) /\ (s \in Feeding => stage[c] \in Feeding)
           /\ s = "loop" => unread[c] = {}
           /\ s \in Early => stage[c] \in Early
           /\ stage[c] \in Feeding => s \in Feeding
           /\ \/ Publish(DeviceOf[c])
              \/ UNCHANGED feedVars /\ (stage[c] \in Owing => s \in Owing)
    BY <1>3 DEF Hello, Refuse, CleanPrevious, PublishRegistration, SendRegistered, SendSnapshot,
       FinishScan, PublishOffline, Stages, Feeding, Early, Owing
  <2>3. FeedInv'
    BY <2>1, <2>2, MoveFeeds
  <2>4. ShownInv'
    BY <1>1, <2>1, <2>2, MoveShows DEF storeVars
  <2> QED
    BY <1>2, <2>1, <2>3, <2>4
<1>4. ASSUME NEW c \in Conns, ManifestFrame(c) PROVE DirectoryInv'
  <2>1. /\ NoRevocation' /\ UNCHANGED <<registryVars, storeVars, watchVars>>
        /\ Publish(DeviceOf[c]) /\ stage' = stage
    BY <1>1, <1>4 DEF NoRevocation, storeVars, ManifestFrame
  <2>2. Goto(c, stage[c]) /\ stage[c] \in Stages /\ (stage[c] = "loop" => unread[c] = {})
    BY <1>1, <2>1 DEF Goto, ShownInv, ViewInv
  <2>3. FeedInv'
    BY <2>1, <2>2, MoveFeeds
  <2>4. ShownInv'
    BY <1>1, <2>1, <2>2, MoveShows DEF storeVars
  <2> QED
    BY <1>2, <2>1, <2>3, <2>4
<1>5. ASSUME NEW c \in Conns, StoreManifest(c) \/ Register(c) PROVE DirectoryInv'
  <2>1. /\ NoRevocation' /\ known \subseteq known'
        /\ UNCHANGED <<revoked, revoking, feedVars, watchVars>>
        /\ \A d \in Devices \ {DeviceOf[c]} :
              active'[d] = active[d] /\ (d \in known' <=> d \in known)
    BY <1>1, <1>5 DEF NoRevocation, StoreManifest, Register, registryVars, storeVars, Inv, TypeOK
  <2>2. PICK s \in Owing : s \in {"stored", "registered"} /\ Goto(c, s) /\ stage[c] \in Early \ Feeding
    BY <1>5 DEF StoreManifest, Register, Owing, Early, Feeding
  <2>3. FeedInv'
    BY <2>1, <2>2, ChangeFeeds DEF feedVars, watchVars
  <2>4. ShownInv'
    BY <1>1, <2>1, <2>2, MoveShows DEF Stages, Early, Feeding
  <2> QED
    BY <1>2, <2>1, <2>3, <2>4
<1>6. ASSUME NEW c \in Conns, Subscribe(c) PROVE DirectoryInv'
  <2>1. NoRevocation'
    BY <1>1, <1>6 DEF NoRevocation, Subscribe, storeVars
  <2> QED
    BY <1>1, <1>2, <1>6, <2>1, SubscribeFeeds, ReadShows
<1>7. ASSUME NEW c \in Conns,
             \/ \E d \in Devices : StartEntry(c, d)
             \/ FinishEntry(c) \/ TakeEvent(c) \/ LoadEntry(c)
      PROVE DirectoryInv'
  <2>1. NoRevocation'
    BY <1>1, <1>7 DEF NoRevocation, StartEntry, FinishEntry, TakeEvent, LoadEntry, storeVars
  <2> QED
    BY <1>1, <1>2, <1>7, <2>1, ReadStepFeeds, ReadShows
<1>8. ASSUME NEW c \in Conns, AbandonRegistration(c) PROVE DirectoryInv'
  <2>1. /\ NoRevocation' /\ UNCHANGED <<active, storeVars, feedVars, unread, view>>
        /\ Goto(c, "ended") /\ stage[c] \in Feeding
        /\ loaded' = [loaded EXCEPT ![c] = FALSE] /\ handling' = [handling EXCEPT ![c] = NoDevice]
    BY <1>1, <1>8 DEF NoRevocation, AbandonRegistration, storeVars, registryVars, Feeding
  <2>2. \A k \in Conns \ {c} : handling'[k] = handling[k]
    BY <2>1 DEF Inv, TypeOK
  <2> QED
    BY <1>1, <1>2, <2>1, <2>2, EndFeeds, EndShows DEF storeVars
<1>9. ASSUME NEW c \in Conns, LeaveLoop(c) \/ LeaveReplaced(c) \/ LeaveLagged(c)
      PROVE DirectoryInv'
  <2>1. /\ stage[c] = "loop" /\ NoRevocation' /\ UNCHANGED <<storeVars, feedVars, unread, view>>
        /\ Goto(c, IF IsActive(c) THEN "leaving" ELSE "ended") /\ Disconnect(c)
        /\ loaded' = [loaded EXCEPT ![c] = FALSE] /\ handling' = [handling EXCEPT ![c] = NoDevice]
    BY <1>1, <1>9 DEF NoRevocation, LeaveLoop, LeaveReplaced, LeaveLagged, Leave, Idle, storeVars
  <2>2. \A k \in Conns \ {c} : handling'[k] = handling[k]
    BY <2>1 DEF Inv, TypeOK
  <2>3. /\ \A d \in Devices \ {DeviceOf[c]} : active'[d] = active[d]
        /\ ~IsActive(c) => active' = active
    BY <2>1, SessionConstants DEF Disconnect, Inv, TypeOK, ActiveInv, IsActive
  <2>4. ShownInv'
    BY <1>1, <2>1, EndShows DEF storeVars
  <2>5. CASE IsActive(c)
    <3>1. FeedInv'
      BY <2>1, <2>2, <2>3, <2>5, ChangeFeeds DEF storeVars, feedVars, Owing
    <3> QED
      BY <1>2, <2>1, <2>4, <3>1
  <2>6. CASE ~IsActive(c)
    <3>1. FeedInv'
      BY <2>1, <2>2, <2>3, <2>6, EndFeeds DEF Feeding
    <3> QED
      BY <1>2, <2>1, <2>4, <3>1
  <2> QED
    BY <2>5, <2>6
<1>10. CASE Restart
  <2>1. /\ NoRevocation' /\ known' = known /\ view' = view
        /\ \A c \in Conns : ~loaded'[c] /\ unread'[c] = {} /\ stage'[c] \notin Feeding
        /\ \A c \in Conns : stage'[c] \in Early => stage[c] \in Early
    BY <1>1, <1>10 DEF NoRevocation, Restart, Feeding, Early
  <2>2. FeedInv'
    BY <2>1, SessionConstants DEF FeedInv, Feeding
  <2>3. ShownInv'
    BY <1>1, <2>1 DEF ShownInv, LoadedInv, ViewInv, Feeding
  <2> QED
    BY <1>2, <2>1, <2>2, <2>3
<1>11. CASE UNCHANGED vars
  BY <1>11 DEF DirectoryInv, NoRevocation, LoadedInv, ViewInv, FeedInv, Unpublished, Presence,
     Listed, Online, vars, registryVars, storeVars, feedVars, watchVars
<1>12. /\ \A c \in Conns : ~AbortRegistration(c)
       /\ \A d \in Devices : ~RevokeInStore(d) /\ ~RevokeInRegistry(d)
  BY <1>1 DEF AbortRegistration, RevokeInStore, RevokeInRegistry, NoRevocation
<1> QED
  BY <1>3, <1>4, <1>5, <1>6, <1>7, <1>8, <1>9, <1>10, <1>11, <1>12 DEF Next, OwnStep

(* The subscription, the snapshot read device by device and the upserts    *)
(* leave no gap: a connected controller's view of a device is right, or an *)
(* event that will correct it is on its way, whatever the capacity of the  *)
(* channel and however many sessions come and go.                          *)
THEOREM DirectoryAlwaysUpToDate ==
    ASSUME "revoke" \notin Faults, "abort" \notin Faults
    PROVE Spec => []DirectoryUpToDate
<1>1. Init => DirectoryInv
  BY SessionConstants DEF Init, DirectoryInv, NoRevocation, LoadedInv, ViewInv, FeedInv
<1>2. Inv /\ DirectoryInv /\ [Next]_vars => DirectoryInv'
  BY DirectoryStep
<1>3. Inv /\ DirectoryInv => DirectoryUpToDate
  BY SessionConstants DEF DirectoryInv, ViewInv, FeedInv, DirectoryUpToDate
<1> QED
  BY SessionInvariant, <1>1, <1>2, <1>3, PTL DEF Spec
=============================================================================
