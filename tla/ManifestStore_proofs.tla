------------------------ MODULE ManifestStore_proofs ------------------------
(***************************************************************************)
(* Proofs about ManifestStore, for any set of entries and payloads and any *)
(* number of revisions.  TypeOK, in which removed rows are rows, and       *)
(* LiveRowsMatch are inductive together.                                   *)
(***************************************************************************)
EXTENDS ManifestStore, TLAPS

(* The provers of a step, unless it names one, and their time.             *)
USE ZenonT(5), SMTT(30)

Inv == TypeOK /\ LiveRowsMatch

(* The empty tables satisfy the invariant.                                 *)
LEMMA InitInv == Init => Inv
<1>1. SUFFICES ASSUME Init PROVE Inv
  OBVIOUS
<1>2. Nothing \in Contents /\ Declared(Nothing) = {}
  BY DEF Nothing, Contents, Declared
<1>3. TypeOK
  BY <1>1, <1>2, ManifestConstants DEF Init, TypeOK
<1>4. LiveRowsMatch
  BY <1>1, <1>2 DEF Init, LiveRowsMatch
<1> QED
  BY <1>3, <1>4 DEF Inv

(* A new declaration of the device leaves the tables alone.                *)
LEMMA ReviseInv ==
    ASSUME Inv, NEW content \in Contents, Revise(content)
    PROVE Inv'
<1>1. history' \in Seq(Contents) /\ Len(history') = Len(history) + 1
  BY DEF Inv, TypeOK, Revise
<1>2. TypeOK'
  BY <1>1, ManifestConstants DEF Inv, TypeOK, Revise, Declared
<1>3. LiveRowsMatch'
  BY DEF Inv, Revise, LiveRowsMatch, Declared
<1> QED
  BY <1>2, <1>3 DEF Inv

(* What apply_manifest writes: the declared entries are rows with the      *)
(* declared payloads, and every other row keeps its payload.               *)
LEMMA ApplyRows ==
    ASSUME Inv, NEW r \in 1..Len(history), Apply(r)
    PROVE /\ history[r] \in Contents
          /\ payload' \in Contents
          /\ Declared(payload)' = Declared(payload) \cup Declared(history[r])
          /\ \A e \in Declared(history[r]) : payload'[e] = history[r][e]
<1>1. history[r] \in Contents
  BY DEF Inv, TypeOK
<1>2. payload' = [e \in Entries |-> IF history[r][e] # NoEntry THEN history[r][e] ELSE payload[e]]
  BY DEF Apply
<1>3. payload' \in Contents
  BY <1>1, <1>2 DEF Inv, TypeOK, Contents
<1>4. Declared(payload)' = Declared(payload) \cup Declared(history[r])
  BY <1>2 DEF Declared
<1>5. \A e \in Declared(history[r]) : payload'[e] = history[r][e]
  BY <1>2 DEF Declared
<1> QED
  BY <1>1, <1>3, <1>4, <1>5

(* An accepted manifest leaves exactly its own entries live.               *)
LEMMA ApplyInv ==
    ASSUME Inv, NEW r \in 1..Len(history), Apply(r)
    PROVE Inv'
<1>1. /\ history' = history /\ revision' = r /\ current' = history[r]
      /\ removed' = Declared(payload) \ Declared(history[r])
  BY DEF Apply, Tombstoned
<1>2. TypeOK'
  BY <1>1, ApplyRows DEF Inv, TypeOK
<1>3. Declared(current)' = Declared(history[r])
  BY <1>1 DEF Declared
<1>4. LiveRowsMatch'
  BY <1>1, <1>3, ApplyRows DEF LiveRowsMatch
<1> QED
  BY <1>2, <1>4 DEF Inv

(* A declined manifest, and any other stutter, changes nothing.            *)
LEMMA StutterInv == Inv /\ UNCHANGED vars => Inv'
BY DEF Inv, TypeOK, LiveRowsMatch, Declared, vars

(* The types of the store, and that the live rows are those of the         *)
(* accepted manifest, hold in every reachable state.                       *)
THEOREM StoreInvariant == Spec => []Inv
<1>1. Inv /\ [Next]_vars => Inv'
  BY ReviseInv, ApplyInv, StutterInv DEF Next, Decline
<1> QED
  BY InitInv, <1>1, PTL DEF Spec

(* apply_manifest: the live capabilities, entities and surfaces are        *)
(* exactly those of the accepted manifest, in every reachable state.       *)
THEOREM LiveRowsAlwaysMatch == Spec => []LiveRowsMatch
<1>1. Inv => LiveRowsMatch
  BY DEF Inv
<1> QED
  BY StoreInvariant, <1>1, PTL

(* projection: no step gives a removed row another payload.                *)
THEOREM RevivedAsItWas == Spec => RevivalIsIdentical
<1>1. ASSUME Inv, [Next]_vars
      PROVE [\A e \in removed : payload'[e] = payload[e]]_vars
  <2>1. CASE UNCHANGED vars
    BY <2>1
  <2>2. ASSUME NEW content \in Contents, Revise(content)
        PROVE \A e \in removed : payload'[e] = payload[e]
    BY <2>2 DEF Revise
  <2>3. ASSUME NEW r \in 1..Len(history), Apply(r)
        PROVE \A e \in removed : payload'[e] = payload[e]
    <3>1. payload' = [e \in Entries |-> IF history[r][e] # NoEntry THEN history[r][e] ELSE payload[e]]
      BY <2>3 DEF Apply
    <3>2. removed \subseteq Declared(payload)
      BY <1>1 DEF Inv, TypeOK
    <3>3. \A e \in Declared(history[r]) \cap Declared(payload) : payload[e] = history[r][e]
      BY <2>3 DEF Apply, Projects, Tombstoned
    <3> QED
      BY <3>1, <3>2, <3>3 DEF Declared
  <2> QED
    BY <1>1, <2>1, <2>2, <2>3 DEF Next, Decline
<1>2. Inv /\ [Next]_vars => [\A e \in removed : payload'[e] = payload[e]]_vars
  BY <1>1
<1> QED
  BY StoreInvariant, <1>2, PTL DEF Spec, RevivalIsIdentical
=============================================================================
