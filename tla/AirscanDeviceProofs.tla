------------------------- MODULE AirscanDeviceProofs -------------------------
(***************************************************************************)
(* Proofs about AirscanDevice, for every value of the constants.          *)
(*                                                                         *)
(* TypeOK is not inductive by itself: device_del and device_close         *)
(* decrement dev->refcnt, which stays a natural number only because the   *)
(* count is exactly the table's reference plus the open handles.  IInv   *)
(* adds that accounting and the facts it needs about which records are   *)
(* in the table, which are still fresh, and which requests are queued.    *)
(***************************************************************************)
EXTENDS AirscanDevice, TLAPS

\* dev->refcnt is the table's reference (while DEVICE_LISTED) plus handles
RefCount ==
    \A r \in RecIds :
        refcnt[r] = (IF LISTED \in flags[r] THEN 1 ELSE 0) + handles[r]

\* Every table entry is a created, listed record
TableListed ==
    \A n \in Names : device_table[n] # NoRec =>
        /\ LISTED \in flags[device_table[n]]
        /\ device_table[n] < nextRec

\* Records g_new0 has not handed out yet are untouched
Fresh ==
    \A r \in RecIds : r >= nextRec =>
        /\ flags[r] = {}
        /\ handles[r] = 0
        /\ http_pending[r] = {}

\* A queued request belongs to a listed record that tracks it
SessionTracked ==
    \A m \in session : /\ m \in http_pending[m[1]]
                       /\ LISTED \in flags[m[1]]

\* A created record is listed, or halted for good
LiveOrHalted ==
    \A r \in RecIds : /\ Allocated(r) => LISTED \in flags[r] \/ HALTED \in flags[r]
                      /\ HALTED \in flags[r] => LISTED \notin flags[r]

IInv ==
    /\ TypeOK
    /\ RefCount
    /\ TableListed
    /\ Fresh
    /\ SessionTracked
    /\ LiveOrHalted
-----------------------------------------------------------------------------
USE ConstAssumption

\* The initial state, before device_management_start, satisfies IInv
LEMMA InitIInv == Init => IInv
  <1> SUFFICES ASSUME Init PROVE IInv
    OBVIOUS
  <1>1. name \in [RecIds -> Names]
    <2>1. (CHOOSE n \in Names : TRUE) \in Names
      OBVIOUS
    <2>2. QED
      BY <2>1 DEF Init
  <1>2. TypeOK
    <2>1. nextRec \in 1..(MaxRecords + 1)
      BY DEF Init
    <2>2. flags \in [RecIds -> SUBSET Flags] /\ http_pending \in [RecIds -> SUBSET Msgs]
      BY DEF Init
    <2>3. refcnt \in [RecIds -> Nat] /\ handles \in [RecIds -> Nat]
          /\ addresses \in [RecIds -> 0..MaxAddrs] /\ addr_current \in [RecIds -> 0..MaxAddrs]
      BY DEF Init
    <2>4. device_table \in [Names -> RecIds \cup {NoRec}]
      BY DEF Init
    <2>5. QED
      BY <1>1, <2>1, <2>2, <2>3, <2>4 DEF Init, TypeOK, Phases
  <1>3. RefCount /\ TableListed /\ Fresh /\ SessionTracked /\ LiveOrHalted
    BY DEF Init, RefCount, TableListed, Fresh, SessionTracked, LiveOrHalted,
           Allocated
  <1>4. QED
    BY <1>2, <1>3 DEF IInv

(* device_del of a set D of listed records keeps IInv, whoever calls it:   *)
(* the pending arrays p and the queue q it is given must be consistent     *)
(* (every queued request tracked by a listed record, nothing pending for  *)
(* a fresh record).                                                        *)
LEMMA DelIInv ==
  ASSUME IInv,
         NEW D, D \subseteq RecIds, \A r \in D : LISTED \in flags[r],
         NEW p, p \in [RecIds -> SUBSET Msgs],
         \A r \in RecIds : r >= nextRec => p[r] = {},
         NEW q, q \subseteq Msgs,
         \A m \in q : m \in p[m[1]] /\ LISTED \in flags[m[1]],
         DeviceDel(D, p, q),
         http_pending' = p,
         lister' \in [Callers -> {"idle", "check", "blocked"}],
         phase' \in Phases,
         UNCHANGED <<initScan, nextRec, name, addresses, addr_current,
                     handles, expired>>
  PROVE  IInv'
  <1> USE DEF DeviceDel
  <1>1. \A r \in D : refcnt[r] >= 1
    BY DEF IInv, RefCount, TypeOK
  <1>2. TypeOK'
    BY <1>1 DEF IInv, TypeOK, Flags
  <1>3. RefCount'
    <2> SUFFICES ASSUME NEW r \in RecIds
                 PROVE  refcnt'[r] = (IF LISTED \in flags'[r] THEN 1 ELSE 0)
                                     + handles'[r]
      BY DEF RefCount
    <2>1. CASE r \in D
      <3>1. LISTED \notin flags'[r] /\ refcnt'[r] = refcnt[r] - 1
        BY <2>1 DEF IInv, TypeOK, LISTED, HALTED, READY
      <3>2. refcnt[r] = 1 + handles[r]
        BY <2>1 DEF IInv, RefCount, TypeOK
      <3>3. QED
        BY <3>1, <3>2 DEF IInv, TypeOK
    <2>2. CASE r \notin D
      BY <2>2 DEF IInv, RefCount, TypeOK
    <2>3. QED
      BY <2>1, <2>2
  <1>4. TableListed'
    BY DEF IInv, TableListed, TypeOK
  <1>5. Fresh'
    BY DEF IInv, Fresh, TypeOK
  <1>6. SessionTracked'
    BY DEF IInv, SessionTracked, TypeOK, Msgs
  <1>7. LiveOrHalted'
    BY DEF IInv, LiveOrHalted, TypeOK, Allocated
  <1>8. QED
    BY <1>2, <1>3, <1>4, <1>5, <1>6, <1>7 DEF IInv

\* A broadcast leaves every waiter in one of its three places
LEMMA BroadcastType ==
  ASSUME TypeOK
  PROVE  Broadcast \in [Callers -> {"idle", "check", "blocked"}]
  BY DEF TypeOK, Broadcast

(* Every step keeps IInv: one step per operation of the code.              *)
LEMMA NextIInv == IInv /\ [Next]_vars => IInv'
  <1> SUFFICES ASSUME IInv, [Next]_vars PROVE IInv'
    OBVIOUS
  <1>a. TypeOK
    BY DEF IInv
  <1>b. /\ nextRec \in 1..(MaxRecords + 1)
        /\ device_table \in [Names -> RecIds \cup {NoRec}]
        /\ flags \in [RecIds -> SUBSET Flags]
        /\ refcnt \in [RecIds -> Nat]
        /\ handles \in [RecIds -> Nat]
        /\ addresses \in [RecIds -> 0..MaxAddrs]
        /\ addr_current \in [RecIds -> 0..MaxAddrs]
        /\ http_pending \in [RecIds -> SUBSET Msgs]
        /\ session \subseteq Msgs
    BY <1>a DEF TypeOK
  <1>1. CASE device_management_start
    <2> DEFINE rec(i) == nextRec + i - 1
               New == {rec(i) : i \in StaticFirst}
    <2>0. /\ Len(StaticConf) \in Nat
          /\ \A i \in 1..Len(StaticConf) : StaticConf[i] \in Names
      BY ConstAssumption
    <2>1. StaticFirst \subseteq 1..Len(StaticConf)
      BY DEF StaticFirst
    <2>2. nextRec + Len(StaticConf) <= MaxRecords + 1 /\ nextRec \in Nat
          /\ nextRec >= 1
      BY <1>1, <1>a DEF device_management_start, TypeOK
    <2>3. /\ New \subseteq RecIds
          /\ \A r \in New : r >= nextRec /\ r < nextRec + Len(StaticConf)
          /\ \A r \in New : StaticConf[r - nextRec + 1] \in Names
      <3> SUFFICES ASSUME NEW i \in StaticFirst
                   PROVE  /\ rec(i) \in RecIds
                          /\ rec(i) >= nextRec /\ rec(i) < nextRec + Len(StaticConf)
                          /\ StaticConf[rec(i) - nextRec + 1] \in Names
        OBVIOUS
      <3>1. i \in 1..Len(StaticConf)
        BY <2>1
      <3>2. rec(i) - nextRec + 1 = i
        BY <3>1, <2>2
      <3>3. QED
        BY <3>1, <3>2, <2>0, <2>2 DEF RecIds
    <2>4. /\ flags' = [r \in RecIds |-> IF r \in New THEN {LISTED, INIT_WAIT} ELSE flags[r]]
          /\ refcnt' = [r \in RecIds |-> IF r \in New THEN 1 ELSE refcnt[r]]
          /\ http_pending' = [r \in RecIds |-> IF r \in New THEN {<<r, 0>>} ELSE http_pending[r]]
          /\ session' = session \cup {<<r, 0>> : r \in New}
          /\ name' = [r \in RecIds |-> IF r \in New THEN StaticConf[r - nextRec + 1] ELSE name[r]]
          /\ nextRec' = nextRec + Len(StaticConf)
          /\ UNCHANGED <<initScan, addresses, addr_current, handles, lister,
                         expired>>
      BY <1>1 DEF device_management_start
    <2>5. ASSUME NEW x \in Names
          PROVE  device_table'[x] = device_table[x] \/ device_table'[x] \in New
      <3>1. CASE \E i \in StaticFirst : StaticConf[i] = x
        <4>1. (CHOOSE i \in StaticFirst : StaticConf[i] = x) \in StaticFirst
          BY <3>1
        <4>2. device_table'[x] = rec(CHOOSE i \in StaticFirst : StaticConf[i] = x)
          BY <1>1, <3>1 DEF device_management_start
        <4>3. QED
          BY <4>1, <4>2
      <3>2. CASE ~\E i \in StaticFirst : StaticConf[i] = x
        BY <1>1, <3>2 DEF device_management_start
      <3>3. QED
        BY <3>1, <3>2
    <2>6. \A r \in New : flags[r] = {} /\ handles[r] = 0 /\ http_pending[r] = {}
      BY <1>a, <2>3 DEF IInv, Fresh, TypeOK
    <2>7. \A r \in RecIds : flags[r] # {} => r \notin New
      BY <1>a, <2>3 DEF IInv, Fresh, TypeOK
    <2>8. nextRec' \in 1..(MaxRecords + 1)
      BY <1>a, <2>2, <2>4 DEF TypeOK
    <2>9. LISTED \in {LISTED, INIT_WAIT} /\ HALTED \notin {LISTED, INIT_WAIT}
          /\ {LISTED, INIT_WAIT} \subseteq Flags
      BY DEF LISTED, INIT_WAIT, HALTED, Flags
    <2>10. TypeOK'
      <3>1. device_table' \in [Names -> RecIds \cup {NoRec}]
        <4>1. device_table' = [x \in Names |-> device_table'[x]]
          BY <1>1 DEF device_management_start
        <4>2. \A x \in Names : device_table'[x] \in RecIds \cup {NoRec}
          BY <2>5, <2>3, <1>a DEF TypeOK
        <4>3. QED
          BY <4>1, <4>2
      <3>2. name' \in [RecIds -> Names] /\ flags' \in [RecIds -> SUBSET Flags]
        BY <1>a, <2>3, <2>4, <2>9 DEF TypeOK
      <3>3. http_pending' \in [RecIds -> SUBSET Msgs] /\ session' \in SUBSET Msgs
        BY <1>a, <2>3, <2>4 DEF TypeOK, Msgs
      <3>4. refcnt' \in [RecIds -> Nat]
        BY <1>a, <2>4 DEF TypeOK
      <3>5. phase' \in Phases
        BY <1>1 DEF device_management_start, Phases
      <3>6. QED
        BY <1>1, <1>a, <2>4, <2>8, <3>1, <3>2, <3>3, <3>4, <3>5
        DEF device_management_start, TypeOK
    <2>11. RefCount'
      <3> SUFFICES ASSUME NEW r \in RecIds
                   PROVE  refcnt'[r] = (IF LISTED \in flags'[r] THEN 1 ELSE 0)
                                       + handles'[r]
        BY DEF RefCount
      <3>1. CASE r \in New
        BY <3>1, <2>4, <2>6, <2>9
      <3>2. CASE r \notin New
        BY <3>2, <2>4 DEF IInv, RefCount
      <3>3. QED
        BY <3>1, <3>2
    <2>12. TableListed'
      <3> SUFFICES ASSUME NEW x \in Names, device_table'[x] # NoRec
                   PROVE  /\ LISTED \in flags'[device_table'[x]]
                          /\ device_table'[x] < nextRec'
        BY DEF TableListed
      <3>1. CASE device_table'[x] \in New
        BY <3>1, <2>3, <2>4, <2>9
      <3>2. CASE device_table'[x] \notin New
        <4>1. device_table'[x] = device_table[x] /\ device_table[x] # NoRec
          BY <3>2, <2>5
        <4>2. device_table[x] \in RecIds /\ LISTED \in flags[device_table[x]]
              /\ device_table[x] < nextRec
          BY <4>1, <1>a DEF IInv, TableListed, TypeOK
        <4>3. flags'[device_table[x]] = flags[device_table[x]]
          BY <4>1, <4>2, <3>2, <2>4
        <4>4. nextRec <= nextRec'
          BY <2>0, <2>2, <2>4
        <4>5. device_table'[x] < nextRec'
          BY <4>1, <4>2, <4>4, <2>2, <2>8 DEF RecIds
        <4>6. QED
          BY <4>1, <4>2, <4>3, <4>5
      <3>3. QED
        BY <3>1, <3>2
    <2>13. Fresh'
      <3> SUFFICES ASSUME NEW r \in RecIds, r >= nextRec'
                   PROVE  flags'[r] = {} /\ handles'[r] = 0 /\ http_pending'[r] = {}
        BY DEF Fresh
      <3>0. r >= nextRec + Len(StaticConf) /\ r \in Nat
        BY <2>4 DEF RecIds
      <3>1. r \notin New /\ r >= nextRec
        <4>1. r >= nextRec
          BY <3>0, <2>0, <2>2
        <4>2. r \notin New
          <5> SUFFICES ASSUME r \in New PROVE FALSE
            OBVIOUS
          <5>1. r < nextRec + Len(StaticConf)
            BY <2>3
          <5>2. QED
            BY <5>1, <3>0, <2>0, <2>2
        <4>3. QED
          BY <4>1, <4>2
      <3>2. QED
        BY <3>1, <2>4 DEF IInv, Fresh
    <2>14. SessionTracked'
      <3> SUFFICES ASSUME NEW m \in session'
                   PROVE  m \in http_pending'[m[1]] /\ LISTED \in flags'[m[1]]
        BY DEF SessionTracked
      <3>1. CASE m \in session
        <4>1. m[1] \in RecIds /\ m \in http_pending[m[1]] /\ LISTED \in flags[m[1]]
          BY <3>1, <1>a DEF IInv, SessionTracked, TypeOK, Msgs
        <4>2. m[1] \notin New
          BY <4>1, <2>7
        <4>3. QED
          BY <4>1, <4>2, <2>4
      <3>2. CASE m \notin session
        BY <3>2, <2>3, <2>4, <2>9
      <3>3. QED
        BY <3>1, <3>2
    <2>15. LiveOrHalted'
      BY <1>a, <2>4, <2>9 DEF IInv, LiveOrHalted, Allocated, TypeOK
    <2>16. QED
      BY <2>10, <2>11, <2>12, <2>13, <2>14, <2>15 DEF IInv
  <1>2. CASE device_management_stop
    <2>1. Listed \subseteq RecIds /\ \A r \in Listed : LISTED \in flags[r]
      BY <1>a DEF IInv, TableListed, Listed, TypeOK
    <2>2. /\ http_pending \in [RecIds -> SUBSET Msgs]
          /\ \A r \in RecIds : r >= nextRec => http_pending[r] = {}
          /\ {} \subseteq Msgs
          /\ \A m \in {} : m \in http_pending[m[1]] /\ LISTED \in flags[m[1]]
      BY <1>a DEF IInv, Fresh, TypeOK
    <2>3. /\ DeviceDel(Listed, http_pending, {})
          /\ http_pending' = http_pending
          /\ lister' \in [Callers -> {"idle", "check", "blocked"}]
          /\ phase' \in Phases
          /\ UNCHANGED <<initScan, nextRec, name, addresses,
                         addr_current, handles, expired>>
      <3>1. DeviceDel(Listed, http_pending, {})
        BY <1>2 DEF device_management_stop
      <3>2. lister' = lister /\ http_pending' = http_pending
        BY <1>2 DEF device_management_stop
      <3>3. /\ phase' \in Phases
            /\ UNCHANGED <<initScan, nextRec, name, addresses,
                           addr_current, handles, expired>>
        BY <1>2 DEF device_management_stop, Phases
      <3>4. QED
        BY <3>1, <3>2, <3>3, <1>a DEF TypeOK
    <2>4. QED
      BY <2>1, <2>2, <2>3, DelIInv
  <1>3. ASSUME NEW n \in Names, NEW k \in 1..MaxAddrs, device_found(n, k)
        PROVE  IInv'
    <2> DEFINE r == nextRec
    <2>0. r \in RecIds
      BY <1>3, <1>a DEF device_found, TypeOK, RecIds
    <2>1. /\ r \in RecIds
          /\ flags[r] = {} /\ handles[r] = 0 /\ http_pending[r] = {}
          /\ \A x \in Names : device_table[x] # r
      <3>1. flags[r] = {} /\ handles[r] = 0 /\ http_pending[r] = {}
        BY <2>0, <1>a DEF IInv, Fresh, TypeOK
      <3>2. ASSUME NEW x \in Names PROVE device_table[x] # r
        <4>1. CASE device_table[x] = NoRec
          BY <4>1, <2>0 DEF RecIds
        <4>2. CASE device_table[x] # NoRec
          BY <4>2, <1>a DEF IInv, TableListed, TypeOK, RecIds
        <4>3. QED
          BY <4>1, <4>2
      <3>3. QED
        BY <2>0, <3>1, <3>2
    <2>2. <<r, 1>> \in Msgs /\ \A m \in session : m[1] # r
      <3>1. <<r, 1>> \in Msgs
        BY <2>0 DEF Msgs
      <3>2. ASSUME NEW m \in session PROVE m[1] # r
        <4>1. LISTED \in flags[m[1]]
          BY DEF IInv, SessionTracked
        <4>2. QED
          BY <4>1, <2>1
      <3>3. QED
        BY <3>1, <3>2
    <2>3. /\ nextRec' = r + 1
          /\ device_table' = [device_table EXCEPT ![n] = r]
          /\ name' = [name EXCEPT ![r] = n]
          /\ \E F \in {{LISTED, INIT_WAIT}, {LISTED}} : flags' = [flags EXCEPT ![r] = F]
          /\ refcnt' = [refcnt EXCEPT ![r] = 1]
          /\ addresses' = [addresses EXCEPT ![r] = k]
          /\ addr_current' = [addr_current EXCEPT ![r] = 1]
          /\ http_pending' = [http_pending EXCEPT ![r] = {<<r, 1>>}]
          /\ session' = session \cup {<<r, 1>>}
          /\ UNCHANGED <<phase, initScan, handles, lister, expired>>
      BY <1>3 DEF device_found
    <2>4. PICK F \in {{LISTED, INIT_WAIT}, {LISTED}} : flags' = [flags EXCEPT ![r] = F]
      BY <2>3
    <2>5. LISTED \in F /\ HALTED \notin F /\ F \subseteq Flags
      BY DEF LISTED, INIT_WAIT, HALTED, Flags
    <2>6. TypeOK'
      <3>1. nextRec' \in 1..(MaxRecords + 1)
        BY <1>3, <1>a, <2>0, <2>3 DEF TypeOK, RecIds
      <3>2. device_table' \in [Names -> RecIds \cup {NoRec}]
        BY <1>a, <2>0, <2>3 DEF TypeOK
      <3>3. name' \in [RecIds -> Names] /\ flags' \in [RecIds -> SUBSET Flags]
        BY <1>a, <2>0, <2>3, <2>4, <2>5 DEF TypeOK
      <3>4. /\ refcnt' \in [RecIds -> Nat]
            /\ addresses' \in [RecIds -> 0..MaxAddrs]
            /\ addr_current' \in [RecIds -> 0..MaxAddrs]
        BY <1>a, <2>0, <2>3 DEF TypeOK
      <3>5. http_pending' \in [RecIds -> SUBSET Msgs] /\ session' \in SUBSET Msgs
        BY <1>a, <2>0, <2>2, <2>3 DEF TypeOK
      <3>6. QED
        BY <1>a, <2>3, <3>1, <3>2, <3>3, <3>4, <3>5 DEF TypeOK
    <2>7. RefCount'
      <3> SUFFICES ASSUME NEW x \in RecIds
                   PROVE  refcnt'[x] = (IF LISTED \in flags'[x] THEN 1 ELSE 0)
                                       + handles'[x]
        BY DEF RefCount
      <3>1. CASE x = r
        <4>1. refcnt'[x] = 1 /\ LISTED \in flags'[x] /\ handles'[x] = 0
          BY <3>1, <1>b, <2>1, <2>3, <2>4, <2>5
        <4>2. QED
          BY <4>1
      <3>2. CASE x # r
        <4>1. refcnt'[x] = refcnt[x] /\ flags'[x] = flags[x] /\ handles'[x] = handles[x]
          BY <3>2, <1>b, <2>3, <2>4
        <4>2. QED
          BY <4>1 DEF IInv, RefCount
      <3>3. QED
        BY <3>1, <3>2
    <2>8. TableListed'
      <3> SUFFICES ASSUME NEW x \in Names, device_table'[x] # NoRec
                   PROVE  /\ LISTED \in flags'[device_table'[x]]
                          /\ device_table'[x] < nextRec'
        BY DEF TableListed
      <3>1. CASE x = n
        BY <3>1, <1>a, <2>0, <2>3, <2>4, <2>5 DEF TypeOK, RecIds
      <3>2. CASE x # n
        <4>1. device_table'[x] = device_table[x] /\ device_table[x] # r
          BY <3>2, <1>a, <2>1, <2>3 DEF TypeOK
        <4>2. device_table[x] \in RecIds /\ LISTED \in flags[device_table[x]]
              /\ device_table[x] < nextRec
          BY <4>1, <1>a DEF IInv, TableListed, TypeOK
        <4>3. QED
          BY <4>1, <4>2, <1>a, <2>0, <2>3, <2>4 DEF TypeOK, RecIds
      <3>3. QED
        BY <3>1, <3>2
    <2>9. Fresh'
      <3> SUFFICES ASSUME NEW x \in RecIds, x >= nextRec'
                   PROVE  flags'[x] = {} /\ handles'[x] = 0 /\ http_pending'[x] = {}
        BY DEF Fresh
      <3>1. x # r /\ x >= nextRec
        BY <2>0, <2>3 DEF RecIds
      <3>2. flags'[x] = flags[x] /\ handles'[x] = handles[x]
            /\ http_pending'[x] = http_pending[x]
        BY <3>1, <1>b, <2>3, <2>4
      <3>3. QED
        BY <3>1, <3>2 DEF IInv, Fresh
    <2>10. SessionTracked'
      <3> SUFFICES ASSUME NEW m \in session'
                   PROVE  m \in http_pending'[m[1]] /\ LISTED \in flags'[m[1]]
        BY DEF SessionTracked
      <3>1. CASE m = <<r, 1>>
        BY <3>1, <1>b, <2>0, <2>3, <2>4, <2>5
      <3>2. CASE m # <<r, 1>>
        <4>1. m \in session /\ m[1] # r /\ m[1] \in RecIds
          BY <3>2, <2>2, <2>3, <1>b DEF Msgs
        <4>2. m \in http_pending[m[1]] /\ LISTED \in flags[m[1]]
          BY <4>1 DEF IInv, SessionTracked
        <4>3. http_pending'[m[1]] = http_pending[m[1]] /\ flags'[m[1]] = flags[m[1]]
          BY <4>1, <1>b, <2>3, <2>4
        <4>4. QED
          BY <4>2, <4>3
      <3>3. QED
        BY <3>1, <3>2
    <2>11. LiveOrHalted'
      <3> SUFFICES ASSUME NEW x \in RecIds
                   PROVE  /\ Allocated(x)' => LISTED \in flags'[x] \/ HALTED \in flags'[x]
                          /\ HALTED \in flags'[x] => LISTED \notin flags'[x]
        BY DEF LiveOrHalted
      <3>1. CASE x = r
        <4>1. flags'[x] = F
          BY <3>1, <1>b, <2>0, <2>4
        <4>2. QED
          BY <4>1, <2>5
      <3>2. CASE x # r
        <4>1. flags'[x] = flags[x]
          BY <3>2, <1>b, <2>4
        <4>2. QED
          BY <4>1 DEF IInv, LiveOrHalted, Allocated
      <3>3. QED
        BY <3>1, <3>2
    <2>12. QED
      BY <2>6, <2>7, <2>8, <2>9, <2>10, <2>11 DEF IInv
  <1>4. ASSUME NEW n \in Names, device_removed(n)
        PROVE  IInv'
    <2>1. /\ {device_table[n]} \subseteq RecIds
          /\ \A r \in {device_table[n]} : LISTED \in flags[r]
      BY <1>4, <1>a DEF device_removed, IInv, TableListed, TypeOK
    <2>2. /\ http_pending \in [RecIds -> SUBSET Msgs]
          /\ \A r \in RecIds : r >= nextRec => http_pending[r] = {}
          /\ session \subseteq Msgs
          /\ \A m \in session : m \in http_pending[m[1]] /\ LISTED \in flags[m[1]]
      BY <1>a DEF IInv, Fresh, SessionTracked, TypeOK
    <2>3. /\ DeviceDel({device_table[n]}, http_pending, session)
          /\ http_pending' = http_pending
          /\ lister' \in [Callers -> {"idle", "check", "blocked"}]
          /\ phase' \in Phases
          /\ UNCHANGED <<initScan, nextRec, name, addresses,
                         addr_current, handles, expired>>
      BY <1>4, <1>a DEF device_removed, TypeOK
    <2>4. QED
      BY <2>1, <2>2, <2>3, DelIInv
  <1>5. CASE device_init_scan_finished
    BY <1>5, <1>a, BroadcastType
    DEF device_init_scan_finished, IInv, TypeOK, RefCount, TableListed, Fresh,
        SessionTracked, LiveOrHalted, Allocated, devVars
  <1>6. ASSUME NEW m \in Msgs, NEW ok \in BOOLEAN,
              device_scanner_capabilities_callback(m, ok)
        PROVE  IInv'
    <2> DEFINE r == m[1]
               p == [http_pending EXCEPT ![r] = @ \ {m}]
               q == session \ {m}
    <2>1. /\ m \in session
          /\ r \in RecIds
          /\ LISTED \in flags[r]
          /\ HALTED \notin flags[r]
      BY <1>6, <1>a DEF device_scanner_capabilities_callback, IInv,
                        SessionTracked, LiveOrHalted, TypeOK, Msgs
    <2>2. /\ lister' \in [Callers -> {"idle", "check", "blocked"}]
          /\ phase' \in Phases
          /\ UNCHANGED <<initScan, nextRec, name, addresses, handles, expired>>
      BY <1>6, <1>a, BroadcastType DEF device_scanner_capabilities_callback, TypeOK
    <2>3. /\ p \in [RecIds -> SUBSET Msgs]
          /\ \A x \in RecIds : x >= nextRec => p[x] = {}
          /\ q \subseteq Msgs
          /\ \A m2 \in q : m2 \in p[m2[1]] /\ LISTED \in flags[m2[1]]
      <3>1. p \in [RecIds -> SUBSET Msgs] /\ \A x \in RecIds : p[x] \subseteq http_pending[x]
        BY <1>b, <2>1
      <3>2. \A x \in RecIds : x >= nextRec => p[x] = {}
        BY <3>1 DEF IInv, Fresh
      <3>3. q \subseteq Msgs
        BY <1>b
      <3>4. ASSUME NEW m2 \in q PROVE m2 \in p[m2[1]] /\ LISTED \in flags[m2[1]]
        <4>1. m2 \in session /\ m2 # m /\ m2[1] \in RecIds
          BY <1>b DEF Msgs
        <4>2. m2 \in http_pending[m2[1]] /\ LISTED \in flags[m2[1]]
          BY <4>1 DEF IInv, SessionTracked
        <4>3. QED
          BY <4>1, <4>2, <1>b, <2>1
      <3>5. QED
        BY <3>1, <3>2, <3>3, <3>4
    <2>4. LISTED # READY /\ LISTED # INIT_WAIT /\ HALTED # READY
          /\ HALTED # INIT_WAIT /\ READY \in Flags
      BY DEF LISTED, READY, HALTED, INIT_WAIT, Flags
    <2>5. CASE /\ ok
               /\ CapsReady(r)
               /\ http_pending' = p
               /\ session' = q
               /\ UNCHANGED <<device_table, refcnt, addr_current>>
      <3>1. \A x \in RecIds : /\ LISTED \in flags'[x] <=> LISTED \in flags[x]
                              /\ HALTED \in flags'[x] <=> HALTED \in flags[x]
                              /\ flags'[x] # {} <=> flags[x] # {}
        BY <2>5, <2>1, <2>4, <1>a DEF CapsReady, TypeOK
      <3>2. TypeOK'
        BY <2>5, <2>1, <2>2, <2>3, <2>4, <1>a DEF CapsReady, TypeOK
      <3>3. RefCount'
        <4> SUFFICES ASSUME NEW x \in RecIds
                     PROVE  refcnt'[x] = (IF LISTED \in flags'[x] THEN 1 ELSE 0)
                                         + handles'[x]
          BY DEF RefCount
        <4>1. LISTED \in flags'[x] <=> LISTED \in flags[x]
          BY <3>1
        <4>2. refcnt'[x] = refcnt[x] /\ handles'[x] = handles[x]
          BY <2>5, <2>2
        <4>3. refcnt[x] = (IF LISTED \in flags[x] THEN 1 ELSE 0) + handles[x]
          BY DEF IInv, RefCount
        <4>4. QED
          BY <4>1, <4>2, <4>3
      <3>4. TableListed'
        BY <2>5, <2>2, <3>1, <1>a DEF IInv, TableListed, TypeOK
      <3>5. LiveOrHalted'
        BY <3>1 DEF IInv, LiveOrHalted, Allocated
      <3>6. Fresh'
        <4> SUFFICES ASSUME NEW x \in RecIds, x >= nextRec'
                     PROVE  flags'[x] = {} /\ handles'[x] = 0 /\ http_pending'[x] = {}
          BY DEF Fresh
        <4>1. x # r
          BY <2>1, <2>2, <1>a DEF IInv, LiveOrHalted, Fresh, TypeOK
        <4>2. QED
          BY <4>1, <2>5, <2>2, <2>3, <1>a DEF CapsReady, IInv, Fresh, TypeOK
      <3>7. SessionTracked'
        <4> SUFFICES ASSUME NEW m2 \in session'
                     PROVE  m2 \in http_pending'[m2[1]] /\ LISTED \in flags'[m2[1]]
          BY DEF SessionTracked
        <4>1. m2 \in q /\ m2[1] \in RecIds
          BY <2>5, <2>3 DEF Msgs
        <4>2. QED
          BY <4>1, <2>5, <2>3, <3>1
      <3>8. QED
        BY <3>2, <3>3, <3>4, <3>5, <3>6, <3>7 DEF IInv
    <2>6. CASE /\ ~ok
               /\ HasNextAddr(r)
               /\ ProbeNext(r, p, q)
               /\ UNCHANGED <<device_table, flags, refcnt>>
      <3> DEFINE next == <<r, addr_current[r] + 1>>
      <3>1. addr_current[r] + 1 \in 1..MaxAddrs /\ next \in Msgs
        <4>1. addr_current[r] \in 0..MaxAddrs /\ addresses[r] \in 0..MaxAddrs
          BY <2>1, <1>b
        <4>2. addr_current[r] < addresses[r]
          BY <2>6 DEF HasNextAddr
        <4>3. addr_current[r] + 1 \in 1..MaxAddrs
          BY <4>1, <4>2
        <4>4. QED
          BY <4>3, <2>1 DEF Msgs
      <3>2. /\ addr_current' = [addr_current EXCEPT ![r] = @ + 1]
            /\ http_pending' = [p EXCEPT ![r] = @ \cup {next}]
            /\ session' = q \cup {next}
        BY <2>6 DEF ProbeNext
      <3>3. TypeOK'
        <4>1. addr_current' \in [RecIds -> 0..MaxAddrs]
          BY <3>1, <3>2, <2>1, <1>a DEF TypeOK
        <4>2. http_pending' \in [RecIds -> SUBSET Msgs] /\ session' \in SUBSET Msgs
          BY <3>1, <3>2, <2>1, <2>3
        <4>3. QED
          BY <4>1, <4>2, <2>2, <2>6, <1>a DEF TypeOK
      <3>4. RefCount' /\ TableListed' /\ LiveOrHalted'
        BY <2>6, <2>2 DEF IInv, RefCount, TableListed, LiveOrHalted, Allocated
      <3>5. Fresh'
        BY <3>2, <2>1, <2>2, <2>3, <2>6, <1>a DEF IInv, Fresh, TypeOK
      <3>6. SessionTracked'
        <4> SUFFICES ASSUME NEW m2 \in session'
                     PROVE  m2 \in http_pending'[m2[1]] /\ LISTED \in flags'[m2[1]]
          BY DEF SessionTracked
        <4>1. CASE m2 = next
          BY <4>1, <3>2, <2>1, <2>3, <2>6
        <4>2. CASE m2 # next
          <5>1. m2 \in q /\ m2 \in p[m2[1]] /\ LISTED \in flags[m2[1]] /\ m2[1] \in RecIds
            BY <4>2, <3>2, <2>3 DEF Msgs
          <5>2. QED
            BY <5>1, <3>2, <2>3, <2>6
        <4>3. QED
          BY <4>1, <4>2
      <3>7. QED
        BY <3>3, <3>4, <3>5, <3>6 DEF IInv, SessionTracked
    <2>7. CASE /\ ~ok
               /\ ~HasNextAddr(r)
               /\ GiveUp(r, p, q)
      <3>1. DeviceDel({r}, p, q) /\ http_pending' = p /\ UNCHANGED addr_current
        BY <2>7 DEF GiveUp
      <3>2. {r} \subseteq RecIds /\ \A x \in {r} : LISTED \in flags[x]
        BY <2>1
      <3>3. QED
        BY <3>1, <3>2, <2>2, <2>3, DelIInv
    <2>8. QED
      BY <1>6, <2>5, <2>6, <2>7 DEF device_scanner_capabilities_callback
  <1>7. ASSUME NEW n \in Names, device_open(n)
        PROVE  IInv'
    <2> DEFINE r == device_table[n]
    <2>1. r \in RecIds /\ LISTED \in flags[r]
      BY <1>7, <1>a DEF device_open, IInv, TableListed, TypeOK
    <2>2. /\ refcnt' = [refcnt EXCEPT ![r] = @ + 1]
          /\ handles' = [handles EXCEPT ![r] = @ + 1]
          /\ UNCHANGED <<phase, initScan, device_table, nextRec, name, flags,
                         addresses, addr_current, http_pending, session, lister,
                         expired>>
      BY <1>7 DEF device_open
    <2>3. r < nextRec
      BY <1>7, <1>a DEF device_open, IInv, TableListed, TypeOK
    <2>4. TypeOK'
      <3>1. refcnt' \in [RecIds -> Nat] /\ handles' \in [RecIds -> Nat]
        BY <2>1, <2>2, <1>b
      <3>2. QED
        BY <3>1, <2>2, <1>a DEF TypeOK
    <2>5. RefCount'
      <3> SUFFICES ASSUME NEW x \in RecIds
                   PROVE  refcnt'[x] = (IF LISTED \in flags'[x] THEN 1 ELSE 0)
                                       + handles'[x]
        BY DEF RefCount
      <3>1. CASE x = r
        <4>1. refcnt'[x] = refcnt[x] + 1 /\ handles'[x] = handles[x] + 1
          BY <3>1, <2>1, <2>2, <1>b
        <4>2. refcnt[x] = 1 + handles[x] /\ handles[x] \in Nat
          BY <3>1, <2>1, <1>b DEF IInv, RefCount
        <4>3. LISTED \in flags'[x]
          BY <3>1, <2>1, <2>2
        <4>4. QED
          BY <4>1, <4>2, <4>3
      <3>2. CASE x # r
        BY <3>2, <2>2, <1>b DEF IInv, RefCount
      <3>3. QED
        BY <3>1, <3>2
    <2>6. Fresh'
      BY <2>1, <2>2, <2>3, <1>b DEF IInv, Fresh, RecIds
    <2>7. QED
      BY <2>2, <2>4, <2>5, <2>6 DEF IInv, TableListed, SessionTracked,
         LiveOrHalted, Allocated
  <1>8. ASSUME NEW r \in RecIds, device_close(r)
        PROVE  IInv'
    <2>1. /\ handles[r] > 0
          /\ refcnt' = [refcnt EXCEPT ![r] = @ - 1]
          /\ handles' = [handles EXCEPT ![r] = @ - 1]
          /\ UNCHANGED <<phase, initScan, device_table, nextRec, name, flags,
                         addresses, addr_current, http_pending, session, lister,
                         expired>>
      BY <1>8 DEF device_close
    <2>2. refcnt[r] >= 1 /\ r < nextRec
      <3>1. refcnt[r] = (IF LISTED \in flags[r] THEN 1 ELSE 0) + handles[r]
        BY DEF IInv, RefCount
      <3>2. handles[r] \in Nat /\ nextRec \in Nat
        BY <1>a DEF TypeOK
      <3>3. ~(r >= nextRec)
        <4>1. r >= nextRec => handles[r] = 0
          BY DEF IInv, Fresh
        <4>2. QED
          BY <4>1, <2>1
      <3>4. refcnt[r] >= 1
        <4>1. CASE LISTED \in flags[r]
          BY <4>1, <3>1, <3>2
        <4>2. CASE LISTED \notin flags[r]
          BY <4>2, <3>1, <3>2, <2>1
        <4>3. QED
          BY <4>1, <4>2
      <3>5. QED
        BY <3>3, <3>4, <3>2 DEF RecIds
    <2>3. TypeOK'
      <3>1. refcnt' \in [RecIds -> Nat] /\ handles' \in [RecIds -> Nat]
        BY <2>1, <2>2, <1>b
      <3>2. QED
        BY <3>1, <2>1, <1>a DEF TypeOK
    <2>4. RefCount'
      BY <2>1 DEF IInv, RefCount, TypeOK
    <2>5. Fresh'
      <3> SUFFICES ASSUME NEW x \in RecIds, x >= nextRec'
                   PROVE  flags'[x] = {} /\ handles'[x] = 0 /\ http_pending'[x] = {}
        BY DEF Fresh
      <3>1. x # r
        BY <2>1, <2>2, <1>a DEF TypeOK, RecIds
      <3>2. handles'[x] = handles[x]
        BY <3>1, <2>1, <1>a DEF TypeOK
      <3>3. QED
        BY <3>2, <2>1 DEF IInv, Fresh
    <2>6. QED
      BY <2>1, <2>3, <2>4, <2>5 DEF IInv, TableListed, SessionTracked,
         LiveOrHalted, Allocated
  <1>11. ASSUME NEW c \in Callers,
               \/ list_start(c) \/ list_wait(c) \/ list_return(c)
               \/ list_timeout(c) \/ list_spurious_wakeup(c)
         PROVE  IInv'
    <2>1. /\ UNCHANGED ListVars
          /\ lister' \in [Callers -> {"idle", "check", "blocked"}]
          /\ expired' \in [Callers -> BOOLEAN]
      BY <1>11, <1>a DEF list_start, list_wait, list_return, list_timeout,
                         list_spurious_wakeup, TypeOK
    <2>2. QED
      BY <2>1 DEF ListVars, devVars, IInv, TypeOK, RefCount, TableListed,
         Fresh, SessionTracked, LiveOrHalted, Allocated
  <1>12. CASE device_management_cleanup
    <2>1. phase' \in Phases /\ UNCHANGED <<initScan, device_table, nextRec, session,
                                           handles, lister, expired>>
      BY <1>12 DEF device_management_cleanup, Phases
    <2>2. UNCHANGED devVars
      BY <1>12 DEF device_management_cleanup
    <2>3. UNCHANGED <<name, flags, refcnt, addresses, addr_current, http_pending>>
      BY <2>2 DEF devVars
    <2>4. TypeOK'
      BY <2>1, <2>3, <1>a DEF TypeOK
    <2>5. QED
      BY <2>1, <2>3, <2>4 DEF IInv, RefCount, TableListed, Fresh,
         SessionTracked, LiveOrHalted, Allocated
  <1>13. CASE device_management_init
    <2>1. /\ phase' \in Phases
          /\ device_table' = [n \in Names |-> NoRec]
          /\ UNCHANGED <<initScan, nextRec, session, handles, lister, expired>>
      BY <1>13 DEF device_management_init, Phases
    <2>2. UNCHANGED devVars
      BY <1>13 DEF device_management_init
    <2>3. UNCHANGED <<name, flags, refcnt, addresses, addr_current, http_pending>>
      BY <2>2 DEF devVars
    <2>4. TypeOK'
      BY <2>1, <2>3, <1>a DEF TypeOK
    <2>5. TableListed'
      BY <2>1 DEF TableListed
    <2>6. QED
      BY <2>1, <2>3, <2>4, <2>5 DEF IInv, RefCount, Fresh,
         SessionTracked, LiveOrHalted, Allocated
  <1>9. CASE UNCHANGED vars
    BY <1>9 DEF vars, IInv, TypeOK, RefCount, TableListed, Fresh,
        SessionTracked, LiveOrHalted, Allocated
  <1>10. QED
    BY <1>1, <1>2, <1>3, <1>4, <1>5, <1>6, <1>7, <1>8, <1>9, <1>11, <1>12,
       <1>13 DEF Next
-----------------------------------------------------------------------------
(* IInv gives NoUseAfterFree: a record whose refcnt device_unref brought  *)
(* to zero has no table reference (RefCount, TableListed) and no open     *)
(* handle, and it was halted by device_del (LiveOrHalted).                 *)
LEMMA IInvNoUseAfterFree == IInv => NoUseAfterFree
  <1> SUFFICES ASSUME IInv, NEW r \in RecIds, Freed(r)
               PROVE  /\ HALTED \in flags[r]
                      /\ LISTED \notin flags[r]
                      /\ handles[r] = 0
                      /\ \A n \in Names : device_table[n] # r
    BY DEF NoUseAfterFree
  <1>1. LISTED \notin flags[r] /\ handles[r] = 0
    <2>1. refcnt[r] = 0 /\ handles[r] \in Nat
      BY DEF Freed, IInv, TypeOK
    <2>2. QED
      BY <2>1 DEF IInv, RefCount
  <1>2. HALTED \in flags[r]
    <2>1. Allocated(r)
      BY DEF Freed
    <2>2. LISTED \in flags[r] \/ HALTED \in flags[r]
      BY <2>1, Zenon DEF IInv, LiveOrHalted
    <2>3. QED
      BY <1>1, <2>2
  <1>3. \A n \in Names : device_table[n] # r
    <2> SUFFICES ASSUME NEW n \in Names, device_table[n] = r PROVE FALSE
      OBVIOUS
    <2>1. r # NoRec
      BY DEF RecIds
    <2>2. QED
      BY <1>1, <2>1 DEF IInv, TableListed
  <1>4. QED
    BY <1>1, <1>2, <1>3

(* IInv gives NoIOAfterHalt: a queued request belongs to a listed record  *)
(* (SessionTracked), and a listed record is not halted (LiveOrHalted).    *)
LEMMA IInvNoIOAfterHalt == IInv => NoIOAfterHalt
  <1> SUFFICES ASSUME IInv, NEW m \in session PROVE HALTED \notin flags[m[1]]
    BY DEF NoIOAfterHalt
  <1>1. m[1] \in RecIds /\ LISTED \in flags[m[1]]
    BY DEF IInv, TypeOK, SessionTracked, Msgs
  <1>2. QED
    BY <1>1 DEF IInv, LiveOrHalted

(* A step of device_del on a set D of records leaves every record outside *)
(* D as it was.                                                            *)
LEMMA DelOutside ==
  ASSUME TypeOK, NEW D, NEW p, NEW q, DeviceDel(D, p, q),
         NEW x \in RecIds, x \notin D
  PROVE  flags'[x] = flags[x] /\ refcnt'[x] = refcnt[x]
  BY DEF DeviceDel

(* Every step leaves a freed record alone.  A freed record is neither in  *)
(* the table nor listed nor open (IInv), so device_del, device_open and   *)
(* device_close never reach it; no queued request names it               *)
(* (SessionTracked), so no capability callback does; and it was created  *)
(* before nextRec (Fresh), so device_found and the static devices of      *)
(* device_management_start write to other records.                        *)
LEMMA FreedUntouched ==
  ASSUME IInv, [Next]_vars, NEW x \in RecIds, Freed(x)
  PROVE  RecordOf(x)' = RecordOf(x)
  <1>a. TypeOK
    BY DEF IInv
  <1>1. /\ LISTED \notin flags[x]
        /\ handles[x] = 0
        /\ \A n \in Names : device_table[n] # x
    BY IInvNoUseAfterFree DEF NoUseAfterFree
  <1>2. x < nextRec
    <2>1. flags[x] # {}
      BY DEF Freed, Allocated
    <2>2. ~(x >= nextRec)
      BY <2>1 DEF IInv, Fresh
    <2>3. QED
      BY <2>2, <1>a DEF TypeOK, RecIds
  <1>3. x \notin Listed
    BY <1>1 DEF Listed
  <1>4. \A m \in session : m[1] # x
    BY <1>1 DEF IInv, SessionTracked
  <1> SUFFICES /\ name'[x] = name[x] /\ flags'[x] = flags[x]
               /\ refcnt'[x] = refcnt[x] /\ addresses'[x] = addresses[x]
               /\ addr_current'[x] = addr_current[x]
               /\ http_pending'[x] = http_pending[x] /\ handles'[x] = handles[x]
    BY DEF RecordOf
  <1>5. CASE device_management_start
    <2>1. \A i \in StaticFirst : nextRec + i - 1 # x
      BY <1>2, <1>a DEF StaticFirst, TypeOK, RecIds
    <2>2. QED
      BY <1>5, <2>1 DEF device_management_start
  <1>6. CASE device_management_stop
    <2>1. flags'[x] = flags[x] /\ refcnt'[x] = refcnt[x]
      BY <1>6, <1>3, <1>a, DelOutside DEF device_management_stop
    <2>2. QED
      BY <1>6, <2>1 DEF device_management_stop
  <1>7. ASSUME NEW n \in Names, NEW k \in 1..MaxAddrs, device_found(n, k)
        PROVE  RecordOf(x)' = RecordOf(x)
    <2>1. nextRec # x
      BY <1>2, <1>a DEF TypeOK, RecIds
    <2>2. /\ name' = [name EXCEPT ![nextRec] = n]
          /\ flags' = [flags EXCEPT ![nextRec] = IF initScan THEN {LISTED, INIT_WAIT}
                                                           ELSE {LISTED}]
          /\ refcnt' = [refcnt EXCEPT ![nextRec] = 1]
          /\ addresses' = [addresses EXCEPT ![nextRec] = k]
          /\ addr_current' = [addr_current EXCEPT ![nextRec] = 1]
          /\ http_pending' = [http_pending EXCEPT ![nextRec] = {<<nextRec, 1>>}]
          /\ handles' = handles
      BY <1>7 DEF device_found
    <2>3. QED
      BY <2>1, <2>2 DEF RecordOf
  <1>8. ASSUME NEW n \in Names, device_removed(n)
        PROVE  RecordOf(x)' = RecordOf(x)
    <2>0. DeviceDel({device_table[n]}, http_pending, session)
          /\ x \notin {device_table[n]}
      BY <1>8, <1>1 DEF device_removed
    <2>1. flags'[x] = flags[x] /\ refcnt'[x] = refcnt[x]
      BY <2>0, <1>a, DelOutside
    <2>2. QED
      BY <1>8, <2>1 DEF device_removed, RecordOf
  <1>9. ASSUME NEW m \in Msgs, NEW ok \in BOOLEAN,
               device_scanner_capabilities_callback(m, ok)
        PROVE  RecordOf(x)' = RecordOf(x)
    <2>1. m[1] # x
      BY <1>9, <1>4 DEF device_scanner_capabilities_callback
    <2>2. CASE ok
      BY <1>9, <2>1, <2>2, <1>a DEF device_scanner_capabilities_callback,
             CapsReady, TypeOK, RecordOf
    <2>3. CASE ~ok /\ HasNextAddr(m[1])
      BY <1>9, <2>1, <2>3, <1>a DEF device_scanner_capabilities_callback,
             ProbeNext, TypeOK, RecordOf
    <2>4. CASE ~ok /\ ~HasNextAddr(m[1])
      <3>1. GiveUp(m[1], [http_pending EXCEPT ![m[1]] = @ \ {m}],
                   session \ {m})
        BY <1>9, <2>4 DEF device_scanner_capabilities_callback
      <3>2. flags'[x] = flags[x] /\ refcnt'[x] = refcnt[x]
        <4>1. DeviceDel({m[1]}, [http_pending EXCEPT ![m[1]] = @ \ {m}],
                        session \ {m})
              /\ x \notin {m[1]}
          BY <3>1, <2>1 DEF GiveUp
        <4>2. QED
          BY <4>1, <1>a, DelOutside
      <3>3. QED
        BY <1>9, <2>1, <3>1, <3>2, <1>a DEF device_scanner_capabilities_callback,
               GiveUp, TypeOK, RecordOf
    <2>5. QED
      BY <2>2, <2>3, <2>4
  <1>10. ASSUME NEW n \in Names, device_open(n)
         PROVE  RecordOf(x)' = RecordOf(x)
    BY <1>10, <1>1, <1>a DEF device_open, TypeOK, RecordOf
  <1>11. ASSUME NEW y \in RecIds, device_close(y)
         PROVE  RecordOf(x)' = RecordOf(x)
    <2>0. handles[y] > 0
      BY <1>11 DEF device_close
    <2>1. y # x
      <3>1. handles[x] = 0
        BY <1>1
      <3>2. QED
        BY <2>0, <3>1
    <2>2. QED
      BY <1>11, <2>1, <1>a DEF device_close, TypeOK, RecordOf
  <1>12. CASE \/ device_management_cleanup \/ device_management_init
              \/ device_init_scan_finished
              \/ \E c \in Callers : \/ list_start(c) \/ list_wait(c)
                                    \/ list_return(c) \/ list_timeout(c)
                                    \/ list_spurious_wakeup(c)
              \/ UNCHANGED vars
    BY <1>12 DEF device_management_cleanup, device_management_init,
           device_init_scan_finished, list_start, list_wait, list_return,
           list_timeout, list_spurious_wakeup, ListVars, devVars, vars
  <1>13. QED
    BY <1>5, <1>6, <1>7, <1>8, <1>9, <1>10, <1>11, <1>12 DEF Next, RecordOf

(* IInv holds in every reachable state of the device subsystem.            *)
THEOREM InvariantHolds == Spec => []IInv
  BY InitIInv, NextIInv, PTL DEF Spec

(* Type correctness: every variable keeps its type through every sequence *)
(* of handlers, in particular dev->refcnt never drops below zero in         *)
(* device_unref, for every value of the constants.                         *)
THEOREM TypeCorrect == Spec => []TypeOK
  <1>1. IInv => TypeOK
    BY DEF IInv
  <1>2. QED
    BY <1>1, InvariantHolds, PTL

(* No use after free: device_unref never frees a record that the table or *)
(* an open handle still refers to, and a freed record was halted first.    *)
THEOREM UseAfterFreeSafe == Spec => []NoUseAfterFree
  BY IInvNoUseAfterFree, InvariantHolds, PTL

(* No I/O after halt: once device_del has set DEVICE_HALTED no capability  *)
(* request of that device is still queued in the HTTP session.             *)
THEOREM HaltSilencesIO == Spec => []NoIOAfterHalt
  BY IInvNoIOAfterHalt, InvariantHolds, PTL

(* No write after free: once device_unref has released a record, no      *)
(* handler (a late capability callback, device_close, a ZeroConf event,  *)
(* stop's purge) changes any of its fields, for every value of the       *)
(* constants.                                                            *)
THEOREM NoWriteAfterFreeHolds == Spec => NoWriteAfterFree
  <1>1. IInv /\ [Next]_vars =>
            [\A r \in RecIds : Freed(r) => RecordOf(r)' = RecordOf(r)]_vars
    <2> SUFFICES ASSUME IInv, [Next]_vars
                 PROVE  \A r \in RecIds : Freed(r) => RecordOf(r)' = RecordOf(r)
      OBVIOUS
    <2> QED
      BY FreedUntouched
  <1>2. QED
    BY <1>1, InvariantHolds, PTL DEF Spec, NoWriteAfterFree
=============================================================================
