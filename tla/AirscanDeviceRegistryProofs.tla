--------------------- MODULE AirscanDeviceRegistryProofs ---------------------
(***************************************************************************)
(* Proof that AirscanDevice implements the safety part of DeviceRegistry  *)
(* under the mapping RegistryOf.  Two more facts than FInv are needed: a  *)
(* device with a capability request in flight is not yet ready (so the    *)
(* callback's verdict is a pending -> ready or pending -> absent step),   *)
(* and the table files each record under the record's own name (so        *)
(* deleting or readying one record moves exactly one abstract name).     *)
(***************************************************************************)
EXTENDS AirscanDeviceFlagsProofs

\* A device with a queued capability request is not DEVICE_READY
QueuedNotReady == \A m \in session : READY \notin flags[m[1]]

\* The table maps a name to a record carrying that name
TableNamed ==
    \A n \in Names : device_table[n] # NoRec => name[device_table[n]] = n

RInv == FInv /\ QueuedNotReady /\ TableNamed
-----------------------------------------------------------------------------
USE ConstAssumption

(* The initial state satisfies RInv.                                       *)
LEMMA InitRInv == Init => RInv
  <1> SUFFICES ASSUME Init PROVE RInv
    OBVIOUS
  <1>1. FInv
    BY InitFInv
  <1>2. QueuedNotReady /\ TableNamed
    BY DEF Init, QueuedNotReady, TableNamed
  <1>3. QED
    BY <1>1, <1>2 DEF RInv

(* device_del keeps the two new conjuncts: it only drops table entries    *)
(* and requests, and only takes DEVICE_READY away.                         *)
LEMMA DelRInv ==
  ASSUME RInv, NEW D, D \subseteq RecIds, NEW p, NEW q, q \subseteq session,
         DeviceDel(D, p, q), UNCHANGED name
  PROVE  QueuedNotReady' /\ TableNamed'
  <1> USE DEF DeviceDel
  <1>a. /\ flags \in [RecIds -> SUBSET Flags]
        /\ device_table \in [Names -> RecIds \cup {NoRec}]
        /\ session \subseteq Msgs
    BY DEF RInv, FInv, IInv, TypeOK
  <1>1. QueuedNotReady'
    <2> SUFFICES ASSUME NEW m \in session' PROVE READY \notin flags'[m[1]]
      BY DEF QueuedNotReady
    <2>1. m \in session /\ m[1] \in RecIds
      BY <1>a DEF Msgs
    <2>2. READY \notin flags[m[1]]
      BY <2>1 DEF RInv, QueuedNotReady
    <2>3. QED
      BY <2>1, <2>2, <1>a DEF READY, HALTED, LISTED
  <1>2. TableNamed'
    BY <1>a DEF RInv, TableNamed
  <1>3. QED
    BY <1>1, <1>2

(* Every step keeps RInv.                                                  *)
LEMMA NextRInv == RInv /\ [Next]_vars => RInv'
  <1> SUFFICES ASSUME RInv, [Next]_vars PROVE RInv'
    OBVIOUS
  <1>0. FInv'
    BY NextFInv DEF RInv
  <1>a. /\ nextRec \in 1..(MaxRecords + 1)
        /\ device_table \in [Names -> RecIds \cup {NoRec}]
        /\ flags \in [RecIds -> SUBSET Flags]
        /\ name \in [RecIds -> Names]
        /\ http_pending \in [RecIds -> SUBSET Msgs]
        /\ session \subseteq Msgs
    BY DEF RInv, FInv, IInv, TypeOK
  <1>b. \A x \in RecIds : http_pending[x] \subseteq {<<x, addr_current[x]>>}
    BY DEF RInv, FInv, PendingCurrent
  <1>c. \A m \in session : m \in http_pending[m[1]] /\ LISTED \in flags[m[1]]
    BY DEF RInv, FInv, IInv, SessionTracked
  <1>d. \A n \in Names : device_table[n] # NoRec => device_table[n] < nextRec
    BY DEF RInv, FInv, IInv, TableListed
  <1>e. \A x \in RecIds : x >= nextRec => flags[x] = {}
    BY DEF RInv, FInv, IInv, Fresh
  <1>f. \A m \in session : m[1] \in RecIds /\ m[1] < nextRec
    <2> SUFFICES ASSUME NEW m \in session PROVE m[1] \in RecIds /\ m[1] < nextRec
      OBVIOUS
    <2>1. m[1] \in RecIds /\ LISTED \in flags[m[1]]
      BY <1>a, <1>c DEF Msgs
    <2>2. QED
      BY <2>1, <1>a, <1>e DEF RecIds
  <1>g. QueuedNotReady /\ TableNamed
    BY DEF RInv
  <1>1. CASE device_management_start
    <2> DEFINE rec(i) == nextRec + i - 1
               New == {rec(i) : i \in StaticFirst}
    <2>1. /\ Len(StaticConf) \in Nat
          /\ StaticFirst \subseteq 1..Len(StaticConf)
          /\ nextRec + Len(StaticConf) <= MaxRecords + 1
      BY <1>1 DEF device_management_start, StaticFirst
    <2>2. \A i \in StaticFirst : rec(i) \in RecIds /\ rec(i) >= nextRec
                                 /\ rec(i) - nextRec + 1 = i
      BY <2>1, <1>a DEF RecIds
    <2>3. /\ flags' = [r \in RecIds |-> IF r \in New THEN {LISTED, INIT_WAIT} ELSE flags[r]]
          /\ session' = session \cup {<<r, 0>> : r \in New}
          /\ name' = [r \in RecIds |-> IF r \in New THEN StaticConf[r - nextRec + 1] ELSE name[r]]
          /\ phase = "init"
      BY <1>1 DEF device_management_start
    <2>4. QueuedNotReady'
      <3> SUFFICES ASSUME NEW m \in session' PROVE READY \notin flags'[m[1]]
        BY DEF QueuedNotReady
      <3>1. CASE m \in session
        <4>1. m[1] \notin New /\ m[1] \in RecIds
          BY <3>1, <1>f, <2>2, <1>a DEF RecIds
        <4>2. flags'[m[1]] = flags[m[1]]
          BY <4>1, <2>3
        <4>3. QED
          BY <3>1, <4>2, <1>g DEF QueuedNotReady
      <3>2. CASE m \notin session
        <4>1. PICK r \in New : m = <<r, 0>>
          BY <3>2, <2>3
        <4>2. r \in RecIds
          BY <2>2
        <4>3. flags'[m[1]] = {LISTED, INIT_WAIT}
          BY <4>1, <4>2, <2>3
        <4>4. QED
          BY <4>3 DEF LISTED, INIT_WAIT, READY
      <3>3. QED
        BY <3>1, <3>2
    <2>5. TableNamed'
      <3> SUFFICES ASSUME NEW n \in Names, device_table'[n] # NoRec
                   PROVE  name'[device_table'[n]] = n
        BY DEF TableNamed
      <3>1. device_table[n] = NoRec
        BY <2>3 DEF RInv, FInv, IdleEmpty, IdlePhases
      <3>2. \E i \in StaticFirst : StaticConf[i] = n
        BY <3>1, <1>1 DEF device_management_start
      <3>3. PICK i \in StaticFirst : /\ StaticConf[i] = n
                                     /\ i = CHOOSE j \in StaticFirst : StaticConf[j] = n
        BY <3>2
      <3>4. device_table'[n] = rec(i)
        BY <3>2, <3>3, <1>1 DEF device_management_start
      <3>5. name'[rec(i)] = StaticConf[i]
        BY <3>3, <2>2, <2>3
      <3>6. QED
        BY <3>3, <3>4, <3>5
    <2>6. QED
      BY <1>0, <2>4, <2>5 DEF RInv
  <1>2. CASE device_management_stop
    <2>1. /\ DeviceDel(Listed, http_pending, {})
          /\ UNCHANGED name
      BY <1>2 DEF device_management_stop
    <2>2. Listed \subseteq RecIds
      BY <1>a DEF Listed
    <2>3. QED
      BY <2>1, <2>2, <1>0, DelRInv DEF RInv
  <1>3. ASSUME NEW n \in Names, NEW k \in 1..MaxAddrs, device_found(n, k)
        PROVE  RInv'
    <2> DEFINE r == nextRec
    <2>1. /\ device_table[n] = NoRec
          /\ r \in RecIds
          /\ device_table' = [device_table EXCEPT ![n] = r]
          /\ name' = [name EXCEPT ![r] = n]
          /\ flags' = [flags EXCEPT ![r] = IF initScan THEN {LISTED, INIT_WAIT}
                                                       ELSE {LISTED}]
          /\ session' = session \cup {<<r, 1>>}
      BY <1>3, <1>a DEF device_found, RecIds
    <2>2. QueuedNotReady'
      <3> SUFFICES ASSUME NEW m \in session' PROVE READY \notin flags'[m[1]]
        BY DEF QueuedNotReady
      <3>1. CASE m \in session
        <4>1. m[1] # r /\ m[1] \in RecIds
          BY <3>1, <1>f, <1>a DEF RecIds
        <4>2. flags'[m[1]] = flags[m[1]]
          BY <4>1, <2>1, <1>a
        <4>3. QED
          BY <3>1, <4>2, <1>g DEF QueuedNotReady
      <3>2. CASE m = <<r, 1>>
        BY <3>2, <2>1, <1>a DEF LISTED, INIT_WAIT, READY
      <3>3. QED
        BY <3>1, <3>2, <2>1
    <2>3. TableNamed'
      <3> SUFFICES ASSUME NEW x \in Names, device_table'[x] # NoRec
                   PROVE  name'[device_table'[x]] = x
        BY DEF TableNamed
      <3>1. CASE x = n
        BY <3>1, <2>1, <1>a
      <3>2. CASE x # n
        <4>1. device_table'[x] = device_table[x] /\ device_table[x] # NoRec
          BY <3>2, <2>1, <1>a
        <4>2. device_table[x] # r /\ device_table[x] \in RecIds
          BY <4>1, <1>a, <1>d
        <4>3. name'[device_table[x]] = name[device_table[x]]
          BY <4>2, <2>1, <1>a
        <4>4. QED
          BY <4>1, <4>3, <1>g DEF TableNamed
      <3>3. QED
        BY <3>1, <3>2
    <2>4. QED
      BY <1>0, <2>2, <2>3 DEF RInv
  <1>4. ASSUME NEW n \in Names, device_removed(n)
        PROVE  RInv'
    <2>1. /\ DeviceDel({device_table[n]}, http_pending, session)
          /\ UNCHANGED name
          /\ device_table[n] \in RecIds
      BY <1>4, <1>a DEF device_removed
    <2>2. QED
      BY <2>1, <1>0, DelRInv DEF RInv
  <1>5. ASSUME NEW m \in Msgs, NEW ok \in BOOLEAN,
               device_scanner_capabilities_callback(m, ok)
        PROVE  RInv'
    <2> DEFINE r == m[1]
               p == [http_pending EXCEPT ![r] = @ \ {m}]
               q == session \ {m}
    <2>0. m \in session /\ r \in RecIds /\ UNCHANGED name
      BY <1>5 DEF device_scanner_capabilities_callback, Msgs
    <2>1. \A m2 \in q : m2[1] # r
      <3> SUFFICES ASSUME NEW m2 \in q, m2[1] = r PROVE FALSE
        OBVIOUS
      <3>1. m2 \in http_pending[r] /\ m \in http_pending[r]
        BY <2>0, <1>c
      <3>2. m2 = m
        BY <3>1, <2>0, <1>b
      <3>3. QED
        BY <3>2
    <2>2. CASE /\ ok
               /\ CapsReady(r)
               /\ session' = q
               /\ UNCHANGED device_table
      <3>1. QueuedNotReady'
        <4> SUFFICES ASSUME NEW m2 \in session' PROVE READY \notin flags'[m2[1]]
          BY DEF QueuedNotReady
        <4>1. m2 \in session /\ m2[1] # r /\ m2[1] \in RecIds
          BY <2>1, <2>2, <1>f
        <4>2. flags'[m2[1]] = flags[m2[1]]
          BY <4>1, <2>2, <1>a DEF CapsReady
        <4>3. QED
          BY <4>1, <4>2, <1>g DEF QueuedNotReady
      <3>2. TableNamed'
        BY <2>0, <2>2, <1>g DEF TableNamed
      <3>3. QED
        BY <1>0, <3>1, <3>2 DEF RInv
    <2>3. CASE /\ ProbeNext(r, p, q)
               /\ UNCHANGED <<device_table, flags>>
      <3>1. QueuedNotReady'
        <4> SUFFICES ASSUME NEW m2 \in session' PROVE READY \notin flags'[m2[1]]
          BY DEF QueuedNotReady
        <4>1. m2 \in session \/ m2[1] = r
          BY <2>3 DEF ProbeNext
        <4>2. QED
          BY <4>1, <2>0, <2>3, <1>g DEF QueuedNotReady
      <3>2. TableNamed'
        BY <2>0, <2>3, <1>g DEF TableNamed
      <3>3. QED
        BY <1>0, <3>1, <3>2 DEF RInv
    <2>4. CASE GiveUp(r, p, q)
      <3>1. DeviceDel({r}, p, q) /\ q \subseteq session
        BY <2>4 DEF GiveUp
      <3>2. QED
        BY <3>1, <2>0, <1>0, DelRInv DEF RInv
    <2>5. QED
      BY <1>5, <2>2, <2>3, <2>4 DEF device_scanner_capabilities_callback
  <1>6. CASE \/ device_init_scan_finished
             \/ \E n \in Names : device_open(n)
             \/ \E r \in RecIds : device_close(r)
             \/ \E c \in Callers : \/ list_start(c) \/ list_wait(c)
                                   \/ list_return(c) \/ list_timeout(c)
                                   \/ list_spurious_wakeup(c)
             \/ UNCHANGED vars
    <2>1. UNCHANGED <<device_table, name, flags, session>>
      BY <1>6 DEF device_init_scan_finished, device_open, device_close,
         list_start, list_wait, list_return, list_timeout, list_spurious_wakeup,
         ListVars, devVars, vars
    <2>2. QED
      BY <2>1, <1>0, <1>g DEF RInv, QueuedNotReady, TableNamed
  <1>7. CASE \/ device_management_cleanup
             \/ device_management_init
    <2>1. /\ UNCHANGED <<session, flags, name>>
          /\ device_table' = device_table \/ device_table' = [n \in Names |-> NoRec]
      BY <1>7 DEF device_management_cleanup, device_management_init, devVars
    <2>2. QueuedNotReady' /\ TableNamed'
      BY <2>1, <1>g DEF QueuedNotReady, TableNamed
    <2>3. QED
      BY <1>0, <2>2 DEF RInv
  <1>8. QED
    BY <1>1, <1>2, <1>3, <1>4, <1>5, <1>6, <1>7 DEF Next
-----------------------------------------------------------------------------
(* The refinement.                                                         *)

(* A registry that changes in name n only, to v, is the EXCEPT of the old *)
(* one.                                                                    *)
LEMMA RegistryExcept ==
  ASSUME NEW n \in Names, NEW v,
         \A x \in Names : RegistryOf(x)' = IF x = n THEN v ELSE RegistryOf(x)
  PROVE  [x \in Names |-> RegistryOf(x)]' = [[x \in Names |-> RegistryOf(x)] EXCEPT ![n] = v]
  OBVIOUS

(* Deleting the record filed under n makes n absent and leaves every other *)
(* name as it was: no other name maps to that record (TableNamed).        *)
LEMMA DelOneRegistry ==
  ASSUME RInv, NEW n \in Names, device_table[n] # NoRec, NEW p, NEW q,
         DeviceDel({device_table[n]}, p, q)
  PROVE  \A x \in Names : RegistryOf(x)' = IF x = n THEN "absent" ELSE RegistryOf(x)
  <1> SUFFICES ASSUME NEW x \in Names
               PROVE  RegistryOf(x)' = IF x = n THEN "absent" ELSE RegistryOf(x)
    OBVIOUS
  <1>a. /\ device_table \in [Names -> RecIds \cup {NoRec}]
        /\ flags \in [RecIds -> SUBSET Flags]
    BY DEF RInv, FInv, IInv, TypeOK
  <1>1. CASE x = n
    BY <1>1, <1>a DEF DeviceDel, RegistryOf
  <1>2. CASE x # n /\ device_table[x] = NoRec
    <2>1. device_table'[x] = NoRec
      BY <1>2, <1>a DEF DeviceDel, RecIds
    <2>2. QED
      BY <1>2, <2>1 DEF RegistryOf
  <1>3. CASE x # n /\ device_table[x] # NoRec
    <2>1. device_table[x] # device_table[n]
      BY <1>3 DEF RInv, TableNamed
    <2>2. device_table'[x] = device_table[x] /\ device_table[x] \in RecIds
      BY <2>1, <1>3, <1>a DEF DeviceDel
    <2>3. flags'[device_table[x]] = flags[device_table[x]]
      BY <2>1, <2>2, <1>a DEF DeviceDel
    <2>4. QED
      BY <1>3, <2>2, <2>3 DEF RegistryOf
  <1>4. QED
    BY <1>1, <1>2, <1>3

(* Every step of the handlers is a registry step or leaves the registry   *)
(* (and the phase) alone.                                                  *)
LEMMA StepRefines == RInv /\ [Next]_vars => [Registry!Next]_Registry!avars
  <1> SUFFICES ASSUME RInv, [Next]_vars PROVE [Registry!Next]_Registry!avars
    OBVIOUS
  <1>a. /\ nextRec \in 1..(MaxRecords + 1)
        /\ device_table \in [Names -> RecIds \cup {NoRec}]
        /\ flags \in [RecIds -> SUBSET Flags]
        /\ name \in [RecIds -> Names]
        /\ session \subseteq Msgs
    BY DEF RInv, FInv, IInv, TypeOK
  <1>d. \A n \in Names : device_table[n] # NoRec => device_table[n] < nextRec
    BY DEF RInv, FInv, IInv, TableListed
  <1>1. CASE device_management_start
    <2> DEFINE rec(i) == nextRec + i - 1
               New == {rec(i) : i \in StaticFirst}
               SN == {StaticConf[i] : i \in StaticFirst}
    <2>1. /\ StaticFirst \subseteq 1..Len(StaticConf)
          /\ nextRec + Len(StaticConf) <= MaxRecords + 1
          /\ phase = "init" /\ phase' = "running"
          /\ flags' = [r \in RecIds |-> IF r \in New THEN {LISTED, INIT_WAIT} ELSE flags[r]]
      BY <1>1 DEF device_management_start, StaticFirst
    <2>2. \A i \in StaticFirst : rec(i) \in RecIds
      BY <2>1, <1>a DEF RecIds
    <2>3. \A n \in Names : RegistryOf(n)' = IF n \in SN THEN "pending" ELSE "absent"
      <3> SUFFICES ASSUME NEW n \in Names
                   PROVE  RegistryOf(n)' = IF n \in SN THEN "pending" ELSE "absent"
        OBVIOUS
      <3>1. CASE \E i \in StaticFirst : StaticConf[i] = n
        <4>1. PICK i \in StaticFirst : /\ StaticConf[i] = n
                                       /\ i = CHOOSE j \in StaticFirst : StaticConf[j] = n
          BY <3>1
        <4>2. device_table'[n] = rec(i) /\ rec(i) \in RecIds /\ rec(i) \in New
          BY <3>1, <4>1, <2>2, <1>1 DEF device_management_start
        <4>3. flags'[rec(i)] = {LISTED, INIT_WAIT}
          BY <4>2, <2>1
        <4>4. rec(i) # NoRec /\ READY \notin flags'[rec(i)]
          BY <4>2, <4>3, ConstAssumption DEF LISTED, INIT_WAIT, READY, RecIds
        <4>5. n \in SN
          BY <4>1
        <4>6. QED
          BY <4>2, <4>4, <4>5 DEF RegistryOf
      <3>2. CASE ~\E i \in StaticFirst : StaticConf[i] = n
        <4>1. device_table[n] = NoRec
          BY <2>1 DEF RInv, FInv, IdleEmpty, IdlePhases
        <4>2. device_table'[n] = NoRec
          BY <3>2, <4>1, <1>1 DEF device_management_start
        <4>3. n \notin SN
          BY <3>2
        <4>4. QED
          BY <4>2, <4>3 DEF RegistryOf
      <3>3. QED
        BY <3>1, <3>2
    <2>4. Registry!Start
      BY <2>1, <2>3 DEF Registry!Start
    <2>5. QED
      BY <2>4 DEF Registry!Next
  <1>2. CASE device_management_stop
    <2>1. /\ DeviceDel(Listed, http_pending, {})
          /\ phase = "running" /\ phase' = "stopped"
      BY <1>2 DEF device_management_stop
    <2>2. \A n \in Names : RegistryOf(n)' = "absent"
      <3> SUFFICES ASSUME NEW n \in Names PROVE device_table'[n] = NoRec
        BY DEF RegistryOf
      <3>1. CASE device_table[n] = NoRec
        BY <3>1, <2>1, <1>a DEF DeviceDel, Listed
      <3>2. CASE device_table[n] # NoRec
        <4>1. device_table[n] \in Listed
          BY <3>2 DEF Listed
        <4>2. QED
          BY <4>1, <2>1, <1>a DEF DeviceDel
      <3>3. QED
        BY <3>1, <3>2
    <2>3. Registry!Stop
      BY <2>1, <2>2 DEF Registry!Stop
    <2>4. QED
      BY <2>3 DEF Registry!Next
  <1>3. ASSUME NEW n \in Names, NEW k \in 1..MaxAddrs, device_found(n, k)
        PROVE  [Registry!Next]_Registry!avars
    <2> DEFINE r == nextRec
    <2>1. /\ device_table[n] = NoRec
          /\ r \in RecIds
          /\ device_table' = [device_table EXCEPT ![n] = r]
          /\ flags' = [flags EXCEPT ![r] = IF initScan THEN {LISTED, INIT_WAIT}
                                                       ELSE {LISTED}]
          /\ phase = "running" /\ phase' = phase
      BY <1>3, <1>a DEF device_found, RecIds
    <2>2. \A x \in Names : RegistryOf(x)' = IF x = n THEN "pending" ELSE RegistryOf(x)
      <3> SUFFICES ASSUME NEW x \in Names
                   PROVE  RegistryOf(x)' = IF x = n THEN "pending" ELSE RegistryOf(x)
        OBVIOUS
      <3>1. CASE x = n
        <4>1. device_table'[n] = r /\ r # NoRec
          BY <2>1, <1>a, ConstAssumption DEF RecIds
        <4>2. READY \notin flags'[r]
          BY <2>1, <1>a DEF LISTED, INIT_WAIT, READY
        <4>3. QED
          BY <3>1, <4>1, <4>2 DEF RegistryOf
      <3>2. CASE x # n /\ device_table[x] = NoRec
        BY <3>2, <2>1, <1>a DEF RegistryOf
      <3>3. CASE x # n /\ device_table[x] # NoRec
        <4>1. device_table'[x] = device_table[x] /\ device_table[x] \in RecIds
              /\ device_table[x] # r
          BY <3>3, <2>1, <1>a, <1>d DEF RecIds
        <4>2. flags'[device_table[x]] = flags[device_table[x]]
          BY <4>1, <2>1, <1>a
        <4>3. QED
          BY <3>3, <4>1, <4>2 DEF RegistryOf
      <3>4. QED
        BY <3>1, <3>2, <3>3
    <2>3. Registry!Found(n)
      <3>1. RegistryOf(n) = "absent"
        BY <2>1 DEF RegistryOf
      <3>2. QED
        BY <2>1, <2>2, <3>1, RegistryExcept DEF Registry!Found
    <2>4. QED
      BY <2>3 DEF Registry!Next
  <1>4. ASSUME NEW n \in Names, device_removed(n)
        PROVE  [Registry!Next]_Registry!avars
    <2>1. /\ device_table[n] # NoRec
          /\ DeviceDel({device_table[n]}, http_pending, session)
          /\ phase = "running" /\ phase' = phase
      BY <1>4 DEF device_removed
    <2>2. \A x \in Names : RegistryOf(x)' = IF x = n THEN "absent" ELSE RegistryOf(x)
      BY <2>1, DelOneRegistry
    <2>3. RegistryOf(n) # "absent"
      BY <2>1 DEF RegistryOf
    <2>4. Registry!Remove(n)
      BY <2>1, <2>2, <2>3, RegistryExcept DEF Registry!Remove
    <2>5. QED
      BY <2>4 DEF Registry!Next
  <1>5. ASSUME NEW m \in Msgs, NEW ok \in BOOLEAN,
               device_scanner_capabilities_callback(m, ok)
        PROVE  [Registry!Next]_Registry!avars
    <2> DEFINE r == m[1]
               n == name[r]
               p == [http_pending EXCEPT ![r] = @ \ {m}]
               q == session \ {m}
    <2>0. /\ m \in session /\ r \in RecIds /\ n \in Names
          /\ phase' = phase
      BY <1>5, <1>a DEF device_scanner_capabilities_callback, Msgs
    <2>1. LISTED \in flags[r] /\ READY \notin flags[r]
      BY <2>0 DEF RInv, FInv, IInv, SessionTracked, QueuedNotReady
    <2>2. device_table[n] = r /\ r # NoRec
      BY <2>0, <2>1 DEF RInv, FInv, NameTable, RecIds
    <2>3. RegistryOf(n) = "pending"
      BY <2>1, <2>2 DEF RegistryOf
    <2>4. CASE /\ ok
               /\ CapsReady(r)
               /\ UNCHANGED device_table
      <3>1. \A x \in Names : RegistryOf(x)' = IF x = n THEN "ready" ELSE RegistryOf(x)
        <4> SUFFICES ASSUME NEW x \in Names
                     PROVE  RegistryOf(x)' = IF x = n THEN "ready" ELSE RegistryOf(x)
          OBVIOUS
        <4>1. CASE x = n
          BY <4>1, <2>2, <2>4, <1>a DEF CapsReady, RegistryOf, READY, INIT_WAIT
        <4>2. CASE x # n /\ device_table[x] = NoRec
          BY <4>2, <2>4 DEF RegistryOf
        <4>3. CASE x # n /\ device_table[x] # NoRec
          <5>1. device_table[x] # r /\ device_table[x] \in RecIds
            BY <4>3, <2>2, <1>a DEF RInv, TableNamed
          <5>2. flags'[device_table[x]] = flags[device_table[x]]
            BY <5>1, <2>4, <1>a DEF CapsReady
          <5>3. QED
            BY <4>3, <5>2, <2>4 DEF RegistryOf
        <4>4. QED
          BY <4>1, <4>2, <4>3
      <3>2. Registry!Resolve(n)
        BY <2>0, <2>3, <3>1, RegistryExcept DEF Registry!Resolve
      <3>3. QED
        BY <2>0, <3>2 DEF Registry!Next
    <2>5. CASE UNCHANGED <<device_table, flags>>
      <3>1. \A x \in Names : RegistryOf(x)' = RegistryOf(x)
        BY <2>5 DEF RegistryOf
      <3>2. QED
        BY <2>0, <3>1 DEF Registry!avars
    <2>6. CASE GiveUp(r, p, q)
      <3>1. DeviceDel({device_table[n]}, p, q)
        BY <2>6, <2>2 DEF GiveUp
      <3>2. \A x \in Names : RegistryOf(x)' = IF x = n THEN "absent" ELSE RegistryOf(x)
        BY <3>1, <2>0, <2>2, DelOneRegistry
      <3>3. Registry!Fail(n)
        BY <2>0, <2>3, <3>2, RegistryExcept DEF Registry!Fail
      <3>4. QED
        BY <2>0, <3>3 DEF Registry!Next
    <2>7. QED
      BY <1>5, <2>4, <2>5, <2>6 DEF device_scanner_capabilities_callback
  <1>6. CASE \/ device_init_scan_finished
             \/ \E n \in Names : device_open(n)
             \/ \E r \in RecIds : device_close(r)
             \/ \E c \in Callers : \/ list_start(c) \/ list_wait(c)
                                   \/ list_return(c) \/ list_timeout(c)
                                   \/ list_spurious_wakeup(c)
             \/ UNCHANGED vars
    <2>1. UNCHANGED <<phase, device_table, flags>>
      BY <1>6 DEF device_init_scan_finished, device_open, device_close,
         list_start, list_wait, list_return, list_timeout, list_spurious_wakeup,
         ListVars, devVars, vars
    <2>2. \A x \in Names : RegistryOf(x)' = RegistryOf(x)
      BY <2>1 DEF RegistryOf
    <2>3. QED
      BY <2>1, <2>2 DEF Registry!avars
  <1>7. CASE device_management_cleanup
    <2>1. phase \in {"init", "stopped"} /\ phase \in IdlePhases
      BY <1>7 DEF device_management_cleanup, IdlePhases
    <2>2. \A n \in Names : device_table[n] = NoRec
      BY <2>1 DEF RInv, FInv, IdleEmpty
    <2>3. Listed = {}
      BY <2>2 DEF Listed
    <2>4. phase' = "cleaned" /\ UNCHANGED <<device_table, flags>>
      BY <1>7, <2>3 DEF device_management_cleanup, devVars
    <2>5. \A n \in Names : RegistryOf(n) = "absent" /\ RegistryOf(n)' = "absent"
      BY <2>2, <2>4 DEF RegistryOf
    <2>6. Registry!Cleanup
      BY <2>1, <2>4, <2>5 DEF Registry!Cleanup
    <2>7. QED
      BY <2>6 DEF Registry!Next
  <1>8. CASE device_management_init
    <2>1. /\ phase = "cleaned" /\ phase' = "init"
          /\ device_table' = [n \in Names |-> NoRec]
      BY <1>8 DEF device_management_init
    <2>2. \A n \in Names : device_table[n] = NoRec
      BY <2>1 DEF RInv, FInv, IdleEmpty, IdlePhases
    <2>3. \A n \in Names : RegistryOf(n) = "absent" /\ RegistryOf(n)' = "absent"
      BY <2>1, <2>2 DEF RegistryOf
    <2>4. Registry!Reinit
      BY <2>1, <2>3 DEF Registry!Reinit
    <2>5. QED
      BY <2>4 DEF Registry!Next
  <1>9. QED
    BY <1>1, <1>2, <1>3, <1>4, <1>5, <1>6, <1>7, <1>8 DEF Next

(* The initial state is the abstract initial state: no name is known.      *)
LEMMA InitRefines == Init => Registry!Init
  BY DEF Init, Registry!Init, RegistryOf

(* The device table implements the abstract registry, for every value of  *)
(* the constants: each handler of src/airscan-device.c either leaves      *)
(* every name's status alone or makes one of the registry's moves, so a  *)
(* ready device is never found again or set back to pending, and a device *)
(* leaves the registry only when ZeroConf removes it, its last address    *)
(* fails, or device_management_stop runs.                                 *)
THEOREM RegistryRefined == Spec => Registry!SafeSpec
  <1>1. Spec => []RInv
    BY InitRInv, NextRInv, PTL DEF Spec
  <1>2. QED
    BY <1>1, InitRefines, StepRefines, PTL DEF Spec, Registry!SafeSpec
=============================================================================
