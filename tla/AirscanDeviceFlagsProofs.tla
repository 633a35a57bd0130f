----------------------- MODULE AirscanDeviceFlagsProofs -----------------------
(***************************************************************************)
(* Proofs of SequentialProbe and FlagsConsistent.  Both need more than     *)
(* IInv: what is pending for a device is only its current probe (device_   *)
(* probe_address is called only once the previous request has completed), *)
(* DEVICE_READY is set only on a listed device and cleared by device_del,  *)
(* and the table maps a listed record's name back to it, which rests on    *)
(* the duplicate checks of device_add_static and device_found.            *)
(***************************************************************************)
EXTENDS AirscanDeviceProofs

\* dev->http_pending holds at most the request for dev->addr_current
PendingCurrent ==
    \A r \in RecIds : http_pending[r] \subseteq {<<r, addr_current[r]>>}

\* DEVICE_READY only on a listed device that has left DEVICE_INIT_WAIT
ReadyListed ==
    \A r \in RecIds : READY \in flags[r] =>
        LISTED \in flags[r] /\ INIT_WAIT \notin flags[r]

\* A listed record is the one the table holds under its name
NameTable ==
    \A r \in RecIds : LISTED \in flags[r] => device_table[name[r]] = r

\* The phases in which no device may be in the table
IdlePhases == {"init", "stopped", "cleaned"}

(* Outside start..stop the table is empty (device_table_purge emptied it, *)
(* or nothing was added yet), so device_management_cleanup's g_assert has *)
(* never failed.                                                           *)
IdleEmpty ==
    /\ phase # "aborted"
    /\ phase \in IdlePhases => \A n \in Names : device_table[n] = NoRec

\* g_new0 leaves dev->addr_current NULL until a probe sets it
FreshAddr ==
    \A r \in RecIds : r >= nextRec => addr_current[r] = 0

FInv ==
    /\ IInv
    /\ FreshAddr
    /\ PendingCurrent
    /\ ReadyListed
    /\ NameTable
    /\ IdleEmpty
-----------------------------------------------------------------------------
USE ConstAssumption

(* device_add_static skips a name already added, so two kept positions of *)
(* conf.devices never carry the same name.                                 *)
LEMMA StaticFirstUnique ==
  \A i, j \in StaticFirst : StaticConf[i] = StaticConf[j] => i = j
  <1> SUFFICES ASSUME NEW i \in StaticFirst, NEW j \in StaticFirst,
                      StaticConf[i] = StaticConf[j], i # j
               PROVE  FALSE
    OBVIOUS
  <1>1. i \in 1..Len(StaticConf) /\ j \in 1..Len(StaticConf)
    BY DEF StaticFirst
  <1>2. CASE i < j
    BY <1>1, <1>2 DEF StaticFirst
  <1>3. CASE j < i
    BY <1>1, <1>3 DEF StaticFirst
  <1>4. QED
    BY <1>1, <1>2, <1>3

(* device_del of listed records keeps the new conjuncts, given pending    *)
(* arrays that hold at most the current probe.                             *)
LEMMA DelFInv ==
  ASSUME FInv,
         NEW D, D \subseteq RecIds, \A r \in D : LISTED \in flags[r],
         NEW p, \A r \in RecIds : p[r] \subseteq {<<r, addr_current[r]>>},
         NEW q,
         DeviceDel(D, p, q),
         http_pending' = p,
         \/ phase' = phase
         \/ phase' = "stopped" /\ D = Listed,
         UNCHANGED <<nextRec, name, addr_current>>
  PROVE  FreshAddr' /\ PendingCurrent' /\ ReadyListed' /\ NameTable' /\ IdleEmpty'
  <1> USE DEF DeviceDel
  <1>a. flags \in [RecIds -> SUBSET Flags] /\ device_table \in [Names -> RecIds \cup {NoRec}]
        /\ name \in [RecIds -> Names]
    BY DEF FInv, IInv, TypeOK
  <1>1. FreshAddr' /\ PendingCurrent'
    BY DEF FInv, FreshAddr, PendingCurrent
  <1>2. ReadyListed'
    <2> SUFFICES ASSUME NEW r \in RecIds, READY \in flags'[r]
                 PROVE  LISTED \in flags'[r] /\ INIT_WAIT \notin flags'[r]
      BY DEF ReadyListed
    <2>1. r \notin D
      BY <1>a DEF LISTED, HALTED, READY
    <2>2. flags'[r] = flags[r]
      BY <2>1, <1>a
    <2>3. QED
      BY <2>2 DEF FInv, ReadyListed
  <1>3. NameTable'
    <2> SUFFICES ASSUME NEW r \in RecIds, LISTED \in flags'[r]
                 PROVE  device_table'[name'[r]] = r
      BY DEF NameTable
    <2>1. r \notin D /\ flags'[r] = flags[r]
      BY <1>a DEF LISTED, HALTED, READY
    <2>2. device_table[name[r]] = r
      BY <2>1 DEF FInv, NameTable
    <2>3. QED
      BY <2>1, <2>2, <1>a
  <1>4. IdleEmpty'
    <2>1. CASE phase' = phase
      <3>1. phase' # "aborted"
        BY <2>1 DEF FInv, IdleEmpty
      <3>2. ASSUME phase' \in IdlePhases, NEW n \in Names PROVE device_table'[n] = NoRec
        <4>1. device_table[n] = NoRec
          BY <2>1, <3>2 DEF FInv, IdleEmpty
        <4>2. NoRec \notin D
          BY DEF RecIds
        <4>3. QED
          BY <4>1, <4>2
      <3>3. QED
        BY <3>1, <3>2 DEF IdleEmpty
    <2>2. CASE phase' = "stopped" /\ D = Listed
      <3>1. ASSUME NEW n \in Names PROVE device_table'[n] = NoRec
        <4>1. device_table[n] = NoRec \/ device_table[n] \in D
          BY <2>2 DEF Listed
        <4>2. QED
          BY <4>1
      <3>2. QED
        BY <2>2, <3>1 DEF IdleEmpty
    <2>3. QED
      BY <2>1, <2>2
  <1>5. QED
    BY <1>1, <1>2, <1>3, <1>4

(* The initial state satisfies FInv.                                       *)
LEMMA InitFInv == Init => FInv
  <1> SUFFICES ASSUME Init PROVE FInv
    OBVIOUS
  <1>1. IInv
    BY InitIInv
  <1>2. FreshAddr /\ PendingCurrent /\ ReadyListed /\ NameTable /\ IdleEmpty
    BY DEF Init, FreshAddr, PendingCurrent, ReadyListed, NameTable, IdleEmpty,
       IdlePhases
  <1>3. QED
    BY <1>1, <1>2 DEF FInv

(* device_management_start keeps FInv: the table is empty before it, each *)
(* record it creates is probed at index 0 with addr_current still NULL,   *)
(* and the table maps each kept name to the record created for it.        *)
LEMMA StartFInv ==
  ASSUME FInv, device_management_start
  PROVE  FInv'
  <1> DEFINE rec(i) == nextRec + i - 1
             New == {rec(i) : i \in StaticFirst}
  <1>0. IInv'
    BY NextIInv DEF FInv, Next
  <1>a. /\ nextRec \in 1..(MaxRecords + 1)
        /\ device_table \in [Names -> RecIds \cup {NoRec}]
        /\ flags \in [RecIds -> SUBSET Flags]
        /\ name \in [RecIds -> Names]
        /\ addr_current \in [RecIds -> 0..MaxAddrs]
        /\ http_pending \in [RecIds -> SUBSET Msgs]
    BY DEF FInv, IInv, TypeOK
  <1>1. /\ phase = "init" /\ phase' = "running"
        /\ nextRec' = nextRec + Len(StaticConf)
        /\ device_table' = [n \in Names |->
                              IF \E i \in StaticFirst : StaticConf[i] = n
                              THEN rec(CHOOSE i \in StaticFirst : StaticConf[i] = n)
                              ELSE device_table[n]]
        /\ name' = [r \in RecIds |-> IF r \in New THEN StaticConf[r - nextRec + 1]
                                                 ELSE name[r]]
        /\ flags' = [r \in RecIds |-> IF r \in New THEN {LISTED, INIT_WAIT}
                                                  ELSE flags[r]]
        /\ http_pending' = [r \in RecIds |-> IF r \in New THEN {<<r, 0>>}
                                                         ELSE http_pending[r]]
        /\ UNCHANGED addr_current
    BY DEF device_management_start
  <1>2. Len(StaticConf) \in Nat /\ StaticFirst \subseteq 1..Len(StaticConf)
    BY DEF StaticFirst
  <1>3. \A r \in New : r >= nextRec
    BY <1>a, <1>2
  <1>4. \A n \in Names : device_table[n] = NoRec
    BY <1>1 DEF FInv, IdleEmpty, IdlePhases
  <1>5. FreshAddr'
    <2> SUFFICES ASSUME NEW x \in RecIds, x >= nextRec'
                 PROVE  addr_current'[x] = 0
      BY DEF FreshAddr
    <2>1. x >= nextRec
      BY <1>1, <1>2, <1>a DEF RecIds
    <2>2. QED
      BY <2>1, <1>1 DEF FInv, FreshAddr
  <1>6. PendingCurrent'
    <2> SUFFICES ASSUME NEW x \in RecIds
                 PROVE  http_pending'[x] \subseteq {<<x, addr_current'[x]>>}
      BY DEF PendingCurrent
    <2>1. CASE x \in New
      <3>1. addr_current[x] = 0
        BY <2>1, <1>3 DEF FInv, FreshAddr
      <3>2. QED
        BY <2>1, <3>1, <1>1
    <2>2. CASE x \notin New
      BY <2>2, <1>1 DEF FInv, PendingCurrent
    <2>3. QED
      BY <2>1, <2>2
  <1>7. ReadyListed'
    <2> SUFFICES ASSUME NEW x \in RecIds, READY \in flags'[x]
                 PROVE  LISTED \in flags'[x] /\ INIT_WAIT \notin flags'[x]
      BY DEF ReadyListed
    <2>1. x \notin New
      BY <1>1 DEF READY, LISTED, INIT_WAIT
    <2>2. QED
      BY <2>1, <1>1 DEF FInv, ReadyListed
  <1>8. NameTable'
    <2> SUFFICES ASSUME NEW x \in RecIds, LISTED \in flags'[x]
                 PROVE  device_table'[name'[x]] = x
      BY DEF NameTable
    <2>1. CASE x \in New
      <3>1. PICK i \in StaticFirst : x = rec(i)
        BY <2>1
      <3>2. i \in 1..Len(StaticConf) /\ x - nextRec + 1 = i
        BY <3>1, <1>2, <1>a
      <3>3. name'[x] = StaticConf[i] /\ StaticConf[i] \in Names
        BY <2>1, <3>2, <1>1
      <3>4. (CHOOSE j \in StaticFirst : StaticConf[j] = StaticConf[i]) = i
        BY StaticFirstUnique
      <3>5. QED
        BY <3>1, <3>3, <3>4, <1>1
    <2>2. CASE x \notin New
      <3>1. LISTED \in flags[x]
        BY <2>2, <1>1
      <3>2. device_table[name[x]] = x /\ name[x] \in Names
        BY <3>1, <1>a DEF FInv, NameTable
      <3>3. QED
        BY <3>2, <1>4 DEF RecIds
    <2>3. QED
      BY <2>1, <2>2
  <1>9. IdleEmpty'
    BY <1>1 DEF IdleEmpty, IdlePhases
  <1>10. QED
    BY <1>0, <1>5, <1>6, <1>7, <1>8, <1>9 DEF FInv

(* device_found keeps FInv: the new record's only request is for its     *)
(* first address, and its name was free in the table.                      *)
LEMMA FoundFInv ==
  ASSUME FInv, NEW n \in Names, NEW k \in 1..MaxAddrs, device_found(n, k)
  PROVE  FInv'
  <1> DEFINE r == nextRec
  <1>0. IInv'
    BY NextIInv DEF FInv, Next
  <1>a. /\ nextRec \in 1..(MaxRecords + 1)
        /\ device_table \in [Names -> RecIds \cup {NoRec}]
        /\ flags \in [RecIds -> SUBSET Flags]
        /\ name \in [RecIds -> Names]
        /\ addr_current \in [RecIds -> 0..MaxAddrs]
        /\ http_pending \in [RecIds -> SUBSET Msgs]
    BY DEF FInv, IInv, TypeOK
  <1>r. r \in RecIds /\ r \in Nat
    BY <1>a DEF device_found, RecIds
  <1>1. /\ phase = "running" /\ device_table[n] = NoRec
        /\ r \in RecIds
        /\ nextRec' = r + 1
        /\ device_table' = [device_table EXCEPT ![n] = r]
        /\ name' = [name EXCEPT ![r] = n]
        /\ \E F \in {{LISTED, INIT_WAIT}, {LISTED}} : flags' = [flags EXCEPT ![r] = F]
        /\ addr_current' = [addr_current EXCEPT ![r] = 1]
        /\ http_pending' = [http_pending EXCEPT ![r] = {<<r, 1>>}]
        /\ UNCHANGED phase
    BY <1>r DEF device_found
  <1>2. PICK F \in {{LISTED, INIT_WAIT}, {LISTED}} : flags' = [flags EXCEPT ![r] = F]
    BY <1>1
  <1>3. READY \notin F /\ LISTED \in F
    BY DEF READY, LISTED, INIT_WAIT
  <1>4. flags[r] = {}
    BY <1>r DEF FInv, IInv, Fresh
  <1>5. FreshAddr'
    <2> SUFFICES ASSUME NEW x \in RecIds, x >= nextRec'
                 PROVE  addr_current'[x] = 0
      BY DEF FreshAddr
    <2>1. x # r /\ x >= nextRec
      BY <1>1, <1>r DEF RecIds
    <2>2. QED
      BY <2>1, <1>1, <1>a DEF FInv, FreshAddr
  <1>6. PendingCurrent'
    BY <1>1, <1>a DEF FInv, PendingCurrent
  <1>7. ReadyListed'
    BY <1>1, <1>2, <1>3, <1>a DEF FInv, ReadyListed
  <1>8. NameTable'
    <2> SUFFICES ASSUME NEW x \in RecIds, LISTED \in flags'[x]
                 PROVE  device_table'[name'[x]] = x
      BY DEF NameTable
    <2>1. CASE x = r
      BY <2>1, <1>1, <1>a
    <2>2. CASE x # r
      <3>1. LISTED \in flags[x] /\ name'[x] = name[x]
        BY <2>2, <1>1, <1>2, <1>a
      <3>2. device_table[name[x]] = x /\ name[x] \in Names
        BY <3>1, <1>a DEF FInv, NameTable
      <3>3. name[x] # n
        BY <3>2, <1>1 DEF RecIds
      <3>4. QED
        BY <3>1, <3>2, <3>3, <1>1, <1>a
    <2>3. QED
      BY <2>1, <2>2
  <1>9. IdleEmpty'
    BY <1>1 DEF IdleEmpty, IdlePhases
  <1>10. QED
    BY <1>0, <1>5, <1>6, <1>7, <1>8, <1>9 DEF FInv

(* The capability callback keeps FInv: the completed request was the only *)
(* pending one, so probing the next address leaves exactly its request,   *)
(* and DEVICE_READY is set on a listed device while DEVICE_INIT_WAIT goes. *)
LEMMA CallbackFInv ==
  ASSUME FInv, NEW m \in Msgs, NEW ok \in BOOLEAN,
         device_scanner_capabilities_callback(m, ok)
  PROVE  FInv'
  <1> DEFINE r == m[1]
             p == [http_pending EXCEPT ![r] = @ \ {m}]
             q == session \ {m}
  <1>0. IInv'
    BY NextIInv DEF FInv, Next
  <1>a. /\ nextRec \in 1..(MaxRecords + 1)
        /\ flags \in [RecIds -> SUBSET Flags]
        /\ addr_current \in [RecIds -> 0..MaxAddrs]
        /\ http_pending \in [RecIds -> SUBSET Msgs]
    BY DEF FInv, IInv, TypeOK
  <1>1. /\ m \in session /\ r \in RecIds
        /\ UNCHANGED <<phase, nextRec, name>>
    BY DEF device_scanner_capabilities_callback, Msgs
  <1>2. m \in http_pending[r] /\ LISTED \in flags[r]
    BY <1>1 DEF FInv, IInv, SessionTracked
  <1>3. p[r] = {} /\ p \in [RecIds -> SUBSET Msgs]
    BY <1>1, <1>2, <1>a DEF FInv, PendingCurrent
  <1>4. \A x \in RecIds : p[x] \subseteq {<<x, addr_current[x]>>}
    BY <1>3, <1>a DEF FInv, PendingCurrent
  <1>5. r < nextRec
    <2>1. r >= nextRec => flags[r] = {}
      BY <1>1 DEF FInv, IInv, Fresh
    <2>2. QED
      BY <2>1, <1>1, <1>2, <1>a DEF RecIds
  <1>6. CASE /\ ok
             /\ CapsReady(r)
             /\ http_pending' = p
             /\ session' = q
             /\ UNCHANGED <<device_table, refcnt, addr_current>>
    <2>1. FreshAddr' /\ PendingCurrent' /\ IdleEmpty'
      BY <1>6, <1>1, <1>4 DEF FInv, FreshAddr, PendingCurrent, IdleEmpty
    <2>2. ReadyListed'
      BY <1>6, <1>2, <1>a DEF CapsReady, FInv, ReadyListed, READY, LISTED, INIT_WAIT
    <2>3. NameTable'
      <3>1. \A x \in RecIds : LISTED \in flags'[x] <=> LISTED \in flags[x]
        BY <1>6, <1>a DEF CapsReady, READY, LISTED, INIT_WAIT
      <3>2. QED
        BY <3>1, <1>6, <1>1 DEF FInv, NameTable
    <2>4. QED
      BY <1>0, <2>1, <2>2, <2>3 DEF FInv
  <1>7. CASE /\ ~ok
             /\ HasNextAddr(r)
             /\ ProbeNext(r, p, q)
             /\ UNCHANGED <<device_table, flags, refcnt>>
    <2>1. /\ addr_current' = [addr_current EXCEPT ![r] = @ + 1]
          /\ http_pending' = [p EXCEPT ![r] = @ \cup {<<r, addr_current[r] + 1>>}]
      BY <1>7 DEF ProbeNext
    <2>2. FreshAddr'
      <3> SUFFICES ASSUME NEW x \in RecIds, x >= nextRec'
                   PROVE  addr_current'[x] = 0
        BY DEF FreshAddr
      <3>1. x # r /\ x >= nextRec
        BY <1>1, <1>5, <1>a DEF RecIds
      <3>2. QED
        BY <3>1, <2>1, <1>a DEF FInv, FreshAddr
    <2>3. PendingCurrent'
      <3> SUFFICES ASSUME NEW x \in RecIds
                   PROVE  http_pending'[x] \subseteq {<<x, addr_current'[x]>>}
        BY DEF PendingCurrent
      <3>1. CASE x = r
        BY <3>1, <2>1, <1>3, <1>a
      <3>2. CASE x # r
        BY <3>2, <2>1, <1>4, <1>a
      <3>3. QED
        BY <3>1, <3>2
    <2>4. ReadyListed' /\ NameTable' /\ IdleEmpty'
      BY <1>7, <1>1 DEF FInv, ReadyListed, NameTable, IdleEmpty
    <2>5. QED
      BY <1>0, <2>2, <2>3, <2>4 DEF FInv
  <1>8. CASE /\ ~ok
             /\ ~HasNextAddr(r)
             /\ GiveUp(r, p, q)
    <2>1. DeviceDel({r}, p, q) /\ http_pending' = p /\ UNCHANGED addr_current
      BY <1>8 DEF GiveUp
    <2>2. QED
      BY <2>1, <1>0, <1>1, <1>2, <1>4, DelFInv DEF FInv
  <1>9. QED
    BY <1>6, <1>7, <1>8 DEF device_scanner_capabilities_callback

(* Every step keeps FInv.                                                  *)
LEMMA NextFInv == FInv /\ [Next]_vars => FInv'
  <1> SUFFICES ASSUME FInv, [Next]_vars PROVE FInv'
    OBVIOUS
  <1>0. IInv'
    BY NextIInv DEF FInv
  <1>a. /\ http_pending \in [RecIds -> SUBSET Msgs]
        /\ device_table \in [Names -> RecIds \cup {NoRec}]
    BY DEF FInv, IInv, TypeOK
  <1>b. \A x \in RecIds : http_pending[x] \subseteq {<<x, addr_current[x]>>}
    BY DEF FInv, PendingCurrent
  <1>1. CASE device_management_start
    BY <1>1, StartFInv
  <1>2. CASE device_management_stop
    <2>1. /\ DeviceDel(Listed, http_pending, {})
          /\ http_pending' = http_pending
          /\ phase' = "stopped" /\ Listed = Listed
          /\ UNCHANGED <<nextRec, name, addr_current>>
      BY <1>2 DEF device_management_stop
    <2>2. Listed \subseteq RecIds /\ \A r \in Listed : LISTED \in flags[r]
      BY <1>a DEF Listed, FInv, IInv, TableListed
    <2>3. QED
      BY <2>1, <2>2, <1>0, <1>b, DelFInv DEF FInv
  <1>3. ASSUME NEW n \in Names, NEW k \in 1..MaxAddrs, device_found(n, k)
        PROVE  FInv'
    BY <1>3, FoundFInv
  <1>4. ASSUME NEW n \in Names, device_removed(n)
        PROVE  FInv'
    <2>1. /\ DeviceDel({device_table[n]}, http_pending, session)
          /\ http_pending' = http_pending
          /\ UNCHANGED <<phase, nextRec, name, addr_current>>
      BY <1>4 DEF device_removed
    <2>2. {device_table[n]} \subseteq RecIds /\ LISTED \in flags[device_table[n]]
      BY <1>4, <1>a DEF device_removed, FInv, IInv, TableListed
    <2>3. QED
      BY <2>1, <2>2, <1>0, <1>b, DelFInv DEF FInv
  <1>5. ASSUME NEW m \in Msgs, NEW ok \in BOOLEAN,
               device_scanner_capabilities_callback(m, ok)
        PROVE  FInv'
    BY <1>5, CallbackFInv
  <1>6. CASE \/ device_init_scan_finished
             \/ \E n \in Names : device_open(n)
             \/ \E r \in RecIds : device_close(r)
             \/ \E c \in Callers : \/ list_start(c) \/ list_wait(c)
                                   \/ list_return(c) \/ list_timeout(c)
                                   \/ list_spurious_wakeup(c)
             \/ UNCHANGED vars
    <2>1. /\ UNCHANGED <<phase, device_table, nextRec, name, addr_current, http_pending>>
          /\ \A x \in RecIds : LISTED \in flags'[x] <=> LISTED \in flags[x]
          /\ \A x \in RecIds : READY \in flags'[x] <=> READY \in flags[x]
          /\ \A x \in RecIds : INIT_WAIT \in flags'[x] <=> INIT_WAIT \in flags[x]
      BY <1>6 DEF device_init_scan_finished, device_open, device_close,
         list_start, list_wait, list_return, list_timeout, list_spurious_wakeup,
         ListVars, devVars, vars
    <2>2. QED
      BY <2>1, <1>0 DEF FInv, FreshAddr, PendingCurrent, ReadyListed, NameTable,
         IdleEmpty
  <1>7. CASE device_management_cleanup
    <2>1. phase \in {"init", "stopped"} /\ phase \in IdlePhases
      BY <1>7 DEF device_management_cleanup, IdlePhases
    <2>2. \A n \in Names : device_table[n] = NoRec
      BY <2>1 DEF FInv, IdleEmpty
    <2>5. Listed = {}
      BY <2>2 DEF Listed
    <2>3. /\ phase' = "cleaned"
          /\ UNCHANGED <<device_table, nextRec, name, flags, addr_current, http_pending>>
      BY <1>7, <2>5 DEF device_management_cleanup, devVars
    <2>4. QED
      BY <2>2, <2>3, <1>0 DEF FInv, FreshAddr, PendingCurrent, ReadyListed, NameTable,
         IdleEmpty, IdlePhases
  <1>8. CASE device_management_init
    <2>1. /\ phase = "cleaned" /\ phase' = "init"
          /\ device_table' = [n \in Names |-> NoRec]
          /\ UNCHANGED <<nextRec, name, flags, addr_current, http_pending>>
      BY <1>8 DEF device_management_init, devVars
    <2>2. \A n \in Names : device_table[n] = NoRec
      BY <2>1 DEF FInv, IdleEmpty, IdlePhases
    <2>3. \A r \in RecIds : LISTED \notin flags[r]
      <3> SUFFICES ASSUME NEW r \in RecIds, LISTED \in flags[r] PROVE FALSE
        OBVIOUS
      <3>1. device_table[name[r]] = r /\ name[r] \in Names
        BY DEF FInv, NameTable, IInv, TypeOK
      <3>2. QED
        BY <3>1, <2>2 DEF RecIds
    <2>4. NameTable'
      BY <2>1, <2>3 DEF NameTable
    <2>5. QED
      BY <2>1, <2>4, <1>0 DEF FInv, FreshAddr, PendingCurrent, ReadyListed,
         IdleEmpty, IdlePhases
  <1>9. QED
    BY <1>1, <1>2, <1>3, <1>4, <1>5, <1>6, <1>7, <1>8 DEF Next
-----------------------------------------------------------------------------
(* FInv gives SequentialProbe: a queued request is in its device's        *)
(* http_pending (SessionTracked), which holds only the current probe.     *)
LEMMA FInvSequentialProbe == FInv => SequentialProbe
  <1> SUFFICES ASSUME FInv, NEW m \in session
               PROVE  m[2] = addr_current[m[1]] /\ m \in http_pending[m[1]]
    BY DEF SequentialProbe
  <1>1. m[1] \in RecIds /\ m \in http_pending[m[1]]
    BY DEF FInv, IInv, TypeOK, SessionTracked, Msgs
  <1>2. m = <<m[1], addr_current[m[1]]>>
    BY <1>1 DEF FInv, PendingCurrent
  <1>3. QED
    BY <1>1, <1>2

(* FInv gives FlagsConsistent.                                             *)
LEMMA FInvFlagsConsistent == FInv => FlagsConsistent
  <1> SUFFICES ASSUME FInv, NEW r \in RecIds
               PROVE  /\ READY \in flags[r] => LISTED \in flags[r] /\ INIT_WAIT \notin flags[r]
                      /\ HALTED \in flags[r] => LISTED \notin flags[r] /\ READY \notin flags[r]
                      /\ LISTED \in flags[r] <=> device_table[name[r]] = r
    BY DEF FlagsConsistent
  <1>1. READY \in flags[r] => LISTED \in flags[r] /\ INIT_WAIT \notin flags[r]
    BY DEF FInv, ReadyListed
  <1>2. HALTED \in flags[r] => LISTED \notin flags[r]
    BY DEF FInv, IInv, LiveOrHalted
  <1>3. LISTED \in flags[r] => device_table[name[r]] = r
    BY DEF FInv, NameTable
  <1>4. device_table[name[r]] = r => LISTED \in flags[r]
    <2>1. name[r] \in Names
      BY DEF FInv, IInv, TypeOK
    <2>2. r # NoRec
      BY DEF RecIds
    <2>3. QED
      BY <2>1, <2>2 DEF FInv, IInv, TableListed
  <1>5. QED
    BY <1>1, <1>2, <1>3, <1>4

(* Address probing is sequential in every reachable state, for every      *)
(* value of the constants: device_probe_address only ever has the request *)
(* for dev->addr_current in flight, and device_del will find it in        *)
(* http_pending.                                                           *)
THEOREM ProbeSequential == Spec => []SequentialProbe
  <1>1. Spec => []FInv
    BY InitFInv, NextFInv, PTL DEF Spec
  <1>2. QED
    BY <1>1, FInvSequentialProbe, PTL

(* The device flags and the table agree in every reachable state: ready   *)
(* implies listed and out of DEVICE_INIT_WAIT, halted implies neither      *)
(* listed nor ready, and DEVICE_LISTED holds exactly when the table maps  *)
(* the record's name to it, whatever order the static configuration,      *)
(* ZeroConf, the callbacks and stop run in.                                *)
THEOREM FlagsAgree == Spec => []FlagsConsistent
  <1>1. Spec => []FInv
    BY InitFInv, NextFInv, PTL DEF Spec
  <1>2. QED
    BY <1>1, FInvFlagsConsistent, PTL

(* sane_exit never aborts: device_management_cleanup runs before          *)
(* device_management_start or after device_management_stop, and in both   *)
(* cases the table is empty, so its g_assert holds, through any number of *)
(* init/start/stop/cleanup cycles, for every value of the constants.      *)
THEOREM CleanupSafe == Spec => []NoCleanupAbort
  <1>1. Spec => []FInv
    BY InitFInv, NextFInv, PTL DEF Spec
  <1>2. FInv => NoCleanupAbort
    BY DEF FInv, IdleEmpty, NoCleanupAbort
  <1>3. QED
    BY <1>1, <1>2, PTL
=============================================================================
