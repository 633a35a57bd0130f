---------------------------- MODULE AirscanDevice ----------------------------
(***************************************************************************)
(* Device management of the sane-airscan backend (src/airscan-device.c).  *)
(*                                                                         *)
(* Every handler below runs to completion under the event-loop lock: the  *)
(* ZeroConf notifications, the libsoup completion callbacks and the SANE  *)
(* entry points (device_open, device_close, device_list_get) all hold it. *)
(* The only place a thread gives the lock up in the middle of an          *)
(* operation is the eloop_cond_wait of device_list_get, so that loop is a *)
(* small process of its own (lister[c]); every other handler is one step. *)
(*                                                                         *)
(* A device record is identified by its address in memory: a number of    *)
(* RecIds, handed out in order and never reused (MaxRecords bounds how    *)
(* many devices a behaviour may create).  A capability request is        *)
(* identified by <<record, address index>>: index k >= 1 is the k-th      *)
(* entry of the ZeroConf address list, index 0 is the fixed URI of a      *)
(* statically configured device (addresses = NULL).  The address list    *)
(* itself is abstracted to its length, since whether a probe succeeds is  *)
(* chosen when its answer arrives.                                        *)
(***************************************************************************)
EXTENDS Naturals, Sequences, FiniteSets

CONSTANTS
    Names,        \* device names ZeroConf or the configuration may use
    StaticConf,   \* conf.devices: names of statically configured devices
    MaxRecords,   \* bound on device records ever allocated (g_new0)
    MaxAddrs,     \* bound on the length of a ZeroConf address list
    MaxOpen,      \* bound on simultaneously open handles of one record
    Callers,      \* SANE threads that may call device_list_get
    NoRec         \* NULL: device_find found nothing

ASSUME ConstAssumption ==
    /\ MaxRecords \in Nat
    /\ MaxAddrs \in Nat \ {0}
    /\ MaxOpen \in Nat
    /\ StaticConf \in Seq(Names)
    /\ NoRec \notin 1..MaxRecords
    /\ Names # {}

RecIds == 1..MaxRecords

\* A capability request: the record it was issued for and the address index
Msgs == RecIds \X (0..MaxAddrs)

\* The device flags (enum at the top of airscan-device.c)
LISTED == "LISTED"
READY == "READY"
HALTED == "HALTED"
INIT_WAIT == "INIT_WAIT"
Flags == {LISTED, READY, HALTED, INIT_WAIT}

\* The phases of the subsystem; "aborted" is a failed g_assert
Phases == {"init", "running", "stopped", "cleaned", "aborted"}

VARIABLES
    phase,          \* "init" | "running" | "stopped" | "cleaned" | "aborted":
                    \* device_management_init/start/stop/cleanup
    initScan,       \* zeroconf_init_scan(): the initial ZeroConf sweep is running
    device_table,   \* GTree name -> device*, NoRec when absent
    nextRec,        \* the next record g_new0 hands out
    name,           \* dev->name
    flags,          \* dev->flags
    refcnt,         \* dev->refcnt
    addresses,      \* length of dev->addresses; 0 for a static device
    addr_current,   \* index of dev->addr_current; 0 is NULL
    http_pending,   \* dev->http_pending: requests recorded by device_http_get
    session,        \* messages queued in device_http_session, not yet completed
    handles,        \* handles returned by device_open and not yet closed
    lister,         \* where each caller is in device_list_get
    expired         \* the caller's device_list_get deadline has passed

vars == <<phase, initScan, device_table, nextRec, name, flags, refcnt,
          addresses, addr_current, http_pending, session, handles, lister,
          expired>>

devVars == <<name, flags, refcnt, addresses, addr_current, http_pending>>

TypeOK ==
    /\ phase \in Phases
    /\ initScan \in BOOLEAN
    /\ device_table \in [Names -> RecIds \cup {NoRec}]
    /\ nextRec \in 1..(MaxRecords + 1)
    /\ name \in [RecIds -> Names]
    /\ flags \in [RecIds -> SUBSET Flags]
    /\ refcnt \in [RecIds -> Nat]
    /\ addresses \in [RecIds -> 0..MaxAddrs]
    /\ addr_current \in [RecIds -> 0..MaxAddrs]
    /\ http_pending \in [RecIds -> SUBSET Msgs]
    /\ session \in SUBSET Msgs
    /\ handles \in [RecIds -> Nat]
    /\ lister \in [Callers -> {"idle", "check", "blocked"}]
    /\ expired \in [Callers -> BOOLEAN]

-----------------------------------------------------------------------------
(* Derived state                                                           *)

\* A record has been created by device_add: it is listed, or halted since
Allocated(r) == flags[r] # {}

\* The record's memory has been released by device_unref
Freed(r) == Allocated(r) /\ refcnt[r] = 0

Listed == {device_table[n] : n \in Names} \ {NoRec}

\* device_table_ready: no device in the table has DEVICE_INIT_WAIT
TableReady == \A r \in Listed : INIT_WAIT \notin flags[r]

\* Mutant: the loop no longer re-tests the deadline
ListMustWait_nodeadline(c) == ~TableReady \/ initScan

\* The condition the loop of device_list_get keeps waiting on
ListMustWait(c) == (~TableReady \/ initScan) /\ ~expired[c]

\* g_cond_broadcast(&device_table_cond): every blocked waiter re-checks
Broadcast == [c \in Callers |-> IF lister[c] = "blocked" THEN "check"
                                                         ELSE lister[c]]

\* Positions of conf.devices whose name did not occur earlier in the list:
\* device_add_static skips a name that is already in the table.
StaticFirst == {i \in 1..Len(StaticConf) :
                   \A j \in 1..(i - 1) : StaticConf[j] # StaticConf[i]}

-----------------------------------------------------------------------------
(* device_del for every record of D, given the pending arrays p and the    *)
(* session queue q at the moment it runs.  The record leaves the table,   *)
(* every message of http_pending is cancelled (its callback sees          *)
(* SOUP_STATUS_CANCELLED and leaves the record alone), the record is      *)
(* halted and the table's reference is dropped.                          *)
\* Mutant: device_del forgets to cancel http_pending
DeviceDel_nocancel(D, p, q) ==
    /\ device_table' = [n \in Names |->
                          IF device_table[n] \in D THEN NoRec
                                                   ELSE device_table[n]]
    /\ flags' = [r \in RecIds |->
                   IF r \in D THEN (flags[r] \ {LISTED, READY}) \cup {HALTED}
                              ELSE flags[r]]
    /\ refcnt' = [r \in RecIds |-> IF r \in D THEN refcnt[r] - 1
                                              ELSE refcnt[r]]
    /\ session' = q

DeviceDel(D, p, q) ==
    /\ device_table' = [n \in Names |->
                          IF device_table[n] \in D THEN NoRec
                                                   ELSE device_table[n]]
    /\ flags' = [r \in RecIds |->
                   IF r \in D THEN (flags[r] \ {LISTED, READY}) \cup {HALTED}
                              ELSE flags[r]]
    /\ refcnt' = [r \in RecIds |-> IF r \in D THEN refcnt[r] - 1
                                              ELSE refcnt[r]]
    /\ session' = q \ UNION {p[r] : r \in D}

-----------------------------------------------------------------------------
Init ==
    /\ phase = "init"
    /\ initScan = TRUE
    /\ device_table = [n \in Names |-> NoRec]
    /\ nextRec = 1
    /\ name = [r \in RecIds |-> CHOOSE n \in Names : TRUE]
    /\ flags = [r \in RecIds |-> {}]
    /\ refcnt = [r \in RecIds |-> 0]
    /\ addresses = [r \in RecIds |-> 0]
    /\ addr_current = [r \in RecIds |-> 0]
    /\ http_pending = [r \in RecIds |-> {}]
    /\ session = {}
    /\ handles = [r \in RecIds |-> 0]
    /\ lister = [c \in Callers |-> "idle"]
    /\ expired = [c \in Callers |-> FALSE]

(* device_management_start: add every statically configured device         *)
(* (device_add_static) and fetch its capabilities at its fixed URI.        *)
device_management_start ==
    LET rec(i) == nextRec + i - 1
        New == {rec(i) : i \in StaticFirst}
        confOf(r) == StaticConf[r - nextRec + 1]
    IN
    /\ phase = "init"
    /\ nextRec + Len(StaticConf) <= MaxRecords + 1
    /\ phase' = "running"
    /\ nextRec' = nextRec + Len(StaticConf)
    /\ device_table' = [n \in Names |->
                          IF \E i \in StaticFirst : StaticConf[i] = n
                          THEN rec(CHOOSE i \in StaticFirst : StaticConf[i] = n)
                          ELSE device_table[n]]
    /\ name' = [r \in RecIds |-> IF r \in New THEN confOf(r) ELSE name[r]]
    /\ flags' = [r \in RecIds |->
                   IF r \in New THEN {LISTED, INIT_WAIT} ELSE flags[r]]
    /\ refcnt' = [r \in RecIds |-> IF r \in New THEN 1 ELSE refcnt[r]]
    /\ http_pending' = [r \in RecIds |->
                          IF r \in New THEN {<<r, 0>>} ELSE http_pending[r]]
    /\ session' = session \cup {<<r, 0>> : r \in New}
    /\ UNCHANGED <<initScan, addresses, addr_current, handles, lister,
                   expired>>

\* Mutant: stop aborts the session but forgets device_table_purge
device_management_stop_nopurge ==
    /\ phase = "running"
    /\ phase' = "stopped"
    /\ session' = {}
    /\ UNCHANGED <<initScan, device_table, nextRec, devVars, handles, lister,
                   expired>>

(* device_management_stop: soup_session_abort cancels every queued message *)
(* (the callbacks see SOUP_STATUS_CANCELLED and do nothing), then          *)
(* device_table_purge runs device_del on every device of the table.        *)
device_management_stop ==
    /\ phase = "running"
    /\ phase' = "stopped"
    /\ DeviceDel(Listed, http_pending, {})
    /\ UNCHANGED <<initScan, nextRec, name, addresses, addr_current,
                   http_pending, handles, lister, expired>>

\* Mutant: device_found without the device_find check
device_found_nodup(n, k) ==
    LET r == nextRec IN
    /\ phase = "running"
    /\ nextRec <= MaxRecords
    /\ nextRec' = nextRec + 1
    /\ device_table' = [device_table EXCEPT ![n] = r]
    /\ name' = [name EXCEPT ![r] = n]
    /\ flags' = [flags EXCEPT ![r] = IF initScan THEN {LISTED, INIT_WAIT}
                                                 ELSE {LISTED}]
    /\ refcnt' = [refcnt EXCEPT ![r] = 1]
    /\ addresses' = [addresses EXCEPT ![r] = k]
    /\ addr_current' = [addr_current EXCEPT ![r] = 1]
    /\ http_pending' = [http_pending EXCEPT ![r] = {<<r, 1>>}]
    /\ session' = session \cup {<<r, 1>>}
    /\ UNCHANGED <<phase, initScan, handles, lister, expired>>

(* device_management_cleanup (sane_exit, after the event loop has run      *)
(* device_management_stop): g_assert that the table is empty, then the     *)
(* GTree and the GCond are destroyed.  A failed g_assert aborts.           *)
device_management_cleanup ==
    /\ phase \in {"init", "stopped"}
    /\ phase' = IF Listed = {} THEN "cleaned" ELSE "aborted"
    /\ UNCHANGED <<initScan, device_table, nextRec, devVars, session, handles,
                   lister, expired>>

(* device_management_init (sane_init again): a new, empty GTree.          *)
device_management_init ==
    /\ phase = "cleaned"
    /\ phase' = "init"
    /\ device_table' = [n \in Names |-> NoRec]
    /\ UNCHANGED <<initScan, nextRec, devVars, session, handles, lister, expired>>

(* device_found: ignored when the name is already in the table; otherwise  *)
(* device_add creates a listed record holding one reference, marks it      *)
(* DEVICE_INIT_WAIT when ZeroConf's initial scan is running, copies the    *)
(* k addresses and device_probe_address issues the capability request to  *)
(* the first of them (device_http_get queues it and records it).           *)
device_found(n, k) ==
    LET r == nextRec IN
    /\ phase = "running"
    /\ device_table[n] = NoRec
    /\ nextRec <= MaxRecords
    /\ nextRec' = nextRec + 1
    /\ device_table' = [device_table EXCEPT ![n] = r]
    /\ name' = [name EXCEPT ![r] = n]
    /\ flags' = [flags EXCEPT ![r] = IF initScan THEN {LISTED, INIT_WAIT}
                                                 ELSE {LISTED}]
    /\ refcnt' = [refcnt EXCEPT ![r] = 1]
    /\ addresses' = [addresses EXCEPT ![r] = k]
    /\ addr_current' = [addr_current EXCEPT ![r] = 1]
    /\ http_pending' = [http_pending EXCEPT ![r] = {<<r, 1>>}]
    /\ session' = session \cup {<<r, 1>>}
    /\ UNCHANGED <<phase, initScan, handles, lister, expired>>

(* device_removed: device_del of the named device, if there is one.  It   *)
(* does not broadcast device_table_cond.                                  *)
device_removed(n) ==
    /\ phase = "running"
    /\ device_table[n] # NoRec
    /\ DeviceDel({device_table[n]}, http_pending, session)
    /\ UNCHANGED <<phase, initScan, nextRec, name, addresses, addr_current,
                   http_pending, handles, lister, expired>>

(* device_init_scan_finished: ZeroConf's initial sweep is over (after     *)
(* which zeroconf_init_scan() is false); wake every waiter.               *)
device_init_scan_finished ==
    /\ phase = "running"
    /\ initScan
    /\ initScan' = FALSE
    /\ lister' = Broadcast
    /\ UNCHANGED <<phase, device_table, nextRec, devVars, session, handles,
                   expired>>

(* The callback's three outcomes, for record r, once m has left the     *)
(* pending array (p) and the session queue (q).                            *)

\* Mutant: the success path leaves DEVICE_INIT_WAIT set
CapsReady_keepwait(r) ==
    flags' = [flags EXCEPT ![r] = @ \cup {READY}]

\* Capabilities parsed: an initial source is chosen, the device is ready
CapsReady(r) ==
    flags' = [flags EXCEPT ![r] = (@ \cup {READY}) \ {INIT_WAIT}]

\* dev->addr_current != NULL && dev->addr_current->next != NULL
HasNextAddr(r) == addr_current[r] # 0 /\ addr_current[r] < addresses[r]

\* Mutant: device_probe_address does not move dev->addr_current
ProbeNext_nocur(r, p, q) ==
    LET next == <<r, addr_current[r] + 1>> IN
    /\ http_pending' = [p EXCEPT ![r] = @ \cup {next}]
    /\ session' = q \cup {next}
    /\ UNCHANGED addr_current

\* device_probe_address(dev, dev->addr_current->next): move to the next
\* address and request its ScannerCapabilities (device_http_get)
ProbeNext(r, p, q) ==
    LET next == <<r, addr_current[r] + 1>> IN
    /\ addr_current' = [addr_current EXCEPT ![r] = @ + 1]
    /\ http_pending' = [p EXCEPT ![r] = @ \cup {next}]
    /\ session' = q \cup {next}

\* Mutant: the last failure does not delete the device
GiveUp_nodel(r, p, q) ==
    /\ http_pending' = p
    /\ session' = q
    /\ UNCHANGED <<device_table, flags, refcnt, addr_current>>

\* No address left (or a static device): device_del
GiveUp(r, p, q) ==
    /\ http_pending' = p
    /\ DeviceDel({r}, p, q)
    /\ UNCHANGED addr_current

(* Completion of request m that was not cancelled: device_http_callback   *)
(* removes m from http_pending and runs device_scanner_capabilities_      *)
(* callback.  ok is whether the status was successful, the XML parsed and *)
(* devcaps_parse accepted it.  On success the device becomes ready; on    *)
(* failure the next address is probed, or, when there is none (or the     *)
(* device is static), the device is deleted.  Either way the callback     *)
(* ends by broadcasting device_table_cond.                                *)
device_scanner_capabilities_callback(m, ok) ==
    LET r == m[1]
        p == [http_pending EXCEPT ![r] = @ \ {m}]
        q == session \ {m}
    IN
    /\ m \in session
    /\ lister' = Broadcast
    /\ \/ /\ ok
          /\ CapsReady(r)
          /\ http_pending' = p
          /\ session' = q
          /\ UNCHANGED <<device_table, refcnt, addr_current>>
       \/ /\ ~ok
          /\ HasNextAddr(r)
          /\ ProbeNext(r, p, q)
          /\ UNCHANGED <<device_table, flags, refcnt>>
       \/ /\ ~ok
          /\ ~HasNextAddr(r)
          /\ GiveUp(r, p, q)
    /\ UNCHANGED <<phase, initScan, nextRec, name, addresses, handles,
                   expired>>

\* Mutant: device_open hands out the device without device_ref
device_open_noref(n) ==
    LET r == device_table[n] IN
    /\ r # NoRec
    /\ READY \in flags[r]
    /\ handles[r] < MaxOpen
    /\ handles' = [handles EXCEPT ![r] = @ + 1]
    /\ UNCHANGED <<phase, initScan, device_table, nextRec, name, flags, refcnt,
                   addresses, addr_current, http_pending, session, lister,
                   expired>>

(* device_open: a handle to a listed, ready device takes a reference.      *)
device_open(n) ==
    LET r == device_table[n] IN
    /\ r # NoRec
    /\ READY \in flags[r]
    /\ handles[r] < MaxOpen
    /\ refcnt' = [refcnt EXCEPT ![r] = @ + 1]
    /\ handles' = [handles EXCEPT ![r] = @ + 1]
    /\ UNCHANGED <<phase, initScan, device_table, nextRec, name, flags,
                   addresses, addr_current, http_pending, session, lister,
                   expired>>

\* Mutant: device_close without a handle to close
device_close_unguarded(r) ==
    /\ refcnt' = [refcnt EXCEPT ![r] = @ - 1]
    /\ handles' = [handles EXCEPT ![r] = @ - 1]
    /\ UNCHANGED <<phase, initScan, device_table, nextRec, name, flags,
                   addresses, addr_current, http_pending, session, lister,
                   expired>>

(* device_close: device_unref drops the handle's reference; the record is *)
(* freed when it was the last one.                                         *)
device_close(r) ==
    /\ handles[r] > 0
    /\ refcnt' = [refcnt EXCEPT ![r] = @ - 1]
    /\ handles' = [handles EXCEPT ![r] = @ - 1]
    /\ UNCHANGED <<phase, initScan, device_table, nextRec, name, flags,
                   addresses, addr_current, http_pending, session, lister,
                   expired>>

-----------------------------------------------------------------------------
(* device_list_get, for caller c.  The call computes its deadline and     *)
(* enters the loop; each test of the loop condition either waits on       *)
(* device_table_cond (releasing the lock) or leaves the loop and builds   *)
(* the list of DEVICE_READY devices under the lock, which is returned.    *)

ListVars == <<phase, initScan, device_table, nextRec, devVars, session,
              handles>>

list_start(c) ==
    /\ lister[c] = "idle"
    /\ lister' = [lister EXCEPT ![c] = "check"]
    /\ expired' = [expired EXCEPT ![c] = FALSE]
    /\ UNCHANGED ListVars

list_wait(c) ==
    /\ lister[c] = "check"
    /\ ListMustWait(c)
    /\ lister' = [lister EXCEPT ![c] = "blocked"]
    /\ UNCHANGED <<ListVars, expired>>

list_return(c) ==
    /\ lister[c] = "check"
    /\ ~ListMustWait(c)
    /\ lister' = [lister EXCEPT ![c] = "idle"]
    /\ UNCHANGED <<ListVars, expired>>

(* The monotonic clock passes c's deadline; eloop_cond_wait returns.       *)
list_timeout(c) ==
    /\ lister[c] \in {"check", "blocked"}
    /\ ~expired[c]
    /\ expired' = [expired EXCEPT ![c] = TRUE]
    /\ lister' = [lister EXCEPT ![c] = "check"]
    /\ UNCHANGED ListVars

(* eloop_cond_wait (g_cond_wait_until) may return without a broadcast.     *)
list_spurious_wakeup(c) ==
    /\ lister[c] = "blocked"
    /\ lister' = [lister EXCEPT ![c] = "check"]
    /\ UNCHANGED <<ListVars, expired>>

-----------------------------------------------------------------------------
Next ==
    \/ device_management_start
    \/ device_management_stop
    \/ device_management_cleanup
    \/ device_management_init
    \/ \E n \in Names, k \in 1..MaxAddrs : device_found(n, k)
    \/ \E n \in Names : device_removed(n)
    \/ device_init_scan_finished
    \/ \E m \in Msgs, ok \in BOOLEAN : device_scanner_capabilities_callback(m, ok)
    \/ \E n \in Names : device_open(n)
    \/ \E r \in RecIds : device_close(r)
    \/ \E c \in Callers : \/ list_start(c) \/ list_wait(c)
                          \/ list_return(c) \/ list_timeout(c)
                          \/ list_spurious_wakeup(c)

(* Fairness.  libsoup eventually completes every queued request (the       *)
(* network answers or the connection fails); the monotonic clock passes   *)
(* every deadline; a caller inside device_list_get keeps running.  ZeroConf *)
(* events, the end of the initial scan and SANE calls are not assumed.    *)
Fairness ==
    /\ \A m \in Msgs : WF_vars(\E ok \in BOOLEAN :
                                 device_scanner_capabilities_callback(m, ok))
    /\ \A c \in Callers : /\ WF_vars(list_wait(c) \/ list_return(c))
                          /\ WF_vars(list_timeout(c))

Spec == Init /\ [][Next]_vars /\ Fairness

-----------------------------------------------------------------------------
(* Properties                                                              *)

(* Reference counting (device_ref/device_unref, device_del, device_close): *)
(* a record whose last reference is gone is never reached again -- no     *)
(* table entry or open handle points at it -- and it was halted and       *)
(* unlisted first, as device_unref asserts.  (Queued requests are         *)
(* NoIOAfterHalt's business.)                                              *)
NoUseAfterFree ==
    \A r \in RecIds : Freed(r) =>
        /\ HALTED \in flags[r]
        /\ LISTED \notin flags[r]
        /\ handles[r] = 0
        /\ \A n \in Names : device_table[n] # r

\* The fields of record r that a handler could write
RecordOf(r) == <<name[r], flags[r], refcnt[r], addresses[r], addr_current[r],
                 http_pending[r], handles[r]>>

(* Nothing writes to a freed record: once device_unref has released a     *)
(* device, no handler (a late capability callback, device_close, a        *)
(* ZeroConf event, stop's purge) changes any of its fields.  This is the  *)
(* use after free itself, where NoUseAfterFree says only that no          *)
(* reference to the record is left.                                        *)
NoWriteAfterFree ==
    [][\A r \in RecIds : Freed(r) => RecordOf(r)' = RecordOf(r)]_vars

(* device_del cancels the whole of http_pending before it sets            *)
(* DEVICE_HALTED, so no capability callback can ever run for a halted     *)
(* device, whichever event removed it and whenever its request was due.   *)
NoIOAfterHalt ==
    \A m \in session : HALTED \notin flags[m[1]]

(* Address probing is sequential: a queued capability request is the one *)
(* for the device's current address (so a device has at most one), and   *)
(* it is recorded in http_pending, where device_del will find it.          *)
SequentialProbe ==
    \A m \in session : /\ m[2] = addr_current[m[1]]
                       /\ m \in http_pending[m[1]]

(* The flags agree with each other and with the table: a ready device is  *)
(* listed and no longer in DEVICE_INIT_WAIT, a halted one is neither      *)
(* listed nor ready, and a record is DEVICE_LISTED exactly when the table *)
(* maps its name to it.                                                    *)
FlagsConsistent ==
    \A r \in RecIds :
        /\ READY \in flags[r] => LISTED \in flags[r] /\ INIT_WAIT \notin flags[r]
        /\ HALTED \in flags[r] => LISTED \notin flags[r] /\ READY \notin flags[r]
        /\ LISTED \in flags[r] <=> device_table[name[r]] = r

(* Every device in the table is eventually resolved: it becomes ready or  *)
(* it leaves the table (all its addresses failed, it was removed, or the  *)
(* subsystem stopped).  It cannot stay pending with nothing in flight.     *)
EventuallyResolved ==
    \A r \in RecIds : (LISTED \in flags[r] /\ READY \notin flags[r])
                        ~> (READY \in flags[r] \/ LISTED \notin flags[r])

(* device_list_get returns: however long the initial scan runs and        *)
(* whatever the devices do, the loop re-tests its deadline after every    *)
(* wake-up, so a caller never waits past DEVICE_TABLE_READY_TIMEOUT.       *)
ListReturns ==
    \A c \in Callers : lister[c] # "idle" ~> lister[c] = "idle"

(* A caller blocked on device_table_cond is blocked for a reason: had the *)
(* table become ready with the initial scan over, someone would have      *)
(* broadcast the condition.  Otherwise the caller sleeps until its         *)
(* deadline although its answer is already there.                          *)
NoLostWakeup ==
    \A c \in Callers : lister[c] = "blocked" => ListMustWait(c)

(* device_management_cleanup's g_assert holds: whatever ZeroConf, the     *)
(* callbacks and the SANE callers did during a cycle, device_management_   *)
(* stop leaves no device in the table, and nothing adds one afterwards.   *)
NoCleanupAbort == phase # "aborted"

-----------------------------------------------------------------------------
(* Refinement.  Seen from outside, a name is absent when the table has no *)
(* record for it, ready when its record is DEVICE_READY, pending          *)
(* otherwise; the phase is the subsystem's own.                            *)
RegistryOf(n) ==
    IF device_table[n] = NoRec THEN "absent"
    ELSE IF READY \in flags[device_table[n]] THEN "ready"
    ELSE "pending"

Registry == INSTANCE DeviceRegistry
                WITH registry <- [n \in Names |-> RegistryOf(n)],
                     StaticNames <- {StaticConf[i] : i \in StaticFirst}

(* The device table implements the abstract registry: every step of the   *)
(* handlers is a registry step or leaves the registry alone (a ready      *)
(* device is never found again or made pending; a device is dropped only  *)
(* after its last address failed, by ZeroConf or by stop), and every name *)
(* that is pending is eventually resolved or failed.                       *)
RegistrySpec == Registry!Spec
=============================================================================
