# TLA+ verification of sane-airscan's device management

This directory holds a TLA+ model of `src/airscan-device.c`, the device
management layer of the sane-airscan (eSCL) SANE backend, and of its scan
options. It contains:

* an abstract specification of the device registry, with the model shown to
  refine it;
* TLC configurations that model-check the models on small instances;
* TLAPS proofs of the main safety properties and of the refinement, for
  every value of the constants.

## The system

`airscan-device.c` keeps a **device table**: a GTree from device name to a
reference-counted `struct device`. Four kinds of code change it, and all of
them run under the event-loop (`eloop`) lock, one at a time:

* **Init, start, stop and cleanup.** `device_management_init` creates an
  empty table, and `device_management_cleanup` (from `sane_exit`)
  `g_assert`s that the table is empty before it destroys it.
  `device_management_start` adds every statically
  configured device (`device_add_static`, which skips a name already in the
  table). It then asks each one for its `ScannerCapabilities` at its fixed
  URI. `device_management_stop` aborts the HTTP session
  (`soup_session_abort`) and purges the table (`device_table_purge` runs
  `device_del` on every entry).
* **ZeroConf.** `device_found` creates a device for a new name. It is marked
  `DEVICE_INIT_WAIT` while the initial ZeroConf scan runs, and its first
  address is probed (`device_probe_address`). `device_removed` deletes it.
  `device_init_scan_finished` wakes the waiters of `device_table_cond`.
* **libsoup callbacks.** A capability request completes through
  `device_http_callback`. If the request was not cancelled, this removes the
  message from `dev->http_pending` and runs
  `device_scanner_capabilities_callback`. On success the device becomes
  `DEVICE_READY` and leaves `DEVICE_INIT_WAIT`. On failure the next address is
  probed, or the device is deleted if no address is left. Either way
  `device_table_cond` is broadcast.
* **SANE threads.** `device_list_get` waits, for at most 5 s, until no listed
  device is in `DEVICE_INIT_WAIT` and the initial scan is over. Its wait
  (`eloop_cond_wait`) is the only place where the lock is released in the
  middle of an operation. It then lists the ready devices. `device_open` takes
  a reference to a listed, ready device; `device_close` drops it.

On success the callback also sets up the device's **scan options**:

* it picks the first source the parsed capabilities contain, and
  `g_assert`s that there is one;
* `device_set_source` chooses a colour mode and a resolution for that source
  and sets the scan window to the source's full extent;
* `device_rebuild_opt_desc` rebuilds the option descriptors, whose
  constraints come from the source.

`device_get_option` and `dev_get_option_descriptor` let SANE read the values
and the descriptors.

`device_del` unlists the device, cancels everything in `http_pending`, sets
`DEVICE_HALTED`, clears `DEVICE_READY` and drops the table's reference. The
record is freed when the last reference goes: the table's, or that of an open
handle.

## Modules

| Module | Models |
|---|---|
| `AirscanDevice` | The device table, record lifetime, the capability probe, init/start/stop/cleanup, ZeroConf events, open/close and the `device_list_get` wait loop. It also holds the properties and the refinement mapping to `DeviceRegistry`. |
| `DeviceRegistry` | The abstract specification: each name is absent, pending or ready, inside a lifecycle init -> running -> stopped -> cleaned -> init. |
| `AirscanOptions`, `MCAirscanOptions` | The option state of one device: the success path of the capability callback, `device_set_source`, `device_rebuild_opt_desc`, `device_get_option` and `dev_get_option_descriptor`. The MC module gives two source shapes on three source slots. |
| `MCAirscanDevice` | The small instance for TLC: names `n1`, `n2`; static configuration `<<n1, n1>>` (a duplicate, which `device_add_static` must skip, on a name ZeroConf can also find); one SANE caller `c1`. |
| `AirscanDeviceProofs` | The inductive invariant `IInv` and the proofs of type correctness, `NoUseAfterFree`, `NoIOAfterHalt` and `NoWriteAfterFree`. |
| `AirscanDeviceFlagsProofs` | The stronger invariant `FInv` and the proofs of `SequentialProbe`, `FlagsConsistent` and `NoCleanupAbort`. |
| `AirscanDeviceRegistryProofs` | The proof that `AirscanDevice` refines the safety part of `DeviceRegistry`. |
| `AirscanOptionsProofs` | The inductive invariant `OInv` and the proofs of the options module's `TypeOK` and `OptionsInDescriptors`. |

### State

| Variable | Code |
|---|---|
| `device_table` | the GTree: name -> record id, or `NoRec` (NULL from `device_find`) |
| `nextRec` | the next record `g_new0` hands out; record ids are never reused |
| `name`, `flags`, `refcnt` | `dev->name`, `dev->flags`, `dev->refcnt` |
| `addresses`, `addr_current` | the length of `dev->addresses` and the index of `dev->addr_current`; 0 is a static device or NULL |
| `http_pending` | `dev->http_pending`, a set of requests `<<record, address index>>` |
| `session` | requests libsoup still has queued (not yet completed or cancelled) |
| `handles` | handles `device_open` returned and `device_close` has not yet released |
| `phase`, `initScan` | the lifecycle (`init`, `running`, `stopped`, `cleaned`, or `aborted` when cleanup's `g_assert` fails), and `zeroconf_init_scan()` |
| `lister`, `expired` | where each SANE caller is in `device_list_get`, and whether its deadline passed |

The data are abstracted to what the properties tell apart:

* An address is an index. Whether it answers is chosen when its request
  completes.
* Capabilities are a success/failure outcome.
* Names are model values.

The control flow is kept whole. Each action is a whole handler: `device_del`
(`DeviceDel`) is part of every action that calls it, with the pending array
and the session queue as they are at that point. Every guard and early return
(a duplicate name, `dev == NULL`, a device that is not ready) is a conjunct.

### Actions

* `device_management_init`, `device_management_start`,
  `device_management_stop`, `device_management_cleanup`. Cleanup of a table
  that is already destroyed (`device_table == NULL`) changes nothing, so it
  is a stutter. The phases allow any number of cycles. ZeroConf events are
  modelled only while running, because the eloop delivers them between
  start and stop.
* `device_found(n, k)`, with k addresses
* `device_removed(n)`, `device_init_scan_finished`
* `device_scanner_capabilities_callback(m, ok)`. Its three disjuncts are
  `CapsReady`, `ProbeNext` and `GiveUp`. A cancelled completion changes no
  device state, so it is not a step of its own: cancelling simply removes the
  message from `session`. `device_http_session` is a plain `SoupSession`
  (`soup_session_new`, line 119). It queues a cancelled message's callback
  to the main loop and keeps the message alive until then. So the cancels of
  `soup_session_abort` (130) and of `device_del` (228) both act on live
  messages, and the model needs no state for them.
* `device_open(n)`, `device_close(r)`
* `device_list_get` as five steps:
  * `list_start` computes the deadline;
  * `list_wait` and `list_return` are the loop test under the lock, with the
    list built atomically on return;
  * `list_timeout` is the clock passing the deadline;
  * `list_spurious_wakeup` is `g_cond_wait_until` returning early.

## Runs

| Run | cfg | Result | Shows |
|---|---|---|---|
| `device_lifecycle` | `MCAirscanDevice.cfg` | pass, about 139,000 states | `TypeOK`, `NoUseAfterFree`, `NoIOAfterHalt`, `SequentialProbe`, `FlagsConsistent`, `NoCleanupAbort`, `EventuallyResolved`, `ListReturns`, `NoWriteAfterFree` |
| `registry_refinement` | `MC_Registry.cfg` | pass | `RegistrySpec`: the model implements `DeviceRegistry!Spec`, fairness included |
| `lost_wakeup` | `MC_NoLostWakeup.cfg` (`ContractSpec`) | violation | `NoLostWakeup` fails: see finding 1 |
| `options` | `MCAirscanOptions.cfg` | pass, about 1,600 states | `TypeOK`, `OptionsInDescriptors` |
| `get_option_br` | `MC_GetOptionInConstraint.cfg` | violation | `GetOptionInConstraint` fails: see finding 2 |

The properties:

* `NoUseAfterFree`: a record whose `refcnt` reached 0 is halted, unlisted, not
  in the table and has no open handle. These are the two asserts of
  `device_unref`, plus reachability.
* `NoIOAfterHalt`: no request of a halted device is still queued, so no
  callback ever runs on a halted (possibly freed) device.
* `NoWriteAfterFree` (action property): no step changes any field of a
  freed record. This is the use after free itself. `NoUseAfterFree` says only
  that nothing refers to the record any more. A late capability callback, a
  `device_close` without a handle or a ZeroConf event on a stale entry would
  each break it.
* `SequentialProbe`: a queued request is for its device's current address
  and is recorded in `http_pending`, where `device_del` will find it.
* `FlagsConsistent`: `READY` implies listed and not `INIT_WAIT`; `HALTED`
  implies neither listed nor ready; `DEVICE_LISTED` holds exactly when the
  table maps the record's name to it.
* `EventuallyResolved` (liveness): every listed device that is not ready
  eventually becomes ready or leaves the table.
* `ListReturns` (liveness): every `device_list_get` returns.
* `NoCleanupAbort`: the `g_assert` in `device_management_cleanup` never
  fails, however init, start, stop and cleanup follow each other. This needs
  `device_table_purge` in stop.
* `RegistrySpec`: seen through `RegistryOf`, the model is a behaviour of
  `DeviceRegistry`. `RegistryOf(n)` is absent when `device_find` gives NULL,
  ready when the record has `DEVICE_READY`, and pending otherwise. So a ready
  name never goes back to pending; a name is found only when absent; it
  leaves only by removal, failure or stop; cleanup happens only with no name
  left; and, under the fairness of the callbacks, no name stays pending for
  ever.
* `OptionsInDescriptors`: once the device is ready, every option value lies
  in the constraint its descriptor advertises, and the source is one the
  device has. Breaking it takes a disagreement between `device_set_source`
  and `device_rebuild_opt_desc` for some source the first-source loop can
  pick.

Each property of the passing run has a mutant: a plausible bug in the mapped
code that TLC then catches. The mutants are listed in `PROJECT.json`:

* close without a handle;
* open without `device_ref`;
* `device_del` that does not cancel (`NoIOAfterHalt`, and `NoWriteAfterFree`:
  the late callback then writes to the freed record);
* a probe that does not advance `addr_current`;
* success that keeps `INIT_WAIT`;
* a last failure that does not delete the device;
* a wait loop that ignores its deadline;
* a stop that does not purge the table (`NoCleanupAbort`);
* a `device_found` without its `device_find` check (`RegistrySpec`: a ready
  name would become pending again);
* a `BR_X` descriptor built from the `tl_x` range (`OptionsInDescriptors`);
* a colour mode reported as its enum rather than its SANE string (`TypeOK`
  of the options).

**Bounds.** Four records cover two static entries (one skipped as a
duplicate) plus a ZeroConf device and a re-found one. Two addresses let a
failure fall through to a second probe. One open handle lets a device be
removed while it is open. One caller is enough for the wait loop, because the
callers do not interact except through the table.

**Fairness** (`Fairness` in `AirscanDevice`):

* Weak fairness for each request's completion. This assumes libsoup
  eventually completes or fails every queued request.
* Weak fairness for the caller's loop test and for its deadline. The
  monotonic clock advances, and a thread that holds the lock keeps running.
* ZeroConf events, the end of the initial scan and SANE calls are not fair.
  Nothing in the code forces them.

**Options instance.** `MCAirscanOptions` has three source slots and two
source shapes:

* a flatbed with two colour modes, a discrete resolution list and a window
  larger than the feeder's;
* a feeder with one colour mode and a resolution range.

Every assignment of shapes or NULL to the slots that leaves at least one
source is a possible parsed document. A document without a source is not
one: spec 4.4 says a source must exist for a valid capability document, and
the `g_assert` after the first-source loop (692) relies on it. The model
states this contract as `ParsedCapsAssumption`. The `g_assert` is the guard
`FirstSource(c) # NUM_OPT_SOURCE` of `device_caps_accepted`, and the contract
discharges it. That covers:

* a first source that is not at slot 0;
* both the list and the range branches of the resolution choice;
* the clamp of the default resolution, which is outside both.

The devcaps helpers `devcaps_source_choose_colormode` and
`devcaps_source_choose_resolution` are not under `src/`. They are modelled
from the spec: any supported colour mode, and any listed resolution or the
default clamped into the range.

### Findings

1. **Lost wake-up in `device_removed`** (`src/airscan-device.c:355-362`).
   `device_removed` calls `device_del` without `g_cond_broadcast`, unlike the
   capability callback (699) and `device_init_scan_finished` (369). A device
   in `DEVICE_INIT_WAIT` that disappears can make the table ready, but a
   caller blocked in `device_list_get` then sleeps until its 5 s deadline.
   The run checks `ContractSpec` (in `MCAirscanDevice`), which is `Spec`
   restricted by the SANE calling contract that `sane_exit`, and so
   `device_management_stop`, never runs while a `sane_get_devices` is in
   progress. TLC's trace:
   1. start adds the static device `n1` in `DEVICE_INIT_WAIT`, with the caller
      idle;
   2. the initial scan finishes, with the caller still idle;
   3. the caller enters `device_list_get`;
   4. the caller finds the table not ready and blocks;
   5. ZeroConf reports `n1` removed. `device_removed` finds it by name and
      deletes it. The table is now ready and the scan is over, but nobody
      wakes the caller.

2. **`device_get_option` reports the top-left corner for the bottom-right**
   (`src/airscan-device.c:546-552`). `OPT_SCAN_BR_X` returns `opt_tl_x`, and
   `OPT_SCAN_BR_Y` returns `opt_tl_y`. A frontend reads 0, outside the
   `br_x`/`br_y` range the descriptor advertises, although `opt_br_x` and
   `opt_br_y` hold the right values.

## Proofs

Four modules hold TLAPS proofs. The theorems about the device model hold for
every value of the constants, under `ConstAssumption`. The theorems about the
options module also rest on `SourceCapsAssumption` (see below).

`AirscanDeviceProofs` proves:

* `InvariantHolds`: `Spec => []IInv`;
* `TypeCorrect`: `Spec => []TypeOK`;
* `UseAfterFreeSafe`: `Spec => []NoUseAfterFree`;
* `HaltSilencesIO`: `Spec => []NoIOAfterHalt`;
* `NoWriteAfterFreeHolds`: `Spec => NoWriteAfterFree`.

`TypeOK` is not inductive by itself, because `device_del` and `device_close`
decrement `refcnt`. `IInv` strengthens it with:

* `RefCount`: `refcnt` is 1 for the table's reference while listed, plus
  the open handles;
* `TableListed`: every table entry is a listed record already handed out;
* `Fresh`: records not yet handed out are untouched;
* `SessionTracked`: every queued request is in its record's `http_pending`,
  and that record is listed;
* `LiveOrHalted`: a created record is listed or halted, never both.

The proof of `IInv` has these parts:

* `InitIInv`: `Init => IInv`.
* `DelIInv`: any call of `device_del` on listed records, given a consistent
  pending array and queue, keeps `IInv`. It is used by stop, by
  `device_removed` and by the callback's last failure.
* `NextIInv`: one step per action, and one sub-step per conjunct the action
  can disturb.
* The safety properties follow from `IInv`:
  * `NoUseAfterFree` from `RefCount`, `TableListed` and `LiveOrHalted`;
  * `NoIOAfterHalt` from `SessionTracked` and `LiveOrHalted`.
* `FreedUntouched`: given `IInv`, every step leaves a freed record's fields
  as they were. The argument goes action by action:
  * A freed record is not in the table, not listed and has no handle, so
    `device_del`, `device_open` and `device_close` never reach it.
  * No queued request names it (`SessionTracked`), so no callback runs on it.
  * It lies below `nextRec` (`Fresh`), so `device_found` and start write to
    other records.
  * `DelOutside` says that `device_del` leaves every record outside its
    argument unchanged.
  * The action property then follows from `[]IInv` by PTL.

`AirscanDeviceFlagsProofs` proves:

* `ProbeSequential`: `Spec => []SequentialProbe`;
* `FlagsAgree`: `Spec => []FlagsConsistent`;
* `CleanupSafe`: `Spec => []NoCleanupAbort`.

All three use `FInv`, which is `IInv` plus:

* `PendingCurrent`: `http_pending` holds at most the request for
  `addr_current`. A probe is started only from the callback of the previous
  one.
* `FreshAddr`: a record not yet handed out has `addr_current` NULL.
* `ReadyListed`: `DEVICE_READY` is set only on a listed device, which leaves
  `DEVICE_INIT_WAIT`, and `device_del` clears it.
* `NameTable`: a listed record is what the table holds under its name. This
  rests on the duplicate checks of `device_found` and `device_add_static`.
  `StaticFirstUnique` shows that two kept configuration entries never share a
  name.
* `IdleEmpty`: the phase is never `aborted`, and in the phases `init`,
  `stopped` and `cleaned` the table is empty. Stop empties it (`DelFInv`
  takes the hypothesis that a `device_del` into `stopped` deletes all of
  `Listed`), init makes a fresh one, and cleanup therefore always finds it
  empty. This one conjunct gives both `CleanupSafe` and the empty table that
  `StartFInv` needs.

There is one lemma per action that needs more than a frame argument:
`StartFInv`, `FoundFInv`, `CallbackFInv` and `DelFInv`.

Before each proof was attempted, TLC checked every invariant on the run's
instance. `FInv` was also checked on the configuration `<<n1, n2, n1>>` with
five records.

`AirscanDeviceRegistryProofs` proves `RegistryRefined`:
`Spec => Registry!SafeSpec`. Its argument:

* `RInv` adds two facts to `FInv`. `QueuedNotReady` says a device with a
  queued request is not ready. `TableNamed` says a table entry's record
  carries the entry's name.
* `InitRefines`: the initial state maps to the abstract initial state.
* `StepRefines`: every step, given `RInv`, maps to an abstract step or a
  stutter. `RegistryExcept` and `DelOneRegistry` compute the mapped registry
  after a one-name change and after `device_del` of one record.
  * start maps to `Start`, and stop to `Stop`;
  * cleanup maps to `Cleanup`, and init to `Reinit`;
  * `device_found` maps to `Found`, and `device_removed` to `Remove`;
  * the callback maps to `Resolve` on success, to `Fail` when it gives up,
    and to a stutter when it probes the next address;
  * every other action is a stutter.
* `QueuedNotReady` is what makes a completed probe a step from pending.

`AirscanOptionsProofs` proves:

* `OptTypeCorrect`: `Spec => []TypeOK` for the options module;
* `OptionsConsistent`: `Spec => []OptionsInDescriptors`.

**Assumption.** Both theorems rest on `SourceCapsAssumption`, stated in
`AirscanOptions`. It is what `devcaps_parse`, which is not under `src/`,
guarantees of a parsed source:
* its colour modes are known modes;
* its resolutions are integers;
* each range has integer bounds with `min <= max`;
* the top-left ranges contain 0.

The spec (4.4) lets the callback recompute the options "within that source's
advertised constraints". Without the assumption, a descriptor could advertise
an empty range. The `options` run evaluates the assumption on its instance.

**Invariant.** `OInv` is `TypeOK /\ ReadyChosen /\ OptionsInDescriptors`.
`ReadyChosen` says that once the device is ready, `opt_src` is a real source
slot and `opt_colormode` a known mode. Without it, `OptionsInDescriptors`
is not inductive.

**Lemmas.**
* `FirstSourcePresent` shows that the first-source loop of the callback picks
  a slot that holds a source, whenever it finds one. The loop is modelled as
  a `CHOOSE` of the least present index. Its existence comes from the
  well-foundedness of `<` on `Nat` (`WFMin` of `WellFoundedInduction`).
* `RebuildType` and `SetSourceInDescriptors` show that `device_set_source`
  and `device_rebuild_opt_desc` agree, option by option.

`OInv` was checked by TLC on the options instance before it was proved.

**Only model-checked:**

* the liveness properties (`EventuallyResolved`, `ListReturns`) and the
  fairness part of `RegistrySpec`.

TLAPS does not reason about fairness or ENABLED, so liveness stays with TLC.

## Not modelled

* **Setting options from SANE.** `airscan-device.c` has no entry point that
  sets an option. The options change only in the capability callback, and
  that is modelled.
* **The devcaps parser.** `devcaps_parse` and the choice helpers are the
  environment: a parsed document is any assignment of source shapes to
  slots, and the helpers are modelled from the spec. What the model and
  the proofs assume of the parser is `ParsedCapsAssumption` and
  `SourceCapsAssumption` (see Proofs).
* **External subsystems.** eloop, Avahi, libsoup and the XML parser are the
  environment, as described above.
* **`device_list_free`, URL construction and logging.**

## Plan

1. Several SANE callers in `device_list_get` at once, and larger instances
   of the device model.
2. A fault model for libsoup that may drop a completion, with
   `EventuallyResolved` weakened to what the deadline still guarantees.
3. A composition of `AirscanOptions` with the device table, so that options
   are rebuilt on every successful probe of a re-found device.
