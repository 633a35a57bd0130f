--------------------------- MODULE MCAirscanDevice ---------------------------
(* Small instance of AirscanDevice for TLC.                                *)
EXTENDS AirscanDevice

CONSTANTS n1, n2, c1

MCNames == {n1, n2}

\* A static device configured twice (device_add_static skips the second),
\* named like a device ZeroConf may find
MCStaticConf == <<n1, n1>>

MCCallers == {c1}

(* The SANE calling contract: sane_exit, whose first step is              *)
(* device_management_stop, is never called while a sane_get_devices       *)
(* (device_list_get) of the same process is still running.                *)
SaneExitAfterList ==
    (phase = "running" /\ phase' = "stopped") =>
        \A c \in Callers : lister[c] = "idle"

\* The specification restricted to callers that keep the contract
ContractNext == Next /\ SaneExitAfterList

ContractSpec == Init /\ [][ContractNext]_vars
=============================================================================
