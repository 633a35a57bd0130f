---------------------------- MODULE AirscanOptions ----------------------------
(***************************************************************************)
(* The option model of one device (src/airscan-device.c): the end of the  *)
(* ScannerCapabilities callback once devcaps_parse has accepted the       *)
(* document (the initial source is chosen and device_set_source derives   *)
(* every other option from it and rebuilds the option descriptors), and  *)
(* the two SANE entry points that read options, device_get_option and     *)
(* dev_get_option_descriptor.  The failure branches of the callback and   *)
(* the device's place in the table are modelled in AirscanDevice; this    *)
(* module refines its CapsReady step with the option state.              *)
(*                                                                         *)
(* A source's capabilities are one record of SourceCaps; geometry ranges  *)
(* are intervals, a descriptor's constraint is the set of values it       *)
(* admits (a range min..max, a word list or a string list alike).         *)
(***************************************************************************)
EXTENDS Integers

CONSTANTS
    NUM_OPT_SOURCE,  \* number of OPT_SOURCE values: sources 0..NUM_OPT_SOURCE-1
    ColorModes,      \* OPT_COLORMODE values a source may support
    SourceCaps,      \* devcaps_source records devcaps_parse may produce
    ParsedCaps,      \* dev->caps.src arrays devcaps_parse may accept
    NoSrc,           \* NULL: caps.src[i] absent
    UNKNOWN          \* OPT_SOURCE_UNKNOWN / OPT_COLORMODE_UNKNOWN

ASSUME OptAssumption ==
    /\ NUM_OPT_SOURCE \in Nat \ {0}
    /\ NoSrc \notin SourceCaps
    /\ UNKNOWN \notin ColorModes
    /\ ParsedCaps \subseteq [0..(NUM_OPT_SOURCE - 1) -> SourceCaps \cup {NoSrc}]

\* DEVICE_DEFAULT_RESOLUTION
DEVICE_DEFAULT_RESOLUTION == 300

\* The option indices, in the order of device_rebuild_opt_desc
OPT_NUM_OPTIONS == 0
OPT_GROUP_STANDARD == 1
OPT_SCAN_RESOLUTION == 2
OPT_SCAN_COLORMODE == 3
OPT_SCAN_SOURCE == 4
OPT_GROUP_GEOMETRY == 5
OPT_SCAN_TL_X == 6
OPT_SCAN_TL_Y == 7
OPT_SCAN_BR_X == 8
OPT_SCAN_BR_Y == 9
NUM_OPTIONS == 10

Options == 0..(NUM_OPTIONS - 1)
SrcIdx == 0..(NUM_OPT_SOURCE - 1)

\* SANE_CONSTRAINT_NONE, as memset leaves it and as OPT_NUM_OPTIONS has it
NoConstraint == [constrained |-> FALSE, allowed |-> {}]

\* A descriptor whose constraint admits exactly the values of S
Constraint(S) == [constrained |-> TRUE, allowed |-> S]

\* The NULL dev_get_option_descriptor returns for an option out of range
NULL == [null |-> TRUE]

\* The SANE string of an enumerated value (opt_colormode_to_sane,
\* opt_source_to_sane, the strings of sane_colormodes and sane_sources)
SaneName(x) == <<"sane", x>>

\* A range of devcaps, as the SANE_Range min..max it describes
SaneRange(rg) == rg.min..rg.max

\* A devcaps range: integer bounds, min not above max
IsRange(rg) == rg.min \in Int /\ rg.max \in Int /\ rg.min <= rg.max

(* What devcaps_parse (not under src/) guarantees of every source it      *)
(* accepts, and device_set_source relies on: colour modes of the enum,   *)
(* integer resolutions, well-formed ranges, and top-left ranges that      *)
(* contain 0, where device_set_source puts the window's corner (spec       *)
(* 4.4: changing the source recomputes every value within the source's   *)
(* advertised constraints).                                                *)
ASSUME SourceCapsAssumption ==
    \A s \in SourceCaps :
        /\ s.colormodes \subseteq ColorModes
        /\ s.discrete \in BOOLEAN
        /\ s.resolutions \subseteq Int
        /\ IsRange(s.res) /\ IsRange(s.tl_x) /\ IsRange(s.tl_y)
        /\ IsRange(s.br_x) /\ IsRange(s.br_y)
        /\ 0 \in SaneRange(s.tl_x) /\ 0 \in SaneRange(s.tl_y)

(* A document devcaps_parse accepts has at least one source: spec 4.4     *)
(* says one must exist for a valid capability document, which is what the *)
(* g_assert after the first-source loop relies on.                         *)
ASSUME ParsedCapsAssumption ==
    \A c \in ParsedCaps : \E i \in 0..(NUM_OPT_SOURCE - 1) : c[i] # NoSrc

VARIABLES
    status,          \* "probing" | "ready" (DEVICE_READY)
    caps,            \* dev->caps.src
    opt_src,         \* dev->opt_src
    opt_colormode,   \* dev->opt_colormode
    opt_resolution,  \* dev->opt_resolution
    opt_tl_x, opt_tl_y, opt_br_x, opt_br_y,
    opt_desc,        \* constraint of each dev->opt_desc[i]
    reply            \* what the last SANE call returned to its caller

vars == <<status, caps, opt_src, opt_colormode, opt_resolution,
          opt_tl_x, opt_tl_y, opt_br_x, opt_br_y, opt_desc, reply>>

NoReply == [call |-> "none"]

\* The values option o may have: a SANE string for the color mode and the
\* source, a SANE_Word for every other option
ValuesOf(o) ==
    IF o \in {OPT_SCAN_COLORMODE, OPT_SCAN_SOURCE}
    THEN {SaneName(x) : x \in ColorModes \cup SrcIdx}
    ELSE Int

\* The descriptors option o may have
DescsOf(o) ==
    {NoConstraint} \cup [constrained : {TRUE}, allowed : SUBSET ValuesOf(o)]

TypeOK ==
    /\ status \in {"probing", "ready"}
    /\ caps \in [SrcIdx -> SourceCaps \cup {NoSrc}]
    /\ opt_src \in SrcIdx \cup {UNKNOWN}
    /\ opt_colormode \in ColorModes \cup {UNKNOWN}
    /\ {opt_resolution, opt_tl_x, opt_tl_y, opt_br_x, opt_br_y} \subseteq Int
    /\ \A o \in Options : opt_desc[o] \in DescsOf(o)
    /\ \/ reply = NoReply
       \/ /\ reply \in [call : {"get"}, option : Int, status : {"INVAL"}]
       \/ /\ DOMAIN reply = {"call", "option", "status", "value"}
          /\ reply.call = "get" /\ reply.status = "GOOD"
          /\ reply.option \in Options
          /\ reply.value \in ValuesOf(reply.option)
       \/ /\ DOMAIN reply = {"call", "option", "desc"}
          /\ reply.call = "desc" /\ reply.option \in Int
          /\ reply.desc \in IF reply.option \in Options
                            THEN DescsOf(reply.option) ELSE {NULL}

-----------------------------------------------------------------------------
(* Helpers translated from the code                                        *)

\* The loop before the g_assert: the first source present in caps.src,
\* NUM_OPT_SOURCE when there is none
FirstSource(c) ==
    LET present == {i \in SrcIdx : c[i] # NoSrc} IN
    IF present = {} THEN NUM_OPT_SOURCE
                    ELSE CHOOSE i \in present : \A j \in present : i <= j

\* devcaps_source_choose_colormode(src, OPT_COLORMODE_UNKNOWN): one of the
\* source's color modes
ChooseColormode(s) == s.colormodes

\* devcaps_source_choose_resolution(src, DEVICE_DEFAULT_RESOLUTION): one of
\* a discrete list, or the default clamped into a continuous range
ChooseResolution(s) ==
    IF s.discrete THEN s.resolutions
    ELSE {IF DEVICE_DEFAULT_RESOLUTION < s.res.min THEN s.res.min
          ELSE IF DEVICE_DEFAULT_RESOLUTION > s.res.max THEN s.res.max
          ELSE DEVICE_DEFAULT_RESOLUTION}

\* caps.sane_sources: the names of the sources the device has
SaneSources(c) == {SaneName(i) : i \in {j \in SrcIdx : c[j] # NoSrc}}

\* Mutant: OPT_SCAN_BR_X is described with the top-left x range
device_rebuild_opt_desc_brcopy(c, i) ==
    LET s == c[i] IN
    [o \in Options |->
        CASE o = OPT_SCAN_RESOLUTION ->
                 Constraint(IF s.discrete THEN s.resolutions
                                          ELSE SaneRange(s.res))
          [] o = OPT_SCAN_COLORMODE -> Constraint({SaneName(m) : m \in s.colormodes})
          [] o = OPT_SCAN_SOURCE -> Constraint(SaneSources(c))
          [] o = OPT_SCAN_TL_X -> Constraint(SaneRange(s.tl_x))
          [] o = OPT_SCAN_TL_Y -> Constraint(SaneRange(s.tl_y))
          [] o = OPT_SCAN_BR_X -> Constraint(SaneRange(s.tl_x))
          [] o = OPT_SCAN_BR_Y -> Constraint(SaneRange(s.br_y))
          [] OTHER -> NoConstraint]

(* device_rebuild_opt_desc: every descriptor is cleared, then each value   *)
(* option is constrained by the current source: resolution by its word    *)
(* list or range, color mode by its color modes, source by the device's   *)
(* sources, the four coordinates by the source's geometry ranges.         *)
device_rebuild_opt_desc(c, i) ==
    LET s == c[i] IN
    [o \in Options |->
        CASE o = OPT_SCAN_RESOLUTION ->
                 Constraint(IF s.discrete THEN s.resolutions
                                          ELSE SaneRange(s.res))
          [] o = OPT_SCAN_COLORMODE -> Constraint({SaneName(m) : m \in s.colormodes})
          [] o = OPT_SCAN_SOURCE -> Constraint(SaneSources(c))
          [] o = OPT_SCAN_TL_X -> Constraint(SaneRange(s.tl_x))
          [] o = OPT_SCAN_TL_Y -> Constraint(SaneRange(s.tl_y))
          [] o = OPT_SCAN_BR_X -> Constraint(SaneRange(s.br_x))
          [] o = OPT_SCAN_BR_Y -> Constraint(SaneRange(s.br_y))
          [] OTHER -> NoConstraint]

(* device_set_source(dev, i) with dev->caps = c: the source is selected,  *)
(* color mode and resolution are chosen from it, the window is reset to  *)
(* the source's full extent and the descriptors are rebuilt.              *)
device_set_source(c, i) ==
    LET s == c[i] IN
    /\ opt_src' = i
    /\ opt_colormode' \in ChooseColormode(s)
    /\ opt_resolution' \in ChooseResolution(s)
    /\ opt_tl_x' = 0
    /\ opt_tl_y' = 0
    /\ opt_br_x' = s.br_x.max
    /\ opt_br_y' = s.br_y.max
    /\ opt_desc' = device_rebuild_opt_desc(c, i)

\* Mutant: the color mode is stored as its enum, not its SANE string
device_get_option_value_raw ==
    [o \in {OPT_NUM_OPTIONS, OPT_SCAN_RESOLUTION, OPT_SCAN_COLORMODE,
            OPT_SCAN_SOURCE, OPT_SCAN_TL_X, OPT_SCAN_TL_Y,
            OPT_SCAN_BR_X, OPT_SCAN_BR_Y} |->
        CASE o = OPT_NUM_OPTIONS -> NUM_OPTIONS
          [] o = OPT_SCAN_RESOLUTION -> opt_resolution
          [] o = OPT_SCAN_COLORMODE -> opt_colormode
          [] o = OPT_SCAN_SOURCE -> SaneName(opt_src)
          [] o = OPT_SCAN_TL_X -> opt_tl_x
          [] o = OPT_SCAN_TL_Y -> opt_tl_y
          [] o = OPT_SCAN_BR_X -> opt_tl_x
          [] o = OPT_SCAN_BR_Y -> opt_tl_y]

\* The value device_get_option reports for each option, from the device
\* fields it reads; INVAL options are absent
device_get_option_value ==
    [o \in {OPT_NUM_OPTIONS, OPT_SCAN_RESOLUTION, OPT_SCAN_COLORMODE,
            OPT_SCAN_SOURCE, OPT_SCAN_TL_X, OPT_SCAN_TL_Y,
            OPT_SCAN_BR_X, OPT_SCAN_BR_Y} |->
        CASE o = OPT_NUM_OPTIONS -> NUM_OPTIONS
          [] o = OPT_SCAN_RESOLUTION -> opt_resolution
          [] o = OPT_SCAN_COLORMODE -> SaneName(opt_colormode)
          [] o = OPT_SCAN_SOURCE -> SaneName(opt_src)
          [] o = OPT_SCAN_TL_X -> opt_tl_x
          [] o = OPT_SCAN_TL_Y -> opt_tl_y
          [] o = OPT_SCAN_BR_X -> opt_tl_x
          [] o = OPT_SCAN_BR_Y -> opt_tl_y]

\* The device's current setting of each value option
Setting ==
    [o \in {OPT_SCAN_RESOLUTION, OPT_SCAN_COLORMODE, OPT_SCAN_SOURCE,
            OPT_SCAN_TL_X, OPT_SCAN_TL_Y, OPT_SCAN_BR_X, OPT_SCAN_BR_Y} |->
        CASE o = OPT_SCAN_RESOLUTION -> opt_resolution
          [] o = OPT_SCAN_COLORMODE -> SaneName(opt_colormode)
          [] o = OPT_SCAN_SOURCE -> SaneName(opt_src)
          [] o = OPT_SCAN_TL_X -> opt_tl_x
          [] o = OPT_SCAN_TL_Y -> opt_tl_y
          [] o = OPT_SCAN_BR_X -> opt_br_x
          [] o = OPT_SCAN_BR_Y -> opt_br_y]

-----------------------------------------------------------------------------
(* device_add: g_new0 and devcaps_init leave no source, unknown source and *)
(* color mode, a zero window and zeroed descriptors.                      *)
Init ==
    /\ status = "probing"
    /\ caps = [i \in SrcIdx |-> NoSrc]
    /\ opt_src = UNKNOWN
    /\ opt_colormode = UNKNOWN
    /\ opt_resolution = 0
    /\ opt_tl_x = 0 /\ opt_tl_y = 0 /\ opt_br_x = 0 /\ opt_br_y = 0
    /\ opt_desc = [o \in Options |-> NoConstraint]
    /\ reply = NoReply

(* device_scanner_capabilities_callback after devcaps_parse accepted c:   *)
(* the first source present is chosen, the g_assert that one was found   *)
(* holds (ParsedCapsAssumption), device_set_source runs and the device    *)
(* becomes DEVICE_READY.                                                   *)
device_caps_accepted(c) ==
    /\ status = "probing"
    /\ FirstSource(c) # NUM_OPT_SOURCE
    /\ caps' = c
    /\ reply' = reply
    /\ device_set_source(c, FirstSource(c))
    /\ status' = "ready"

(* device_get_option on an open handle (device_open hands out only ready  *)
(* devices): the value of a value option, SANE_STATUS_INVAL otherwise.    *)
device_get_option(o) ==
    /\ status = "ready"
    /\ reply' = IF o \in DOMAIN device_get_option_value
                THEN [call |-> "get", option |-> o, status |-> "GOOD",
                      value |-> device_get_option_value[o]]
                ELSE [call |-> "get", option |-> o, status |-> "INVAL"]
    /\ UNCHANGED <<status, caps, opt_src, opt_colormode, opt_resolution,
                   opt_tl_x, opt_tl_y, opt_br_x, opt_br_y, opt_desc>>

(* dev_get_option_descriptor: the descriptor of an option in range, NULL   *)
(* otherwise.                                                              *)
dev_get_option_descriptor(o) ==
    /\ status = "ready"
    /\ reply' = [call |-> "desc", option |-> o,
                 desc |-> IF 0 <= o /\ o < NUM_OPTIONS THEN opt_desc[o]
                                                       ELSE NULL]
    /\ UNCHANGED <<status, caps, opt_src, opt_colormode, opt_resolution,
                   opt_tl_x, opt_tl_y, opt_br_x, opt_br_y, opt_desc>>

\* Option numbers a SANE frontend may pass, one beyond each end included
OptionArgs == -1..NUM_OPTIONS

Next ==
    \/ \E c \in ParsedCaps : device_caps_accepted(c)
    \/ \E o \in OptionArgs : device_get_option(o)
    \/ \E o \in OptionArgs : dev_get_option_descriptor(o)

Spec == Init /\ [][Next]_vars

-----------------------------------------------------------------------------
(* Properties                                                              *)

(* Once the device is ready, every option's current value lies within the *)
(* constraint its descriptor advertises, and the source is one the device *)
(* has: device_set_source and device_rebuild_opt_desc must agree on every *)
(* option, for whichever source the callback's loop picked.               *)
OptionsInDescriptors ==
    status = "ready" =>
        \A o \in DOMAIN Setting :
            /\ opt_desc[o].constrained
            /\ Setting[o] \in opt_desc[o].allowed

(* A value device_get_option reports lies within the constraint that       *)
(* dev_get_option_descriptor advertises for the same option, as a SANE   *)
(* frontend assumes (spec 4.5: the coordinates are constrained to the     *)
(* active source's geometry ranges).                                       *)
GetOptionInConstraint ==
    (reply.call = "get" /\ reply.status = "GOOD"
                        /\ opt_desc[reply.option].constrained)
        => reply.value \in opt_desc[reply.option].allowed
=============================================================================
