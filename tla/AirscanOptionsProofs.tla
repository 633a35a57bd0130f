------------------------- MODULE AirscanOptionsProofs -------------------------
(***************************************************************************)
(* Proofs about AirscanOptions, for every value of the constants.         *)
(*                                                                         *)
(* TypeOK is not inductive by itself: device_get_option reports the SANE  *)
(* string of opt_colormode and opt_src, which have their type only once   *)
(* the capability callback chose a source, i.e. while the device is       *)
(* ready.  OInv adds that fact and OptionsInDescriptors, which the        *)
(* callback establishes and the read-only entry points keep.              *)
(***************************************************************************)
EXTENDS AirscanOptions, TLAPS, WellFoundedInduction

\* A ready device has a real source and colour mode, not the UNKNOWN of
\* device_add
ReadyChosen ==
    status = "ready" =>
        /\ opt_src \in SrcIdx
        /\ opt_colormode \in ColorModes

OInv ==
    /\ TypeOK
    /\ ReadyChosen
    /\ OptionsInDescriptors
-----------------------------------------------------------------------------
USE OptAssumption

(* The loop before the g_assert: when it stops short of NUM_OPT_SOURCE it  *)
(* stops at a source that is present.  The CHOOSE of FirstSource has a    *)
(* witness because < is well-founded on Nat.                               *)
LEMMA FirstSourcePresent ==
  ASSUME NEW c \in [SrcIdx -> SourceCaps \cup {NoSrc}],
         FirstSource(c) # NUM_OPT_SOURCE
  PROVE  /\ FirstSource(c) \in SrcIdx
         /\ c[FirstSource(c)] \in SourceCaps
  <1> DEFINE present == {i \in SrcIdx : c[i] # NoSrc}
  <1>1. present # {}
    BY DEF FirstSource
  <1>2. present \subseteq Nat
    BY DEF SrcIdx
  <1>3. \E i \in present : \A j \in present : ~(<<j, i>> \in OpToRel(<, Nat))
    BY <1>1, <1>2, NatLessThanWellFounded, WFMin
  <1>4. \E i \in present : \A j \in present : i <= j
    <2>1. PICK i \in present : \A j \in present : ~(<<j, i>> \in OpToRel(<, Nat))
      BY <1>3
    <2>2. ASSUME NEW j \in present PROVE i <= j
      <3>1. j < i => <<j, i>> \in OpToRel(<, Nat)
        BY <1>2 DEF OpToRel
      <3>2. ~(j < i)
        BY <2>1, <3>1, Zenon
      <3>3. i \in Nat /\ j \in Nat
        BY <1>2
      <3>4. QED
        BY <3>2, <3>3
    <2>3. QED
      BY <2>2
  <1>5. FirstSource(c) = CHOOSE i \in present : \A j \in present : i <= j
    BY <1>1 DEF FirstSource
  <1>6. FirstSource(c) \in present
    BY <1>4, <1>5
  <1>7. QED
    BY <1>6

\* What SourceCapsAssumption says of one source, unfolded for the provers
LEMMA SourceFacts ==
  ASSUME NEW s \in SourceCaps
  PROVE  /\ s.colormodes \subseteq ColorModes
         /\ s.discrete \in BOOLEAN
         /\ s.resolutions \subseteq Int
         /\ s.res.min \in Int /\ s.res.max \in Int /\ s.res.min <= s.res.max
         /\ s.tl_x.min \in Int /\ s.tl_x.max \in Int /\ s.tl_x.min <= 0 /\ 0 <= s.tl_x.max
         /\ s.tl_y.min \in Int /\ s.tl_y.max \in Int /\ s.tl_y.min <= 0 /\ 0 <= s.tl_y.max
         /\ s.br_x.min \in Int /\ s.br_x.max \in Int /\ s.br_x.min <= s.br_x.max
         /\ s.br_y.min \in Int /\ s.br_y.max \in Int /\ s.br_y.min <= s.br_y.max
  BY SourceCapsAssumption DEF IsRange, SaneRange

(* device_rebuild_opt_desc gives every option a descriptor of its type:   *)
(* word constraints for the numeric options, string lists for the colour  *)
(* mode and the source, none for the count and the group headers.        *)
LEMMA RebuildType ==
  ASSUME NEW c \in [SrcIdx -> SourceCaps \cup {NoSrc}], NEW i \in SrcIdx,
         c[i] \in SourceCaps
  PROVE  \A o \in Options : device_rebuild_opt_desc(c, i)[o] \in DescsOf(o)
  <1> DEFINE s == c[i]
             D == device_rebuild_opt_desc(c, i)
  <1>1. /\ s.colormodes \subseteq ColorModes
        /\ s.resolutions \subseteq Int
        /\ s.res.min \in Int /\ s.res.max \in Int
        /\ s.tl_x.min \in Int /\ s.tl_x.max \in Int
        /\ s.tl_y.min \in Int /\ s.tl_y.max \in Int
        /\ s.br_x.min \in Int /\ s.br_x.max \in Int
        /\ s.br_y.min \in Int /\ s.br_y.max \in Int
    BY SourceFacts
  <1>2. \A S \in SUBSET Int : \A o \in Options \ {OPT_SCAN_COLORMODE, OPT_SCAN_SOURCE} :
            Constraint(S) \in DescsOf(o)
    BY DEF Constraint, DescsOf, ValuesOf
  <1>3. \A o \in Options : NoConstraint \in DescsOf(o)
    BY DEF DescsOf
  <1> SUFFICES ASSUME NEW o \in Options PROVE D[o] \in DescsOf(o)
    OBVIOUS
  <1> USE DEF Options, NUM_OPTIONS, OPT_SCAN_RESOLUTION, OPT_SCAN_COLORMODE,
              OPT_SCAN_SOURCE, OPT_SCAN_TL_X, OPT_SCAN_TL_Y, OPT_SCAN_BR_X,
              OPT_SCAN_BR_Y
  <1>4. CASE o = OPT_SCAN_RESOLUTION
    <2>1. D[o] = Constraint(IF s.discrete THEN s.resolutions ELSE SaneRange(s.res))
      BY <1>4 DEF device_rebuild_opt_desc
    <2>2. (IF s.discrete THEN s.resolutions ELSE SaneRange(s.res)) \subseteq Int
      BY <1>1 DEF SaneRange
    <2>3. QED
      BY <1>2, <1>4, <2>1, <2>2
  <1>5. CASE o = OPT_SCAN_COLORMODE
    <2>1. D[o] = Constraint({SaneName(m) : m \in s.colormodes})
      BY <1>5 DEF device_rebuild_opt_desc
    <2>2. {SaneName(m) : m \in s.colormodes} \subseteq ValuesOf(o)
      BY <1>1, <1>5 DEF ValuesOf
    <2>3. QED
      BY <2>1, <2>2 DEF Constraint, DescsOf
  <1>6. CASE o = OPT_SCAN_SOURCE
    <2>1. D[o] = Constraint(SaneSources(c))
      BY <1>6 DEF device_rebuild_opt_desc
    <2>2. SaneSources(c) \subseteq ValuesOf(o)
      BY <1>6 DEF ValuesOf, SaneSources
    <2>3. QED
      BY <2>1, <2>2 DEF Constraint, DescsOf
  <1>7. CASE o \in {OPT_SCAN_TL_X, OPT_SCAN_TL_Y, OPT_SCAN_BR_X, OPT_SCAN_BR_Y}
    <2>1. D[o] \in {Constraint(SaneRange(s.tl_x)), Constraint(SaneRange(s.tl_y)),
                    Constraint(SaneRange(s.br_x)), Constraint(SaneRange(s.br_y))}
      BY <1>7 DEF device_rebuild_opt_desc
    <2>2. /\ SaneRange(s.tl_x) \subseteq Int /\ SaneRange(s.tl_y) \subseteq Int
          /\ SaneRange(s.br_x) \subseteq Int /\ SaneRange(s.br_y) \subseteq Int
      BY <1>1 DEF SaneRange
    <2>3. QED
      BY <1>2, <1>7, <2>1, <2>2
  <1>8. CASE o \notin {OPT_SCAN_RESOLUTION, OPT_SCAN_COLORMODE, OPT_SCAN_SOURCE,
                       OPT_SCAN_TL_X, OPT_SCAN_TL_Y, OPT_SCAN_BR_X, OPT_SCAN_BR_Y}
    <2>1. D[o] = NoConstraint
      BY <1>8 DEF device_rebuild_opt_desc
    <2>2. QED
      BY <1>3, <2>1
  <1>9. QED
    BY <1>4, <1>5, <1>6, <1>7, <1>8

(* device_set_source puts every value option inside the constraint that  *)
(* device_rebuild_opt_desc gives it: the chosen resolution is listed or   *)
(* clamped into the range, the colour mode is one of the source's, the    *)
(* source is present, the window's corner is 0 and its far corner the     *)
(* maximum of the bottom-right ranges.                                     *)
LEMMA SetSourceInDescriptors ==
  ASSUME NEW c \in [SrcIdx -> SourceCaps \cup {NoSrc}], NEW i \in SrcIdx,
         c[i] \in SourceCaps,
         device_set_source(c, i)
  PROVE  \A o \in DOMAIN Setting' :
            /\ opt_desc'[o].constrained
            /\ Setting'[o] \in opt_desc'[o].allowed
  <1> DEFINE s == c[i]
             D == device_rebuild_opt_desc(c, i)
  <1>1. /\ s.colormodes \subseteq ColorModes
        /\ s.res.min \in Int /\ s.res.max \in Int /\ s.res.min <= s.res.max
        /\ s.tl_x.min <= 0 /\ 0 <= s.tl_x.max /\ s.tl_y.min <= 0 /\ 0 <= s.tl_y.max
        /\ s.tl_x.min \in Int /\ s.tl_x.max \in Int
        /\ s.tl_y.min \in Int /\ s.tl_y.max \in Int
        /\ s.br_x.min \in Int /\ s.br_x.max \in Int /\ s.br_x.min <= s.br_x.max
        /\ s.br_y.min \in Int /\ s.br_y.max \in Int /\ s.br_y.min <= s.br_y.max
    BY SourceFacts
  <1>2. /\ opt_src' = i
        /\ opt_colormode' \in s.colormodes
        /\ opt_resolution' \in ChooseResolution(s)
        /\ opt_tl_x' = 0 /\ opt_tl_y' = 0
        /\ opt_br_x' = s.br_x.max /\ opt_br_y' = s.br_y.max
        /\ opt_desc' = D
    BY DEF device_set_source, ChooseColormode
  <1>3. c[i] # NoSrc
    BY OptAssumption
  <1> USE DEF OPT_SCAN_RESOLUTION, OPT_SCAN_COLORMODE, OPT_SCAN_SOURCE,
              OPT_SCAN_TL_X, OPT_SCAN_TL_Y, OPT_SCAN_BR_X, OPT_SCAN_BR_Y,
              Options, NUM_OPTIONS
  <1> SUFFICES ASSUME NEW o \in DOMAIN Setting'
               PROVE  /\ opt_desc'[o].constrained
                      /\ Setting'[o] \in opt_desc'[o].allowed
    OBVIOUS
  <1>4. o \in {OPT_SCAN_RESOLUTION, OPT_SCAN_COLORMODE, OPT_SCAN_SOURCE,
               OPT_SCAN_TL_X, OPT_SCAN_TL_Y, OPT_SCAN_BR_X, OPT_SCAN_BR_Y}
    BY DEF Setting
  <1>5. CASE o = OPT_SCAN_RESOLUTION
    <2>1. /\ D[o] = Constraint(IF s.discrete THEN s.resolutions ELSE SaneRange(s.res))
          /\ Setting'[o] = opt_resolution'
      BY <1>5 DEF device_rebuild_opt_desc, Setting
    <2>2. CASE s.discrete
      BY <2>1, <2>2, <1>2 DEF ChooseResolution, Constraint
    <2>3. CASE ~s.discrete
      <3>1. opt_resolution' \in SaneRange(s.res)
        BY <2>3, <1>1, <1>2 DEF ChooseResolution, SaneRange, DEVICE_DEFAULT_RESOLUTION
      <3>2. QED
        BY <2>1, <2>3, <3>1, <1>2 DEF Constraint
    <2>4. QED
      BY <2>2, <2>3
  <1>6. CASE o = OPT_SCAN_COLORMODE
    <2>1. /\ D[o] = Constraint({SaneName(m) : m \in s.colormodes})
          /\ Setting'[o] = SaneName(opt_colormode')
      BY <1>6 DEF device_rebuild_opt_desc, Setting
    <2>2. QED
      BY <2>1, <1>2 DEF Constraint
  <1>7. CASE o = OPT_SCAN_SOURCE
    <2>1. /\ D[o] = Constraint(SaneSources(c))
          /\ Setting'[o] = SaneName(opt_src')
      BY <1>7 DEF device_rebuild_opt_desc, Setting
    <2>2. SaneName(i) \in SaneSources(c)
      BY <1>3 DEF SaneSources
    <2>3. QED
      BY <2>1, <2>2, <1>2 DEF Constraint
  <1>8. CASE o \in {OPT_SCAN_TL_X, OPT_SCAN_TL_Y}
    <2>1. /\ o = OPT_SCAN_TL_X => D[o] = Constraint(SaneRange(s.tl_x))
          /\ o = OPT_SCAN_TL_Y => D[o] = Constraint(SaneRange(s.tl_y))
          /\ Setting'[o] = 0
      BY <1>8, <1>2 DEF device_rebuild_opt_desc, Setting
    <2>2. 0 \in SaneRange(s.tl_x) /\ 0 \in SaneRange(s.tl_y)
      BY <1>1 DEF SaneRange
    <2>3. QED
      BY <1>8, <2>1, <2>2, <1>2 DEF Constraint
  <1>9. CASE o \in {OPT_SCAN_BR_X, OPT_SCAN_BR_Y}
    <2>1. /\ o = OPT_SCAN_BR_X => D[o] = Constraint(SaneRange(s.br_x))
                                 /\ Setting'[o] = s.br_x.max
          /\ o = OPT_SCAN_BR_Y => D[o] = Constraint(SaneRange(s.br_y))
                                 /\ Setting'[o] = s.br_y.max
      BY <1>9, <1>2 DEF device_rebuild_opt_desc, Setting
    <2>2. s.br_x.max \in SaneRange(s.br_x) /\ s.br_y.max \in SaneRange(s.br_y)
      BY <1>1 DEF SaneRange
    <2>3. QED
      BY <1>9, <2>1, <2>2, <1>2 DEF Constraint
  <1>10. QED
    BY <1>4, <1>5, <1>6, <1>7, <1>8, <1>9

(* device_add's state, before any capability document, satisfies OInv.   *)
LEMMA InitOInv == Init => OInv
  <1> SUFFICES ASSUME Init PROVE OInv
    OBVIOUS
  <1>1. \A o \in Options : opt_desc[o] \in DescsOf(o)
    BY DEF Init, DescsOf
  <1>2. TypeOK
    BY <1>1 DEF Init, TypeOK
  <1>3. QED
    BY <1>2 DEF Init, OInv, ReadyChosen, OptionsInDescriptors

\* The fields every SANE read leaves alone
OptState == <<status, caps, opt_src, opt_colormode, opt_resolution,
              opt_tl_x, opt_tl_y, opt_br_x, opt_br_y, opt_desc>>

(* A read (device_get_option, dev_get_option_descriptor) keeps everything *)
(* but the reply, so OInv holds again if the reply has its type.         *)
LEMMA ReadKeepsOInv ==
  ASSUME OInv, UNCHANGED OptState,
         \/ reply' = NoReply
         \/ reply' \in [call : {"get"}, option : Int, status : {"INVAL"}]
         \/ /\ DOMAIN reply' = {"call", "option", "status", "value"}
            /\ reply'.call = "get" /\ reply'.status = "GOOD"
            /\ reply'.option \in Options
            /\ reply'.value \in ValuesOf(reply'.option)
         \/ /\ DOMAIN reply' = {"call", "option", "desc"}
            /\ reply'.call = "desc" /\ reply'.option \in Int
            /\ reply'.desc \in IF reply'.option \in Options
                               THEN DescsOf(reply'.option) ELSE {NULL}
  PROVE  OInv'
  <1>1. TypeOK'
    BY DEF OInv, TypeOK, OptState
  <1>2. ReadyChosen' /\ OptionsInDescriptors'
    BY DEF OInv, ReadyChosen, OptionsInDescriptors, Setting, OptState
  <1>3. QED
    BY <1>1, <1>2 DEF OInv

(* device_get_option on a ready device: the value it reports has the type *)
(* of its option (the SANE string of a chosen colour mode or source, a    *)
(* word otherwise); any other option number is INVAL.                     *)
LEMMA GetOptionOInv ==
  ASSUME OInv, NEW o \in OptionArgs, device_get_option(o)
  PROVE  OInv'
  <1> DEFINE V == device_get_option_value
  <1>1. status = "ready" /\ opt_src \in SrcIdx /\ opt_colormode \in ColorModes
    BY DEF device_get_option, OInv, ReadyChosen
  <1>2. {opt_resolution, opt_tl_x, opt_tl_y} \subseteq Int
    BY DEF OInv, TypeOK
  <1>3. UNCHANGED OptState
    BY DEF device_get_option, OptState
  <1> USE DEF OPT_NUM_OPTIONS, OPT_SCAN_RESOLUTION, OPT_SCAN_COLORMODE,
              OPT_SCAN_SOURCE, OPT_SCAN_TL_X, OPT_SCAN_TL_Y, OPT_SCAN_BR_X,
              OPT_SCAN_BR_Y, Options, NUM_OPTIONS
  <1>4. CASE o \in DOMAIN V
    <2>1. reply' = [call |-> "get", option |-> o, status |-> "GOOD", value |-> V[o]]
      BY <1>4 DEF device_get_option
    <2>2. o \in Options
      BY <1>4 DEF device_get_option_value
    <2>3. V[o] \in ValuesOf(o)
      <3>1. CASE o \in {OPT_SCAN_COLORMODE, OPT_SCAN_SOURCE}
        <4>1. V[o] \in {SaneName(opt_colormode), SaneName(opt_src)}
          BY <3>1 DEF device_get_option_value
        <4>2. QED
          BY <4>1, <3>1, <1>1 DEF ValuesOf
      <3>2. CASE o \notin {OPT_SCAN_COLORMODE, OPT_SCAN_SOURCE}
        <4>1. V[o] \in {NUM_OPTIONS, opt_resolution, opt_tl_x, opt_tl_y}
          BY <3>2, <1>4 DEF device_get_option_value
        <4>2. QED
          BY <4>1, <3>2, <1>2 DEF ValuesOf
      <3>3. QED
        BY <3>1, <3>2
    <2>4. QED
      BY <2>1, <2>2, <2>3, <1>3, ReadKeepsOInv
  <1>5. CASE o \notin DOMAIN V
    <2>1. reply' = [call |-> "get", option |-> o, status |-> "INVAL"]
      BY <1>5 DEF device_get_option
    <2>2. QED
      BY <2>1, <1>3, ReadKeepsOInv DEF OptionArgs
  <1>6. QED
    BY <1>4, <1>5

(* dev_get_option_descriptor: the descriptor of an option in range, with  *)
(* its type, or NULL.                                                      *)
LEMMA DescriptorOInv ==
  ASSUME OInv, NEW o \in OptionArgs, dev_get_option_descriptor(o)
  PROVE  OInv'
  <1>1. UNCHANGED OptState
    BY DEF dev_get_option_descriptor, OptState
  <1>2. reply' = [call |-> "desc", option |-> o,
                  desc |-> IF o \in Options THEN opt_desc[o] ELSE NULL]
    BY DEF dev_get_option_descriptor, Options, NUM_OPTIONS, OptionArgs
  <1>3. o \in Options => opt_desc[o] \in DescsOf(o)
    BY DEF OInv, TypeOK
  <1>4. QED
    BY <1>1, <1>2, <1>3, ReadKeepsOInv DEF OptionArgs

(* The capability callback's success path: device_set_source on the      *)
(* first source present gives a ready device whose options lie in their   *)
(* descriptors.                                                            *)
LEMMA AcceptedOInv ==
  ASSUME OInv, NEW c \in ParsedCaps, device_caps_accepted(c)
  PROVE  OInv'
  <1>1. c \in [SrcIdx -> SourceCaps \cup {NoSrc}]
    BY DEF SrcIdx
  <1>2. /\ status = "probing" /\ caps' = c /\ reply' = reply
    BY DEF device_caps_accepted
  <1>3. reply \in {NoReply} \cup [call : {"get"}, option : Int, status : {"INVAL"}]
        \/ /\ DOMAIN reply = {"call", "option", "status", "value"}
           /\ reply.call = "get" /\ reply.status = "GOOD"
           /\ reply.option \in Options
           /\ reply.value \in ValuesOf(reply.option)
        \/ /\ DOMAIN reply = {"call", "option", "desc"}
           /\ reply.call = "desc" /\ reply.option \in Int
           /\ reply.desc \in IF reply.option \in Options
                             THEN DescsOf(reply.option) ELSE {NULL}
    BY DEF OInv, TypeOK
  <1>4. FirstSource(c) # NUM_OPT_SOURCE
    BY DEF device_caps_accepted
  <1>5. OInv'
    <2> DEFINE i == FirstSource(c)
    <2>1. i \in SrcIdx /\ c[i] \in SourceCaps
      BY <1>1, <1>4, FirstSourcePresent
    <2>2. device_set_source(c, i) /\ status' = "ready"
      BY DEF device_caps_accepted
    <2>3. /\ opt_src' = i
          /\ opt_colormode' \in c[i].colormodes
          /\ opt_resolution' \in ChooseResolution(c[i])
          /\ opt_tl_x' = 0 /\ opt_tl_y' = 0
          /\ opt_br_x' = c[i].br_x.max /\ opt_br_y' = c[i].br_y.max
          /\ opt_desc' = device_rebuild_opt_desc(c, i)
      BY <2>2 DEF device_set_source, ChooseColormode
    <2>4. /\ c[i].colormodes \subseteq ColorModes /\ c[i].resolutions \subseteq Int
          /\ c[i].res.min \in Int /\ c[i].res.max \in Int
          /\ c[i].br_x.max \in Int /\ c[i].br_y.max \in Int
      BY <2>1, SourceFacts
    <2>5. opt_resolution' \in Int
      BY <2>3, <2>4 DEF ChooseResolution, DEVICE_DEFAULT_RESOLUTION
    <2>6. \A o \in Options : opt_desc'[o] \in DescsOf(o)
      BY <2>1, <2>3, <1>1, RebuildType
    <2>7. TypeOK'
      BY <1>1, <1>2, <1>3, <2>1, <2>2, <2>3, <2>4, <2>5, <2>6 DEF TypeOK
    <2>8. ReadyChosen'
      BY <2>1, <2>3, <2>4 DEF ReadyChosen
    <2>9. OptionsInDescriptors'
      BY <1>1, <2>1, <2>2, SetSourceInDescriptors DEF OptionsInDescriptors
    <2>10. QED
      BY <2>7, <2>8, <2>9 DEF OInv
  <1>6. QED
    BY <1>5

(* Every step keeps OInv.                                                  *)
LEMMA NextOInv == OInv /\ [Next]_vars => OInv'
  <1> SUFFICES ASSUME OInv, [Next]_vars PROVE OInv'
    OBVIOUS
  <1>1. ASSUME NEW c \in ParsedCaps, device_caps_accepted(c) PROVE OInv'
    BY <1>1, AcceptedOInv
  <1>2. ASSUME NEW o \in OptionArgs, device_get_option(o) PROVE OInv'
    BY <1>2, GetOptionOInv
  <1>3. ASSUME NEW o \in OptionArgs, dev_get_option_descriptor(o) PROVE OInv'
    BY <1>3, DescriptorOInv
  <1>4. CASE UNCHANGED vars
    BY <1>4 DEF vars, OInv, TypeOK, ReadyChosen, OptionsInDescriptors, Setting
  <1>5. QED
    BY <1>1, <1>2, <1>3, <1>4 DEF Next

(* The option state keeps its type in every reachable state: in           *)
(* particular device_get_option never reports the SANE string of the       *)
(* UNKNOWN colour mode or source of device_add, and every descriptor       *)
(* dev_get_option_descriptor hands out constrains its option by values of *)
(* that option's type, for every source layout devcaps_parse may accept.  *)
THEOREM OptTypeCorrect == Spec => []TypeOK
  <1>1. Spec => []OInv
    BY InitOInv, NextOInv, PTL DEF Spec
  <1>2. OInv => TypeOK
    BY DEF OInv
  <1>3. QED
    BY <1>1, <1>2, PTL

(* Once the capability callback made the device ready, every option value *)
(* lies in the constraint its descriptor advertises and the source is one *)
(* the device has, whichever source the first-source loop picked and       *)
(* whichever colour mode and resolution devcaps chose, for every number   *)
(* of source slots.                                                        *)
THEOREM OptionsConsistent == Spec => []OptionsInDescriptors
  <1>1. Spec => []OInv
    BY InitOInv, NextOInv, PTL DEF Spec
  <1>2. OInv => OptionsInDescriptors
    BY DEF OInv
  <1>3. QED
    BY <1>1, <1>2, PTL
====
