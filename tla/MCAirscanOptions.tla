--------------------------- MODULE MCAirscanOptions ---------------------------
(* Two sources with different geometry: a flatbed with a discrete         *)
(* resolution list that lacks the default, and a feeder with a continuous *)
(* range below it.  Top-left and bottom-right ranges differ, as eSCL's    *)
(* MinWidth/MaxWidth make them.                                           *)
EXTENDS AirscanOptions

CONSTANTS cm1, cm2

MCColorModes == {cm1, cm2}

Flatbed == [colormodes |-> {cm1, cm2}, discrete |-> TRUE,
            resolutions |-> {150, 600}, res |-> [min |-> 150, max |-> 600],
            tl_x |-> [min |-> 0, max |-> 8], tl_y |-> [min |-> 0, max |-> 10],
            br_x |-> [min |-> 2, max |-> 10], br_y |-> [min |-> 2, max |-> 12]]

Feeder == [colormodes |-> {cm1}, discrete |-> FALSE,
           resolutions |-> {}, res |-> [min |-> 100, max |-> 200],
           tl_x |-> [min |-> 0, max |-> 4], tl_y |-> [min |-> 0, max |-> 6],
           br_x |-> [min |-> 1, max |-> 5], br_y |-> [min |-> 1, max |-> 7]]

MCSourceCaps == {Flatbed, Feeder}

\* Every document devcaps_parse may accept: any assignment of the two
\* shapes to the source slots, with at least one source (spec 4.4)
MCParsedCaps == {c \in [0..(NUM_OPT_SOURCE - 1) -> MCSourceCaps \cup {NoSrc}] :
                    \E i \in DOMAIN c : c[i] # NoSrc}
=============================================================================
