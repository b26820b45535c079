---------------------------- MODULE MCFicDecoder ----------------------------
(***************************************************************************)
(* A small instance of FicDecoder: any entry about one service, its        *)
(* sub-channels and its ensemble at any time, contradictory ones included. *)
(***************************************************************************)
EXTENDS FicDecoder

MCSids == {"S"}
MCSubchids == {1, 2}
MCScids == {0, 1}
MCLabels == {"L"}
MCOrgs == {[start |-> 0, bitrate |-> 48]}
MCLanguages == {"en"}
MCPtys == {9}
MCAsuFlags == {0}
MCCids == {1}
MCSwitchings == {"news"}
MCRegions == {"GB"}
MCEIds == {1}
MCDates == {"now"}
MCUaData ==
    {[long |-> TRUE, ca |-> FALSE, app_type |-> 12, dg |-> FALSE, dscty |-> 60]}

\* What the listing of the service hardly depends on: at most one such thing is known
\* at a time, and only while nothing is of component 0.
Aside ==
    {<<"language", b>> : b \in {c \in Subchids : subchannels[c].language # None}}
    \cup {<<"asw", c>> : c \in {d \in Cids : ensemble.asw_clusters[d] # None}}
    \cup {<<"cid", c>> : c \in UNION {services[s].cids : s \in Sids}}
    \cup {<<"label", l>> : l \in {ensemble.label} \ {None}}
    \cup {<<"region", r>> : r \in {ensemble.region} \ {None}}
    \cup {<<"date", d>> : d \in {utc_dt} \ {None}}

MCBound ==
    /\ Cardinality(Aside) <= 1
    /\ Aside # {} => \A s \in Sids :
          /\ services[s].comp_defs[0] = None
          /\ services[s].comp_labels[0] = None
          /\ services[s].comp_sls_uas[0] = None
=============================================================================
