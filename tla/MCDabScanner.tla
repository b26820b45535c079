---------------------------- MODULE MCDabScanner ----------------------------
(***************************************************************************)
(* Small scans.  Every OnAir below has silence at 0, the chip's state      *)
(* before it is first tuned.                                               *)
(***************************************************************************)
EXTENDS DabScanner

MCSids == {"S", "T"}
MCSubchids == {1, 2}
MCScids == {0, 1}
MCLabels == {"Radio", "Radio (mask)", "Talk", "Local", "Mux"}
MCTexts == {"Radio", "Talk", "Local", "Mux"}
MCUtf8 == [l \in MCLabels |-> IF l = "Radio (mask)" THEN "Radio" ELSE l]
MCOrgs == [start: {0}, bitrate: {48, 64}]
MCLanguages == {"en"}
MCPtys == {9}
MCAsuFlags == {0}
MCCids == {1}
MCSwitchings == {"news"}
MCRegions == {"GB"}
MCEIds == {1}
MCDates == {"now"}
MCUaData == {}

Org(b, rate) == [fig |-> "0/1", subchid |-> b, org |-> [start |-> 0, bitrate |-> rate]]
Audio(s, b, type, ps) ==
    [fig |-> "0/2", sid |-> s, subchid |-> b, audio |-> type, ps |-> ps]
Name(s, l) == [fig |-> "1/1", sid |-> s, label |-> l]
Multiplex(l) == [fig |-> "1/0", eid |-> 1, label |-> l]
Component(s, c, b) == [fig |-> "0/8", sid |-> s, scids |-> c, subchid |-> b]
Dropped == [fig |-> "none"]

\* A DAB+ service with two components and a DAB service; then a reconfiguration
\* that exchanges primary and secondary component and corrects the short label.
National ==
    << {Org(1, 48), Audio("S", 1, "DAB+", TRUE), Audio("S", 2, "DAB+", FALSE),
        Component("S", 1, 2), Name("S", "Radio"), Audio("T", 2, "DAB", TRUE),
        Name("T", "Talk"), Multiplex("Mux")},
       {Org(1, 64), Audio("S", 1, "DAB+", FALSE), Audio("S", 2, "DAB+", TRUE),
        Component("S", 1, 1), Name("S", "Radio (mask)"), Dropped} >>

\* A local multiplex carries one of the same services under its own name.
Regional == << {Audio("S", 2, "DAB", TRUE), Name("S", "Local"), Dropped} >>

Silence == << {} >>

MCOnAir ==
    [f \in 0..2 |-> IF f = 0 THEN Silence ELSE IF f = 1 THEN National ELSE Regional]

\* For liveness: the reconfiguration kept, one service less.
Small ==
    << {Org(1, 48), Audio("S", 1, "DAB+", TRUE), Audio("S", 2, "DAB+", FALSE),
        Component("S", 1, 2), Name("S", "Radio"), Multiplex("Mux")},
       {Audio("S", 1, "DAB+", FALSE), Audio("S", 2, "DAB+", TRUE),
        Component("S", 1, 1), Name("S", "Radio (mask)")} >>
MCSmallOnAir ==
    [f \in 0..2 |-> IF f = 0 THEN Silence ELSE IF f = 1 THEN Small ELSE Regional]

\* The primary component becomes a secondary one, and the new primary component
\* is under conditional access, so the decoder drops its entry.
Demoted ==
    << {Audio("S", 1, "DAB+", TRUE), Name("S", "Radio")},
       {Audio("S", 1, "DAB+", FALSE), Name("S", "Radio"), Dropped} >>
MCDemotedOnAir == [f \in 0..1 |-> IF f = 0 THEN Silence ELSE Demoted]
=============================================================================
