--------------------------- MODULE MCFicKnowledge ---------------------------
(***************************************************************************)
(* One multiplex with a DAB+ service of two components and a DAB service,  *)
(* every kind of entry in it, no entry contradicting another.              *)
(***************************************************************************)
EXTENDS FicKnowledge

MCSids == {"S", "T"}
MCSubchids == {1, 2}
MCScids == {0, 1}
MCLabels == {"Radio", "Talk", "Mux"}
MCOrg == [start |-> 0, bitrate |-> 48]
MCOrgs == {MCOrg}
MCLanguages == {"en"}
MCPtys == {9, 10}
MCAsuFlags == {0, 1}
MCCids == {1}
MCSwitchings == {"news"}
MCRegions == {"GB"}
MCEIds == {1}
MCDates == {"now"}
MCUa == [long |-> TRUE, ca |-> FALSE, app_type |-> 12, dg |-> FALSE, dscty |-> 60]
MCUaData == {MCUa}

MCBroadcast ==
    {[fig |-> "none"],
     [fig |-> "0/1", subchid |-> 1, org |-> MCOrg],
     [fig |-> "0/2", sid |-> "S", subchid |-> 1, audio |-> "DAB+", ps |-> TRUE],
     [fig |-> "0/2", sid |-> "S", subchid |-> 2, audio |-> "DAB+", ps |-> FALSE],
     [fig |-> "0/2", sid |-> "T", subchid |-> 2, audio |-> "DAB", ps |-> TRUE],
     [fig |-> "0/5", subchid |-> 1, language |-> "en"],
     [fig |-> "0/8", sid |-> "S", scids |-> 1, subchid |-> 2],
     [fig |-> "0/9", region |-> "GB"],
     [fig |-> "0/10", date |-> "now"],
     [fig |-> "0/13", sid |-> "S", scids |-> 1, ua |-> MCUa],
     [fig |-> "0/17", sid |-> "S", sd |-> FALSE, pty |-> 9],
     [fig |-> "0/17", sid |-> "S", sd |-> TRUE, pty |-> 10],
     [fig |-> "0/18", sid |-> "S", asu_flags |-> 1, cids |-> {1}],
     [fig |-> "0/19", cid |-> 1, asw |-> "news"],
     [fig |-> "1/0", eid |-> 1, label |-> "Mux"],
     [fig |-> "1/1", sid |-> "S", label |-> "Radio"],
     [fig |-> "1/4", sid |-> "S", scids |-> 1, label |-> "Talk"]}
=============================================================================
