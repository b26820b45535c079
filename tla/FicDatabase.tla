---------------------------- MODULE FicDatabase ----------------------------
(***************************************************************************)
(* The data of the Fast Information Channel decoder (src/fic_decoder.h):   *)
(* what a FIG entry carries, what the decoder stores about an ensemble,    *)
(* its services and its sub-channels, and the listing derived from that    *)
(* store for every service the observer is told about.                     *)
(*                                                                         *)
(* The maps of the code (services, subchannels, audio_comps, comp_defs...) *)
(* are total functions here; None stands for an absent key and for every   *)
(* "_none" value of the code.  An entry the code creates by operator[] and *)
(* leaves at its default is not told apart from an absent one: the code    *)
(* never reads the difference.                                             *)
(***************************************************************************)
EXTENDS Naturals, FiniteSets, SequencesExt

CONSTANTS
    Sids,       \* service identifiers (16 bits)
    Subchids,   \* sub-channel identifiers (6 bits)
    Scids,      \* service component identifiers within a service (4 bits)
    Labels,     \* charset, 16 bytes and short label mask (FIC_LABEL)
    Orgs,       \* records [start, bitrate]: a sub-channel's organisation
    Languages,  \* language codes
    Ptys,       \* programme types
    AsuFlags,   \* announcement support flags
    Cids,       \* announcement cluster identifiers
    Switchings, \* announcement switching: flags and sub-channel of a cluster
    Regions,    \* ECC, local time offset and international table id
    EIds,       \* ensemble identifiers
    Dates,      \* UTC date and time
    UaData,     \* Slideshow user application data, see GetSLSAppType
    None

\* Widths of the fields are those of the FIG layouts; the zero ASu flags are
\* the initial value of FIC_SERVICE, which a broadcast may repeat.
ASSUME ScidsAssumption == Scids \subseteq 0..15
ASSUME AsuFlagsAssumption == 0 \in AsuFlags
ASSUME UaDataAssumption ==
    UaData \subseteq [long: BOOLEAN, ca: BOOLEAN, app_type: 0..31,
                      dg: BOOLEAN, dscty: 0..63]
AudioTypes == {"DAB", "DAB+"}

ASSUME NoneAssumption ==
    /\ None \notin Sids /\ None \notin Subchids /\ None \notin Scids
    /\ None \notin Labels /\ None \notin Orgs /\ None \notin Languages
    /\ None \notin Ptys /\ None \notin UaData /\ None \notin AudioTypes

Opt(S) == S \cup {None}

-----------------------------------------------------------------------------
(* The stored records. *)

Service ==
    [pri_comp_subchid: Opt(Subchids), label: Opt(Labels),
     pty_static: Opt(Ptys), pty_dynamic: Opt(Ptys),
     asu_flags: AsuFlags, cids: SUBSET Cids,
     audio_comps: [Subchids -> Opt(AudioTypes)],
     comp_defs: [Scids -> Opt(Subchids)],
     comp_labels: [Scids -> Opt(Labels)],
     comp_sls_uas: [Scids -> Opt(UaData)]]

NewService ==
    [pri_comp_subchid |-> None, label |-> None,
     pty_static |-> None, pty_dynamic |-> None,
     asu_flags |-> 0, cids |-> {},
     audio_comps |-> [s \in Subchids |-> None],
     comp_defs |-> [c \in Scids |-> None],
     comp_labels |-> [c \in Scids |-> None],
     comp_sls_uas |-> [c \in Scids |-> None]]

Subchannel == [org: Opt(Orgs), language: Opt(Languages)]
NewSubchannel == [org |-> None, language |-> None]

\* The state of a decoder that has heard nothing.
NewServices == [s \in Sids |-> NewService]
NewSubchannels == [b \in Subchids |-> NewSubchannel]

Ensemble == [eid: Opt(EIds), label: Opt(Labels), region: Opt(Regions),
             asw_clusters: [Cids -> Opt(Switchings)]]
NewEnsemble == [eid |-> None, label |-> None, region |-> None,
                asw_clusters |-> [c \in Cids |-> None]]

-----------------------------------------------------------------------------
(* FIG entries: one element of the loop of each ProcessFIG handler.  "none" *)
(* is any FIB, FIG or entry the decoder drops unread: a failed CRC, next    *)
(* configuration, other ensemble, data service, conditional access, a       *)
(* component that is no MSC audio stream, an unknown extension or option.   *)

Figs ==
    [fig: {"none"}]
    \cup [fig: {"0/1"}, subchid: Subchids, org: Orgs]
    \cup [fig: {"0/2"}, sid: Sids, subchid: Subchids, audio: AudioTypes,
          ps: BOOLEAN]
    \cup [fig: {"0/5"}, subchid: Subchids, language: Languages]
    \cup [fig: {"0/8"}, sid: Sids, scids: Scids, subchid: Subchids]
    \cup [fig: {"0/9"}, region: Regions]
    \cup [fig: {"0/10"}, date: Dates]
    \cup [fig: {"0/13"}, sid: Sids, scids: Scids, ua: UaData]
    \cup [fig: {"0/17"}, sid: Sids, sd: BOOLEAN, pty: Ptys]
    \cup [fig: {"0/18"}, sid: Sids, asu_flags: AsuFlags, cids: SUBSET Cids]
    \cup [fig: {"0/19"}, cid: Cids, asw: Switchings]
    \cup [fig: {"1/0"}, eid: EIds, label: Labels]
    \cup [fig: {"1/1"}, sid: Sids, label: Labels]
    \cup [fig: {"1/4"}, sid: Sids, scids: Scids, label: Labels]

-----------------------------------------------------------------------------
(* The listing: what UpdateService forwards to the observer. *)

\* UpdateService gives up until primary component and label are known.
Complete(service) ==
    service.pri_comp_subchid # None /\ service.label # None

\* Secondary components: defined by FIG 0/8, present in FIG 0/2, not primary.
Secondary(service) ==
    {c \in Scids :
        /\ service.comp_defs[c] # None
        /\ service.comp_defs[c] # service.pri_comp_subchid
        /\ service.audio_comps[service.comp_defs[c]] # None}

\* The Slideshow application type, None if it cannot be shown.  Fewer than two
\* bytes of user application data leave the defaults: no CA, no data groups, MOT.
GetSLSAppType(ua) ==
    IF ~ua.long THEN 12
    ELSE IF ~ua.ca /\ ~ua.dg /\ ua.dscty = 60 THEN ua.app_type
    ELSE None

\* The SCIdS whose Slideshow data apply: the component's own, or for the primary
\* component the lowest that FIG 0/8 ties to its sub-channel.
SlsScids(service, scids, subchid) ==
    LET defs == {c \in Scids : service.comp_defs[c] = subchid}
    IN  IF scids # None THEN scids
        ELSE IF defs = {} THEN None
        ELSE CHOOSE c \in defs : \A d \in defs : c <= d

SlsAppType(service, scids) ==
    IF scids = None THEN None
    ELSE IF service.comp_sls_uas[scids] = None THEN None
    ELSE GetSLSAppType(service.comp_sls_uas[scids])

\* LISTED_SERVICE of component scids (None: the primary one).
Listing(subchannels, sid, service, scids, multi_comps) ==
    LET subchid == IF scids = None THEN service.pri_comp_subchid
                   ELSE service.comp_defs[scids]
    IN  [sid |-> sid, scids |-> scids, subchid |-> subchid,
         audio |-> service.audio_comps[subchid],
         subchannel |-> subchannels[subchid],
         label |-> IF scids = None THEN service.label
                   ELSE IF service.comp_labels[scids] = None THEN service.label
                   ELSE service.comp_labels[scids],
         pty_static |-> service.pty_static, pty_dynamic |-> service.pty_dynamic,
         sls_app_type |->
             SlsAppType(service, SlsScids(service, scids, subchid)),
         asu_flags |-> service.asu_flags, cids |-> service.cids,
         multi_comps |-> multi_comps]

PrimaryListing(subchannels, sid, service) ==
    Listing(subchannels, sid, service, None, Secondary(service) # {})

\* Broken on purpose: the primary component comes first.
PrimaryFirst(subchannels, sid, service) ==
    LET secondary == SetToSeq(Secondary(service))
    IN  <<PrimaryListing(subchannels, sid, service)>>
        \o [i \in DOMAIN secondary |->
                Listing(subchannels, sid, service, secondary[i], TRUE)]

\* The calls FICChangeService(ls) one UpdateService makes, in order: every
\* secondary component (their order among themselves is not told apart), the
\* primary component last.
ServiceCalls(subchannels, sid, service) ==
    LET secondary == SetToSeq(Secondary(service))
    IN  Append([i \in DOMAIN secondary |->
                    Listing(subchannels, sid, service, secondary[i], TRUE)],
               PrimaryListing(subchannels, sid, service))

=============================================================================
