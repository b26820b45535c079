---------------------------- MODULE FicDecoder -----------------------------
(***************************************************************************)
(* FICDecoder (src/fic_decoder.cpp): the database of one DAB ensemble,     *)
(* built entry by entry from the Fast Information Channel.  Each action is *)
(* one loop iteration of a ProcessFIG handler together with the            *)
(* UpdateService, UpdateSubchannel or UpdateEnsemble call that ends it; a  *)
(* FIG, FIB or FIC block with several entries is a succession of actions.  *)
(* The calls an action makes to the observer are left in two variables     *)
(* that tell what the last action reported.                                *)
(***************************************************************************)
EXTENDS FicDatabase

VARIABLES
    services,        \* SId -> service
    subchannels,     \* SubChId -> sub-channel
    ensemble,
    utc_dt,
    updated,         \* services the last action forwarded to the observer
    ensembleUpdated  \* whether it forwarded the ensemble

database == <<services, subchannels, ensemble, utc_dt>>
ficVars == <<services, subchannels, ensemble, utc_dt, updated, ensembleUpdated>>

FicTypeOK ==
    /\ services \in [Sids -> Service]
    /\ subchannels \in [Subchids -> Subchannel]
    /\ ensemble \in Ensemble
    /\ utc_dt \in Opt(Dates)
    /\ updated \in SUBSET Sids
    /\ ensembleUpdated \in BOOLEAN

FicInit ==
    /\ services = NewServices
    /\ subchannels = NewSubchannels
    /\ ensemble = NewEnsemble
    /\ utc_dt = None
    /\ updated = {}
    /\ ensembleUpdated = FALSE

\* Broken on purpose: the services survive.
ResetKeepsServices ==
    /\ services' = services
    /\ subchannels' = NewSubchannels
    /\ ensemble' = NewEnsemble
    /\ utc_dt' = None
    /\ updated' = {}
    /\ ensembleUpdated' = FALSE

Reset ==
    /\ services' = NewServices
    /\ subchannels' = NewSubchannels
    /\ ensemble' = NewEnsemble
    /\ utc_dt' = None
    /\ updated' = {}
    /\ ensembleUpdated' = FALSE

-----------------------------------------------------------------------------
(* The updates that end a handler. *)

\* UpdateService on each of sids: only a complete service is forwarded.
UpdateServices(sids) == updated' = {s \in sids : Complete(services'[s])}

\* Broken on purpose (see the mutants of PROJECT.json): looks for the sub-channel
\* in the definitions of FIG 0/8 and not in the components of FIG 0/2.
UsersByDefinition(subchid) ==
    {s \in Sids : \E c \in Scids : services[s].comp_defs[c] = subchid}

\* UpdateSubchannel: the services that have a component in the sub-channel.
Users(subchid) == {s \in Sids : services[s].audio_comps[subchid] # None}

\* UpdateEnsemble: only a labelled ensemble is forwarded.
UpdateEnsemble(changed) ==
    ensembleUpdated' = (changed /\ ensemble'.label # None)

\* GetService, a comparison, an assignment and UpdateService: the whole of a
\* handler that sets the record of service sid to s.
SetService(sid, s, changed) ==
    /\ services' = [services EXCEPT ![sid] = s]
    /\ UpdateServices(IF changed THEN {sid} ELSE {})
    /\ ensembleUpdated' = FALSE
    /\ UNCHANGED <<subchannels, ensemble, utc_dt>>

\* Likewise for a sub-channel.
SetSubchannel(subchid, sc) ==
    /\ subchannels' = [subchannels EXCEPT ![subchid] = sc]
    /\ UNCHANGED <<services, ensemble, utc_dt>>
    /\ UpdateServices(IF sc # subchannels[subchid] THEN Users(subchid) ELSE {})
    /\ ensembleUpdated' = FALSE

\* Likewise for the ensemble, where affected services follow.
SetEnsemble(ens, affected) ==
    /\ ensemble' = ens
    /\ UNCHANGED <<services, subchannels, utc_dt>>
    /\ UpdateServices(IF ens # ensemble THEN affected ELSE {})
    /\ UpdateEnsemble(ens # ensemble)

-----------------------------------------------------------------------------
(* One action per handler. *)

\* Broken on purpose: the new organisation arrives without the language.
ForgetsLanguage(e) ==
    /\ e.fig = "0/1"
    /\ SetSubchannel(e.subchid, [NewSubchannel EXCEPT !.org = e.org])

\* Sub-channel organisation; the language is left as it is.
ProcessFIG0_1(e) ==
    /\ e.fig = "0/1"
    /\ SetSubchannel(e.subchid, [subchannels[e.subchid] EXCEPT !.org = e.org])

\* Broken on purpose: the primary flag is stored before the component is.
PrimaryWithoutComponent(e) ==
    /\ e.fig = "0/2"
    /\ SetService(e.sid,
           [services[e.sid] EXCEPT !.pri_comp_subchid =
                                      IF e.ps THEN e.subchid ELSE @],
           e.ps)

\* Service organisation.  An entry without the primary flag never takes the
\* primary component away: the service still counts as changed each time.
ProcessFIG0_2(e) ==
    /\ e.fig = "0/2"
    /\ LET s == services[e.sid]
           isPrimary == s.pri_comp_subchid = e.subchid
           changed == s.audio_comps[e.subchid] # e.audio \/ e.ps # isPrimary
       IN  SetService(e.sid,
               [s EXCEPT !.audio_comps[e.subchid] = e.audio,
                         !.pri_comp_subchid = IF e.ps THEN e.subchid ELSE @],
               changed)

ProcessFIG0_5(e) ==
    /\ e.fig = "0/5"
    /\ SetSubchannel(e.subchid,
                     [subchannels[e.subchid] EXCEPT !.language = e.language])

\* Broken on purpose: the SCIdS is stored where the SubChId belongs.
StoresScids(e) ==
    /\ e.fig = "0/8"
    /\ SetService(e.sid,
                  [services[e.sid] EXCEPT !.comp_defs[e.scids] = e.scids], TRUE)

\* Broken on purpose: a definition counts as new each time it is repeated.
AlwaysNewDefinition(e) ==
    /\ e.fig = "0/8"
    /\ SetService(e.sid,
                  [services[e.sid] EXCEPT !.comp_defs[e.scids] = e.subchid], TRUE)

ProcessFIG0_8(e) ==
    /\ e.fig = "0/8"
    /\ LET s == services[e.sid]
       IN  SetService(e.sid, [s EXCEPT !.comp_defs[e.scids] = e.subchid],
                      s.comp_defs[e.scids] # e.subchid)

\* The region may change how a programme type reads: services that have one
\* are forwarded again.
ProcessFIG0_9(e) ==
    /\ e.fig = "0/9"
    /\ SetEnsemble([ensemble EXCEPT !.region = e.region],
                   {s \in Sids : \/ services[s].pty_static # None
                                 \/ services[s].pty_dynamic # None})

ProcessFIG0_10(e) ==
    /\ e.fig = "0/10"
    /\ utc_dt' = e.date
    /\ updated' = {}
    /\ ensembleUpdated' = FALSE
    /\ UNCHANGED <<services, subchannels, ensemble>>

\* User applications: the first Slideshow data of a component stay.
ProcessFIG0_13(e) ==
    /\ e.fig = "0/13"
    /\ LET s == services[e.sid]
           new == s.comp_sls_uas[e.scids] = None
       IN  SetService(e.sid,
               [s EXCEPT !.comp_sls_uas[e.scids] = IF new THEN e.ua ELSE @],
               new)

ProcessFIG0_17(e) ==
    /\ e.fig = "0/17"
    /\ LET s == services[e.sid]
       IN  IF e.sd
           THEN SetService(e.sid, [s EXCEPT !.pty_dynamic = e.pty],
                           s.pty_dynamic # e.pty)
           ELSE SetService(e.sid, [s EXCEPT !.pty_static = e.pty],
                           s.pty_static # e.pty)

ProcessFIG0_18(e) ==
    /\ e.fig = "0/18"
    /\ LET s == services[e.sid]
       IN  SetService(e.sid,
               [s EXCEPT !.asu_flags = e.asu_flags, !.cids = e.cids],
               s.asu_flags # e.asu_flags \/ s.cids # e.cids)

ProcessFIG0_19(e) ==
    /\ e.fig = "0/19"
    /\ SetEnsemble([ensemble EXCEPT !.asw_clusters[e.cid] = e.asw],
                   {s \in Sids : e.cid \in services[s].cids})

ProcessFIG1_0(e) ==
    /\ e.fig = "1/0"
    /\ SetEnsemble([ensemble EXCEPT !.eid = e.eid, !.label = e.label], {})

\* Broken on purpose: a label counts as new each time it is repeated.
AlwaysNewLabel(e) ==
    /\ e.fig = "1/1"
    /\ SetService(e.sid, [services[e.sid] EXCEPT !.label = e.label], TRUE)

ProcessFIG1_1(e) ==
    /\ e.fig = "1/1"
    /\ LET s == services[e.sid]
       IN  SetService(e.sid, [s EXCEPT !.label = e.label], s.label # e.label)

ProcessFIG1_4(e) ==
    /\ e.fig = "1/4"
    /\ LET s == services[e.sid]
       IN  SetService(e.sid, [s EXCEPT !.comp_labels[e.scids] = e.label],
                      s.comp_labels[e.scids] # e.label)

\* Whatever the decoder drops unread.
Ignore(e) ==
    /\ e.fig = "none"
    /\ updated' = {}
    /\ ensembleUpdated' = FALSE
    /\ UNCHANGED database

ProcessFIG(e) ==
    \/ ProcessFIG0_1(e)
    \/ ProcessFIG0_2(e)
    \/ ProcessFIG0_5(e)
    \/ ProcessFIG0_8(e)
    \/ ProcessFIG0_9(e)
    \/ ProcessFIG0_10(e)
    \/ ProcessFIG0_13(e)
    \/ ProcessFIG0_17(e)
    \/ ProcessFIG0_18(e)
    \/ ProcessFIG0_19(e)
    \/ ProcessFIG1_0(e)
    \/ ProcessFIG1_1(e)
    \/ ProcessFIG1_4(e)
    \/ Ignore(e)

FicNext ==
    \/ \E e \in Figs : ProcessFIG(e)
    \/ Reset

FicSpec == FicInit /\ [][FicNext]_ficVars

-----------------------------------------------------------------------------
(* The database is sound and its observers miss nothing. *)

\* The primary sub-channel of a service is one of its audio components, so
\* audio_comps.at(pri_comp_subchid) in UpdateListedService never throws.
PrimaryPresent(service) ==
    service.pri_comp_subchid # None
        => service.audio_comps[service.pri_comp_subchid] # None

PrimaryHasComponent == \A s \in Sids : PrimaryPresent(services[s])

\* What the observer would be told of service s now, if it is complete.
CurrentListing(s) == PrimaryListing(subchannels, s, services[s])

\* No listing changes behind the observer's back.  Whatever entry changes what a
\* service would be listed as - its own record, the sub-channel it uses, the
\* definitions of its components - a service that is complete afterwards and is
\* not forwarded was complete before and would be listed just the same.
NoSilentChange ==
    [][\A s \in Sids :
          Complete(services'[s]) /\ s \notin updated'
              => Complete(services[s]) /\ CurrentListing(s)' = CurrentListing(s)
      ]_ficVars

=============================================================================
