-------------------------- MODULE FicDecoderProofs --------------------------
(***************************************************************************)
(* Theorems about the FIC decoder, for any sets of services, sub-channels, *)
(* labels and so on.  A lemma per handler shows that it is one of four     *)
(* kinds of change, each with what the handler's comparison guarantees;    *)
(* the invariants are then proved once per kind.                           *)
(***************************************************************************)
EXTENDS FicDecoder, TLAPS

\* One service record is replaced.  It is left alone unless reported as changed,
\* a complete one stays complete, and a primary component stays present.
ServiceChange ==
    \E sid \in Sids, s \in Service, changed \in BOOLEAN :
        /\ SetService(sid, s, changed)
        /\ ~changed => s = services[sid]
        /\ Complete(services[sid]) => Complete(s)
        /\ PrimaryPresent(services[sid]) => PrimaryPresent(s)

\* One sub-channel record is replaced.
SubchannelChange ==
    \E subchid \in Subchids, sc \in Subchannel : SetSubchannel(subchid, sc)

\* The ensemble is replaced; a label it has it keeps or exchanges.
EnsembleChange ==
    \E ens \in Ensemble, affected \in SUBSET Sids :
        /\ SetEnsemble(ens, affected)
        /\ ensemble.label # None => ens.label # None

\* Nothing an observer can see changes.
NoChange ==
    /\ UNCHANGED <<services, subchannels, ensemble>>
    /\ utc_dt' \in Opt(Dates)
    /\ updated' = {}
    /\ ensembleUpdated' = FALSE

-----------------------------------------------------------------------------
(* The kind of each handler. *)

\* Sub-channel organisation replaces one sub-channel record.
LEMMA Kind0_1 ==
    ASSUME FicTypeOK, NEW e \in Figs, ProcessFIG0_1(e)
    PROVE  SubchannelChange
  <1>1. e.subchid \in Subchids /\ e.org \in Orgs
    BY DEF ProcessFIG0_1, Figs
  <1>2. [subchannels[e.subchid] EXCEPT !.org = e.org] \in Subchannel
    BY <1>1 DEF FicTypeOK, Subchannel, Opt
  <1> QED  BY <1>1, <1>2 DEF ProcessFIG0_1, SubchannelChange

\* So does the language.
LEMMA Kind0_5 ==
    ASSUME FicTypeOK, NEW e \in Figs, ProcessFIG0_5(e)
    PROVE  SubchannelChange
  <1>1. e.subchid \in Subchids /\ e.language \in Languages
    BY DEF ProcessFIG0_5, Figs
  <1>2. [subchannels[e.subchid] EXCEPT !.language = e.language] \in Subchannel
    BY <1>1 DEF FicTypeOK, Subchannel, Opt
  <1> QED  BY <1>1, <1>2 DEF ProcessFIG0_5, SubchannelChange

\* Service organisation replaces one service record and stores, with a primary
\* sub-channel, the audio component in it.
LEMMA Kind0_2 ==
    ASSUME FicTypeOK, NEW e \in Figs, ProcessFIG0_2(e)
    PROVE  ServiceChange
  <1> DEFINE s == services[e.sid]
             isPrimary == s.pri_comp_subchid = e.subchid
             changed == s.audio_comps[e.subchid] # e.audio \/ e.ps # isPrimary
             t == [s EXCEPT !.audio_comps[e.subchid] = e.audio,
                            !.pri_comp_subchid = IF e.ps THEN e.subchid ELSE @]
  <1>1. /\ e.sid \in Sids /\ e.subchid \in Subchids
        /\ e.audio \in AudioTypes /\ e.ps \in BOOLEAN
    BY DEF ProcessFIG0_2, Figs
  <1>2. s \in Service
    BY <1>1 DEF FicTypeOK
  <1>3. t \in Service
    BY <1>1, <1>2 DEF Service, Opt
  <1>4. SetService(e.sid, t, changed)
    BY DEF ProcessFIG0_2
  <1>5. ~changed => t = s
    BY <1>1, <1>2 DEF Service
  <1>6. Complete(s) => Complete(t)
    BY <1>1, <1>2, NoneAssumption DEF Service, Complete
  <1>7. PrimaryPresent(s) => PrimaryPresent(t)
    BY <1>1, <1>2, NoneAssumption DEF Service, PrimaryPresent, Opt
  <1>8. changed \in BOOLEAN
    OBVIOUS
  <1> HIDE DEF t, changed
  <1> QED  BY <1>1, <1>3, <1>4, <1>5, <1>6, <1>7, <1>8 DEF ServiceChange

\* A component definition replaces one service record.
LEMMA Kind0_8 ==
    ASSUME FicTypeOK, NEW e \in Figs, ProcessFIG0_8(e)
    PROVE  ServiceChange
  <1> DEFINE s == services[e.sid]
             changed == s.comp_defs[e.scids] # e.subchid
             t == [s EXCEPT !.comp_defs[e.scids] = e.subchid]
  <1>1. e.sid \in Sids /\ e.scids \in Scids /\ e.subchid \in Subchids
    BY DEF ProcessFIG0_8, Figs
  <1>2. s \in Service
    BY <1>1 DEF FicTypeOK
  <1>3. t \in Service
    BY <1>1, <1>2 DEF Service, Opt
  <1>4. SetService(e.sid, t, changed)
    BY DEF ProcessFIG0_8
  <1>5. ~changed => t = s
    BY <1>1, <1>2 DEF Service
  <1>6. Complete(s) => Complete(t)
    BY <1>2 DEF Service, Complete
  <1>7. PrimaryPresent(s) => PrimaryPresent(t)
    BY <1>2 DEF Service, PrimaryPresent
  <1>8. changed \in BOOLEAN
    OBVIOUS
  <1> HIDE DEF t, changed
  <1> QED  BY <1>1, <1>3, <1>4, <1>5, <1>6, <1>7, <1>8 DEF ServiceChange

\* So do user application data, of which the first stay.
LEMMA Kind0_13 ==
    ASSUME FicTypeOK, NEW e \in Figs, ProcessFIG0_13(e)
    PROVE  ServiceChange
  <1> DEFINE s == services[e.sid]
             new == s.comp_sls_uas[e.scids] = None
             t == [s EXCEPT !.comp_sls_uas[e.scids] = IF new THEN e.ua ELSE @]
  <1>1. e.sid \in Sids /\ e.scids \in Scids /\ e.ua \in UaData
    BY DEF ProcessFIG0_13, Figs
  <1>2. s \in Service
    BY <1>1 DEF FicTypeOK
  <1>3. t \in Service
    BY <1>1, <1>2 DEF Service, Opt
  <1>4. SetService(e.sid, t, new)
    BY DEF ProcessFIG0_13
  <1>5. ~new => t = s
    BY <1>1, <1>2 DEF Service
  <1>6. Complete(s) => Complete(t)
    BY <1>2 DEF Service, Complete
  <1>7. PrimaryPresent(s) => PrimaryPresent(t)
    BY <1>2 DEF Service, PrimaryPresent
  <1>8. new \in BOOLEAN
    OBVIOUS
  <1> HIDE DEF t, new
  <1> QED  BY <1>1, <1>3, <1>4, <1>5, <1>6, <1>7, <1>8 DEF ServiceChange

\* So does a programme type, static or dynamic.
LEMMA Kind0_17 ==
    ASSUME FicTypeOK, NEW e \in Figs, ProcessFIG0_17(e)
    PROVE  ServiceChange
  <1> DEFINE s == services[e.sid]
             changed == IF e.sd THEN s.pty_dynamic # e.pty
                        ELSE s.pty_static # e.pty
             t == IF e.sd THEN [s EXCEPT !.pty_dynamic = e.pty]
                  ELSE [s EXCEPT !.pty_static = e.pty]
  <1>1. e.sid \in Sids /\ e.pty \in Ptys /\ e.sd \in BOOLEAN
    BY DEF ProcessFIG0_17, Figs
  <1>2. s \in Service
    BY <1>1 DEF FicTypeOK
  <1>3. t \in Service
    BY <1>1, <1>2 DEF Service, Opt
  <1>4. SetService(e.sid, t, changed)
    BY <1>1 DEF ProcessFIG0_17
  <1>5. ~changed => t = s
    BY <1>1, <1>2 DEF Service
  <1>6. Complete(s) => Complete(t)
    BY <1>2 DEF Service, Complete
  <1>7. PrimaryPresent(s) => PrimaryPresent(t)
    BY <1>2 DEF Service, PrimaryPresent
  <1>8. changed \in BOOLEAN
    OBVIOUS
  <1> HIDE DEF t, changed
  <1> QED  BY <1>1, <1>3, <1>4, <1>5, <1>6, <1>7, <1>8 DEF ServiceChange

\* So does announcement support.
LEMMA Kind0_18 ==
    ASSUME FicTypeOK, NEW e \in Figs, ProcessFIG0_18(e)
    PROVE  ServiceChange
  <1> DEFINE s == services[e.sid]
             changed == s.asu_flags # e.asu_flags \/ s.cids # e.cids
             t == [s EXCEPT !.asu_flags = e.asu_flags, !.cids = e.cids]
  <1>1. e.sid \in Sids /\ e.asu_flags \in AsuFlags /\ e.cids \in SUBSET Cids
    BY DEF ProcessFIG0_18, Figs
  <1>2. s \in Service
    BY <1>1 DEF FicTypeOK
  <1>3. t \in Service
    BY <1>1, <1>2 DEF Service
  <1>4. SetService(e.sid, t, changed)
    BY DEF ProcessFIG0_18
  <1>5. ~changed => t = s
    BY <1>1, <1>2 DEF Service
  <1>6. Complete(s) => Complete(t)
    BY <1>2 DEF Service, Complete
  <1>7. PrimaryPresent(s) => PrimaryPresent(t)
    BY <1>2 DEF Service, PrimaryPresent
  <1>8. changed \in BOOLEAN
    OBVIOUS
  <1> HIDE DEF t, changed
  <1> QED  BY <1>1, <1>3, <1>4, <1>5, <1>6, <1>7, <1>8 DEF ServiceChange

\* So does a service label, and a service that had one keeps having one.
LEMMA Kind1_1 ==
    ASSUME FicTypeOK, NEW e \in Figs, ProcessFIG1_1(e)
    PROVE  ServiceChange
  <1> DEFINE s == services[e.sid]
             changed == s.label # e.label
             t == [s EXCEPT !.label = e.label]
  <1>1. e.sid \in Sids /\ e.label \in Labels
    BY DEF ProcessFIG1_1, Figs
  <1>2. s \in Service
    BY <1>1 DEF FicTypeOK
  <1>3. t \in Service
    BY <1>1, <1>2 DEF Service, Opt
  <1>4. SetService(e.sid, t, changed)
    BY DEF ProcessFIG1_1
  <1>5. ~changed => t = s
    BY <1>1, <1>2 DEF Service
  <1>6. Complete(s) => Complete(t)
    BY <1>1, <1>2, NoneAssumption DEF Service, Complete
  <1>7. PrimaryPresent(s) => PrimaryPresent(t)
    BY <1>2 DEF Service, PrimaryPresent
  <1>8. changed \in BOOLEAN
    OBVIOUS
  <1> HIDE DEF t, changed
  <1> QED  BY <1>1, <1>3, <1>4, <1>5, <1>6, <1>7, <1>8 DEF ServiceChange

\* So does a component label.
LEMMA Kind1_4 ==
    ASSUME FicTypeOK, NEW e \in Figs, ProcessFIG1_4(e)
    PROVE  ServiceChange
  <1> DEFINE s == services[e.sid]
             changed == s.comp_labels[e.scids] # e.label
             t == [s EXCEPT !.comp_labels[e.scids] = e.label]
  <1>1. e.sid \in Sids /\ e.scids \in Scids /\ e.label \in Labels
    BY DEF ProcessFIG1_4, Figs
  <1>2. s \in Service
    BY <1>1 DEF FicTypeOK
  <1>3. t \in Service
    BY <1>1, <1>2 DEF Service, Opt
  <1>4. SetService(e.sid, t, changed)
    BY DEF ProcessFIG1_4
  <1>5. ~changed => t = s
    BY <1>1, <1>2 DEF Service
  <1>6. Complete(s) => Complete(t)
    BY <1>2 DEF Service, Complete
  <1>7. PrimaryPresent(s) => PrimaryPresent(t)
    BY <1>2 DEF Service, PrimaryPresent
  <1>8. changed \in BOOLEAN
    OBVIOUS
  <1> HIDE DEF t, changed
  <1> QED  BY <1>1, <1>3, <1>4, <1>5, <1>6, <1>7, <1>8 DEF ServiceChange

\* The region replaces the ensemble and leaves its label.
LEMMA Kind0_9 ==
    ASSUME FicTypeOK, NEW e \in Figs, ProcessFIG0_9(e)
    PROVE  EnsembleChange
  <1>1. e.region \in Regions
    BY DEF ProcessFIG0_9, Figs
  <1> DEFINE ens == [ensemble EXCEPT !.region = e.region]
  <1>2. ens \in Ensemble /\ ens.label = ensemble.label
    BY <1>1 DEF FicTypeOK, Ensemble, Opt
  <1> QED  BY <1>2 DEF ProcessFIG0_9, EnsembleChange

\* So does announcement switching.
LEMMA Kind0_19 ==
    ASSUME FicTypeOK, NEW e \in Figs, ProcessFIG0_19(e)
    PROVE  EnsembleChange
  <1>1. e.cid \in Cids /\ e.asw \in Switchings
    BY DEF ProcessFIG0_19, Figs
  <1> DEFINE ens == [ensemble EXCEPT !.asw_clusters[e.cid] = e.asw]
  <1>2. ens \in Ensemble /\ ens.label = ensemble.label
    BY <1>1 DEF FicTypeOK, Ensemble, Opt
  <1> QED  BY <1>2 DEF ProcessFIG0_19, EnsembleChange

\* The ensemble label replaces the ensemble and gives it a label.
LEMMA Kind1_0 ==
    ASSUME FicTypeOK, NEW e \in Figs, ProcessFIG1_0(e)
    PROVE  EnsembleChange
  <1>1. e.eid \in EIds /\ e.label \in Labels
    BY DEF ProcessFIG1_0, Figs
  <1> DEFINE ens == [ensemble EXCEPT !.eid = e.eid, !.label = e.label]
  <1>2. ens \in Ensemble /\ ens.label # None
    BY <1>1, NoneAssumption DEF FicTypeOK, Ensemble, Opt
  <1>3. SetEnsemble(ens, {})
    BY DEF ProcessFIG1_0
  <1>4. {} \in SUBSET Sids
    OBVIOUS
  <1> HIDE DEF ens
  <1> QED  BY <1>2, <1>3, <1>4 DEF EnsembleChange

\* Every handler is of one of the four kinds.
LEMMA HandlerKind ==
    ASSUME FicTypeOK, NEW e \in Figs, ProcessFIG(e)
    PROVE  ServiceChange \/ SubchannelChange \/ EnsembleChange \/ NoChange
  <1>1. ProcessFIG0_10(e) => NoChange
    BY DEF ProcessFIG0_10, Figs, NoChange, Opt
  <1>2. Ignore(e) => NoChange
    BY DEF Ignore, database, NoChange, FicTypeOK
  <1> QED
    BY <1>1, <1>2, Kind0_1, Kind0_2, Kind0_5, Kind0_8, Kind0_9, Kind0_13,
       Kind0_17, Kind0_18, Kind0_19, Kind1_0, Kind1_1, Kind1_4
       DEF ProcessFIG

-----------------------------------------------------------------------------
(* Type correctness. *)

\* Whatever entry is processed, the database stays well typed.
LEMMA HandlerTypeOK ==
    ASSUME FicTypeOK, NEW e \in Figs, ProcessFIG(e)
    PROVE  FicTypeOK'
  <1>1. CASE ServiceChange
    BY <1>1 DEF ServiceChange, SetService, UpdateServices, FicTypeOK
  <1>2. CASE SubchannelChange
    BY <1>2 DEF SubchannelChange, SetSubchannel, UpdateServices, Users, FicTypeOK
  <1>3. CASE EnsembleChange
    BY <1>3 DEF EnsembleChange, SetEnsemble, UpdateServices, UpdateEnsemble,
                FicTypeOK
  <1>4. CASE NoChange
    BY <1>4 DEF NoChange, FicTypeOK
  <1> QED  BY <1>1, <1>2, <1>3, <1>4, HandlerKind

\* The state of a decoder that has heard nothing is well typed.
LEMMA NothingHeardTypeOK ==
    /\ NewServices \in [Sids -> Service]
    /\ NewSubchannels \in [Subchids -> Subchannel]
    /\ NewEnsemble \in Ensemble
  BY AsuFlagsAssumption
     DEF NewServices, NewService, Service, NewSubchannels, NewSubchannel,
         Subchannel, NewEnsemble, Ensemble, Opt

\* The decoder starts well typed.
LEMMA FicInitTypeOK == FicInit => FicTypeOK
  BY NothingHeardTypeOK DEF FicInit, FicTypeOK, Opt

\* Reset leaves it well typed.
LEMMA ResetTypeOK == Reset => FicTypeOK'
  BY NothingHeardTypeOK DEF Reset, FicTypeOK, Opt

\* The decoder's database is well typed after any sequence of entries and resets.
THEOREM FicTypeCorrect == FicSpec => []FicTypeOK
  <1>1. FicTypeOK /\ [FicNext]_ficVars => FicTypeOK'
    <2>1. ASSUME FicTypeOK, UNCHANGED ficVars
          PROVE  FicTypeOK'
      BY <2>1 DEF ficVars, FicTypeOK
    <2> QED  BY <2>1, HandlerTypeOK, ResetTypeOK DEF FicNext
  <1> QED  BY <1>1, FicInitTypeOK, PTL DEF FicSpec

-----------------------------------------------------------------------------
(* The primary component is present. *)

\* Whatever entry is processed, primary components stay present.
LEMMA HandlerPrimary ==
    ASSUME FicTypeOK, PrimaryHasComponent, NEW e \in Figs, ProcessFIG(e)
    PROVE  PrimaryHasComponent'
  <1>1. CASE ServiceChange
    BY <1>1 DEF ServiceChange, SetService, PrimaryHasComponent, FicTypeOK
  <1>2. CASE UNCHANGED services
    BY <1>2 DEF PrimaryHasComponent
  <1> QED
    BY <1>1, <1>2, HandlerKind
       DEF SubchannelChange, SetSubchannel, EnsembleChange, SetEnsemble, NoChange

\* No service of a decoder that has heard nothing has a primary sub-channel.
LEMMA NewServicesPrimary ==
    \A s \in Sids : PrimaryPresent(NewServices[s]) /\ ~Complete(NewServices[s])
  BY DEF NewServices, NewService, PrimaryPresent, Complete

\* UpdateListedService always finds the audio component of the primary
\* sub-channel, so the at() there never throws.
THEOREM PrimaryNeverMissing == FicSpec => []PrimaryHasComponent
  <1>1. FicInit => PrimaryHasComponent
    BY NewServicesPrimary DEF FicInit, PrimaryHasComponent
  <1>2. FicTypeOK /\ PrimaryHasComponent /\ [FicNext]_ficVars
            => PrimaryHasComponent'
    <2>1. ASSUME PrimaryHasComponent, UNCHANGED ficVars
          PROVE  PrimaryHasComponent'
      BY <2>1 DEF ficVars, PrimaryHasComponent
    <2>2. Reset => PrimaryHasComponent'
      BY NewServicesPrimary DEF Reset, PrimaryHasComponent
    <2> QED  BY <2>1, <2>2, HandlerPrimary DEF FicNext
  <1> QED  BY <1>1, <1>2, FicTypeCorrect, PTL DEF FicSpec

-----------------------------------------------------------------------------
(* No listing changes unnoticed. *)

\* A handler never makes a complete service incomplete.
LEMMA HandlerKeepsComplete ==
    ASSUME FicTypeOK, NEW e \in Figs, ProcessFIG(e), NEW s \in Sids,
           Complete(services[s])
    PROVE  Complete(services'[s])
  <1>1. CASE ServiceChange
    BY <1>1 DEF ServiceChange, SetService, FicTypeOK
  <1>2. CASE UNCHANGED services
    BY <1>2
  <1> QED
    BY <1>1, <1>2, HandlerKind
       DEF SubchannelChange, SetSubchannel, EnsembleChange, SetEnsemble, NoChange

\* A handler forwards complete services only.
LEMMA HandlerForwardsComplete ==
    ASSUME FicTypeOK, NEW e \in Figs, ProcessFIG(e)
    PROVE  updated' \subseteq {s \in Sids : Complete(services'[s])}
  BY HandlerKind
     DEF ServiceChange, SetService, SubchannelChange, SetSubchannel, Users,
         EnsembleChange, SetEnsemble, NoChange, UpdateServices

\* The listing of a service depends on its record and on one sub-channel.
LEMMA ListingDependsOn ==
    ASSUME NEW s \in Sids, services'[s] = services[s],
           LET b == services[s].pri_comp_subchid
           IN  subchannels'[b] = subchannels[b]
    PROVE  CurrentListing(s)' = CurrentListing(s)
  BY DEF CurrentListing, PrimaryListing, Listing

\* A complete service that a handler does not forward was complete before, with
\* the same listing.
LEMMA HandlerForwards ==
    ASSUME FicTypeOK, PrimaryHasComponent, NEW e \in Figs, ProcessFIG(e),
           NEW s \in Sids, Complete(services'[s]), s \notin updated'
    PROVE  Complete(services[s]) /\ CurrentListing(s)' = CurrentListing(s)
  <1>1. CASE ServiceChange
    <2>1. services'[s] = services[s]
      BY <1>1 DEF ServiceChange, SetService, UpdateServices, FicTypeOK
    <2>2. subchannels' = subchannels
      BY <1>1 DEF ServiceChange, SetService
    <2> QED  BY <2>1, <2>2, ListingDependsOn
  <1>2. CASE SubchannelChange
    <2>1. services' = services
      BY <1>2 DEF SubchannelChange, SetSubchannel
    <2> DEFINE pri == services[s].pri_comp_subchid
    <2>2. services[s].audio_comps[pri] # None
      BY <2>1 DEF PrimaryHasComponent, PrimaryPresent, Complete
    <2>3. PICK b \in Subchids, sc \in Subchannel : SetSubchannel(b, sc)
      BY <1>2 DEF SubchannelChange
    <2>4. subchannels'[pri] = subchannels[pri]
      <3>1. CASE sc = subchannels[b]
        BY <3>1, <2>3 DEF SetSubchannel, FicTypeOK
      <3>2. CASE sc # subchannels[b]
        <4>1. s \notin Users(b)
          BY <3>2, <2>3 DEF SetSubchannel, UpdateServices
        <4>2. pri # b
          BY <4>1, <2>2 DEF Users
        <4> QED  BY <4>2, <2>3 DEF SetSubchannel, FicTypeOK
      <3> QED  BY <3>1, <3>2
    <2> QED  BY <2>1, <2>4, ListingDependsOn
  <1>3. CASE UNCHANGED <<services, subchannels>>
    BY <1>3, ListingDependsOn
  <1> QED
    BY <1>1, <1>2, <1>3, HandlerKind DEF EnsembleChange, SetEnsemble, NoChange

\* The observer is told of every change of every listing.
THEOREM ObserverMissesNothing == FicSpec => NoSilentChange
  <1> DEFINE Unforwarded ==
          \A s \in Sids :
              Complete(services'[s]) /\ s \notin updated'
                  => Complete(services[s]) /\ CurrentListing(s)' = CurrentListing(s)
  <1>1. FicTypeOK /\ PrimaryHasComponent /\ [FicNext]_ficVars
            => [Unforwarded]_ficVars
    <2>1. Reset => Unforwarded
      BY NewServicesPrimary DEF Reset
    <2> QED  BY <2>1, HandlerForwards DEF FicNext
  <1> QED
    BY <1>1, FicTypeCorrect, PrimaryNeverMissing, PTL DEF FicSpec, NoSilentChange

=============================================================================
