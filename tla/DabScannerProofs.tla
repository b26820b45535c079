-------------------------- MODULE DabScannerProofs --------------------------
(***************************************************************************)
(* Theorems about the scan, for any number of frequencies, any broadcast   *)
(* on them, any number of quiet reads and, but for LinesAreAttributed,     *)
(* with tuning failures.                                                   *)
(***************************************************************************)
EXTENDS DabScanner, FicDecoderProofs, FiniteSetTheorems, SequenceTheorems

-----------------------------------------------------------------------------
(* The last call of an UpdateService. *)

\* The elements of a finite set, as a sequence.
LEMMA SetToSeqIsSeq ==
    ASSUME NEW S, IsFiniteSet(S)
    PROVE  /\ SetToSeq(S) \in [1..Cardinality(S) -> S]
           /\ Cardinality(S) \in Nat
  <1>1. Cardinality(S) \in Nat /\ ExistsBijection(1..Cardinality(S), S)
    BY FS_CardinalityType
  <1>2. \E f \in [1..Cardinality(S) -> S] : IsInjective(f)
    BY <1>1 DEF ExistsBijection, Bijection, Injection
  <1> QED  BY <1>1, <1>2 DEF SetToSeq

\* The scanner overwrites the entry of a service with each call; the call that
\* stays is the one for the primary component.
LEMMA LastCallIsPrimary ==
    ASSUME NEW sc, NEW sid, NEW service
    PROVE  Last(ServiceCalls(sc, sid, service)) = PrimaryListing(sc, sid, service)
  <1> DEFINE S == Secondary(service)
             n == Cardinality(S)
             q == SetToSeq(S)
             calls == [i \in DOMAIN q |-> Listing(sc, sid, service, q[i], TRUE)]
             primary == PrimaryListing(sc, sid, service)
             T == {calls[i] : i \in 1..n} \cup {primary}
  <1>1. IsFiniteSet(S)
    <2>1. S \in SUBSET (0..15)
      BY ScidsAssumption DEF Secondary
    <2>2. IsFiniteSet(0..15)
      <3>1. 0 \in Int /\ 15 \in Int
        OBVIOUS
      <3> QED  BY <3>1, FS_Interval, Zenon
    <2> QED  BY <2>1, <2>2, FS_Subset
  <1>2. n \in Nat /\ DOMAIN q = 1..n
    BY <1>1, SetToSeqIsSeq
  <1> HIDE DEF q
  <1>3. calls \in [1..n -> T]
    BY <1>2
  <1> HIDE DEF calls, T, n
  <1>4. calls \in Seq(T) /\ Len(calls) = n
    BY <1>2, <1>3 DEF n
  <1>5. primary \in T
    BY DEF T
  <1>6. ServiceCalls(sc, sid, service) = Append(calls, primary)
    BY DEF ServiceCalls, q, calls
  <1> HIDE DEF primary
  <1>7. /\ Len(Append(calls, primary)) = Len(calls) + 1
        /\ Append(calls, primary)[Len(calls) + 1] = primary
    BY <1>4, <1>5, AppendProperties
  <1> QED  BY <1>6, <1>7 DEF Last, primary

-----------------------------------------------------------------------------
(* Types, and where the loop stands. *)

\* While a frequency is being collected there are reads left, and the loop has
\* frequencies left until it is done.
LoopInv ==
    /\ pc = "collect" => collection_count < QuietReads
    /\ pc # "done" => at < NumFreqs

\* The types of the scanner's own variables.
ScanTypeOK ==
    /\ pc \in {"tune", "collect", "report", "done"}
    /\ at \in 0..NumFreqs
    /\ tuned \in 0..NumFreqs
    /\ config \in DOMAIN OnAir[tuned]
    /\ collection_count \in 0..QuietReads
    /\ m_ensemble_label \in Opt(Texts)

LoopIInv == FicTypeOK /\ ScanTypeOK /\ LoopInv

\* The scan starts well typed.
LEMMA LoopInit == Init => LoopIInv
  <1> SUFFICES ASSUME Init PROVE LoopIInv
    OBVIOUS
  <1>1. FicTypeOK
    BY FicInitTypeOK DEF Init
  <1>2. 0 \in 0..NumFreqs /\ 0 < NumFreqs /\ 0 \in 0..QuietReads
    BY FreqsAssumption, QuietReadsAssumption
  <1>3. 1 \in DOMAIN OnAir[0]
    BY <1>2, OnAirAssumption
  <1> QED  BY <1>1, <1>2, <1>3 DEF Init, LoopIInv, ScanTypeOK, LoopInv, Opt

\* An entry received is an entry of the decoder's domain.
LEMMA ReceivedIsFig ==
    ASSUME ScanTypeOK, NEW e, ReceiveFig(e)
    PROVE  e \in Figs /\ ProcessFIG(e)
  BY OnAirAssumption DEF ScanTypeOK, ReceiveFig

\* Every step of the scan keeps it so.
LEMMA LoopStep == LoopIInv /\ [Next]_vars => LoopIInv'
  <1> SUFFICES ASSUME LoopIInv, [Next]_vars
               PROVE  LoopIInv'
    OBVIOUS
  <1> USE DEF LoopIInv
  <1>1. CASE StartFrequency
    <2>1. FicTypeOK'
      BY <1>1, ResetTypeOK DEF StartFrequency
    <2>2. tuned' \in 0..NumFreqs /\ config' \in DOMAIN OnAir[tuned']
      BY <1>1, FreqsAssumption DEF StartFrequency, Tune, ScanTypeOK
    <2> QED
      BY <1>1, <2>1, <2>2, QuietReadsAssumption
         DEF StartFrequency, ScanTypeOK, LoopInv, Opt
  <1>2. ASSUME NEW e \in OnAir[tuned][config], ReceiveFig(e)
        PROVE  LoopIInv'
    <2>1. e \in Figs /\ ProcessFIG(e)
      BY <1>2, ReceivedIsFig
    <2>2. FicTypeOK'
      BY <2>1, HandlerTypeOK
    <2>3. ensembleUpdated' => ensemble'.label \in Labels
      BY <2>1, <2>2, HandlerKind
         DEF ServiceChange, SetService, SubchannelChange, SetSubchannel,
             EnsembleChange, SetEnsemble, UpdateEnsemble, NoChange, Ensemble, Opt
    <2>4. m_ensemble_label' \in Opt(Texts)
      BY <1>2, <2>3, TextsAssumption
         DEF ReceiveFig, FICChangeEnsemble, ScanTypeOK, Opt
    <2> QED
      BY <1>2, <2>2, <2>4, QuietReadsAssumption
         DEF ReceiveFig, FICChangeService, ScanTypeOK, LoopInv
  <1>3. CASE EndRead
    BY <1>3, QuietReadsAssumption
       DEF EndRead, ficVars, ScanTypeOK, LoopInv, FicTypeOK
  <1>4. CASE ReportServices
    BY <1>4, FreqsAssumption
       DEF ReportServices, ficVars, ScanTypeOK, LoopInv, FicTypeOK
  <1>5. CASE Reconfigure
    <2>1. config' \in DOMAIN OnAir[tuned]
      BY <1>5, OnAirAssumption DEF Reconfigure, ScanTypeOK
    <2> QED
      BY <1>5, <2>1 DEF Reconfigure, ficVars, ScanTypeOK, LoopInv, FicTypeOK
  <1>6. CASE UNCHANGED vars
    BY <1>6 DEF vars, scanVars, ficVars, ScanTypeOK, LoopInv, FicTypeOK
  <1> QED  BY <1>1, <1>2, <1>3, <1>4, <1>5, <1>6 DEF Next

\* So the state of the loop is well typed at all times.
LEMMA LoopCorrect == Spec => []LoopIInv
  BY LoopInit, LoopStep, PTL DEF Spec

-----------------------------------------------------------------------------
(* The scanner's copies follow the decoder's database. *)

\* The inductive invariant.  ListedIsCurrent alone is not inductive: that a
\* change of a sub-channel reaches all the services it is listed for depends on
\* the primary component being one of the service's components.
CopiesInv ==
    LoopIInv /\ PrimaryHasComponent /\ ListedIsCurrent /\ EnsembleLabelIsCurrent

\* Nothing is listed of a decoder that has heard nothing.
LEMMA ResetCopies ==
    ASSUME services' = NewServices, ensemble' = NewEnsemble,
           listed' = NoListing, m_ensemble_label' = None
    PROVE  PrimaryHasComponent' /\ ListedIsCurrent' /\ EnsembleLabelIsCurrent'
  <1>1. PrimaryHasComponent'
    BY NewServicesPrimary DEF PrimaryHasComponent
  <1>2. {t \in Sids : Complete(services'[t])} = {}
    BY NewServicesPrimary
  <1>3. ListedIsCurrent'
    BY <1>2 DEF ListedIsCurrent, NoListing
  <1>4. EnsembleLabelIsCurrent'
    BY DEF EnsembleLabelIsCurrent, Requirements!Text, NewEnsemble
  <1> QED  BY <1>1, <1>3, <1>4

\* Nothing is listed before the scan starts.
LEMMA CopiesInit == Init => CopiesInv
  <1> SUFFICES ASSUME Init PROVE CopiesInv
    OBVIOUS
  <1>1. PrimaryHasComponent
    BY NewServicesPrimary DEF Init, FicInit, PrimaryHasComponent
  <1>2. {t \in Sids : Complete(services[t])} = {}
    BY NewServicesPrimary DEF Init, FicInit
  <1>3. ListedIsCurrent
    BY <1>2 DEF Init, ListedIsCurrent, NoListing
  <1>4. EnsembleLabelIsCurrent
    BY DEF Init, FicInit, EnsembleLabelIsCurrent, Requirements!Text, NewEnsemble
  <1> QED  BY <1>1, <1>3, <1>4, LoopInit DEF CopiesInv

\* FICChangeService brings the listing up to date with the database.
LEMMA ReceiveListed ==
    ASSUME CopiesInv, NEW e, ReceiveFig(e)
    PROVE  ListedIsCurrent'
  <1>1. e \in Figs /\ ProcessFIG(e) /\ FicTypeOK /\ PrimaryHasComponent
    BY ReceivedIsFig DEF CopiesInv, LoopIInv
  <1> DEFINE Before == {t \in Sids : Complete(services[t])}
             After == {t \in Sids : Complete(services'[t])}
  <1>2. listed = [s \in Before |-> CurrentListing(s)]
    BY DEF CopiesInv, ListedIsCurrent
  <1>3. After = Before \cup updated'
    BY <1>1, HandlerKeepsComplete, HandlerForwardsComplete, HandlerForwards
  <1>4. ASSUME NEW s \in updated'
        PROVE  Last(ServiceCalls(subchannels, s, services[s]))' = CurrentListing(s)'
    BY LastCallIsPrimary DEF CurrentListing
  <1>5. ASSUME NEW s \in After, s \notin updated'
        PROVE  listed[s] = CurrentListing(s)'
    BY <1>1, <1>2, <1>3, <1>5, HandlerForwards
  <1>6. listed' = [s \in After |->
                      IF s \in updated'
                      THEN Last(ServiceCalls(subchannels, s, services[s]))'
                      ELSE listed[s]]
    BY <1>2, <1>3 DEF ReceiveFig, FICChangeService
  <1> HIDE DEF Before
  <1>7. listed' = [s \in After |-> CurrentListing(s)']
    BY <1>4, <1>5, <1>6
  <1> QED  BY <1>7 DEF ListedIsCurrent

\* FICChangeEnsemble likewise.
LEMMA ReceiveEnsemble ==
    ASSUME CopiesInv, NEW e, ReceiveFig(e)
    PROVE  EnsembleLabelIsCurrent'
  <1>1. e \in Figs /\ ProcessFIG(e) /\ FicTypeOK
    BY ReceivedIsFig DEF CopiesInv, LoopIInv
  <1>2. \/ ensembleUpdated' = TRUE /\ ensemble'.label # None
        \/ ensembleUpdated' = FALSE /\ ensemble'.label = ensemble.label
    BY <1>1, HandlerKind
       DEF ServiceChange, SetService, SubchannelChange, SetSubchannel,
           EnsembleChange, SetEnsemble, UpdateEnsemble, NoChange
  <1> QED
    BY <1>2 DEF CopiesInv, ReceiveFig, FICChangeEnsemble, EnsembleLabelIsCurrent,
                Requirements!Text

\* Every step keeps the scanner's copies equal to what the decoder's database says.
LEMMA CopiesStep == CopiesInv /\ [Next]_vars => CopiesInv'
  <1> SUFFICES ASSUME CopiesInv, [Next]_vars
               PROVE  CopiesInv'
    OBVIOUS
  <1>1. LoopIInv'
    BY LoopStep DEF CopiesInv
  <1>2. CASE StartFrequency
    BY <1>1, <1>2, ResetCopies DEF StartFrequency, Reset, CopiesInv
  <1>3. ASSUME NEW e \in OnAir[tuned][config], ReceiveFig(e)
        PROVE  CopiesInv'
    <2>1. PrimaryHasComponent'
      BY <1>3, ReceivedIsFig, HandlerPrimary DEF CopiesInv, LoopIInv
    <2> QED  BY <1>1, <1>3, <2>1, ReceiveListed, ReceiveEnsemble DEF CopiesInv
  <1>4. CASE UNCHANGED <<services, subchannels, ensemble, listed,
                         m_ensemble_label>>
    BY <1>1, <1>4 DEF CopiesInv, PrimaryHasComponent, ListedIsCurrent,
                      CurrentListing, EnsembleLabelIsCurrent
  <1> QED
    BY <1>2, <1>3, <1>4
       DEF Next, EndRead, ReportServices, Reconfigure, vars, scanVars, ficVars

\* So they are equal at all times.
LEMMA CopiesCorrect == Spec => []CopiesInv
  BY CopiesInit, CopiesStep, PTL DEF Spec

\* Whenever the scanner looks at its listing, it is the listing of what the
\* decoder knows: none missing, none stale, the primary component in each.
THEOREM ListingFollowsDatabase == Spec => []ListedIsCurrent
  BY CopiesCorrect, PTL DEF CopiesInv

\* The ensemble name the scanner keeps is the decoder's.
THEOREM EnsembleLabelFollows == Spec => []EnsembleLabelIsCurrent
  BY CopiesCorrect, PTL DEF CopiesInv

\* Type correctness; for the listing it rests on its being current.
THEOREM TypeCorrect == Spec => []TypeOK
  <1>1. CopiesInv => TypeOK
    <2> SUFFICES ASSUME CopiesInv
                 PROVE  DOMAIN listed \subseteq Sids
                        /\ \A s \in DOMAIN listed : ListingOK(listed[s])
      BY DEF CopiesInv, LoopIInv, ScanTypeOK, TypeOK
    <2> SUFFICES ASSUME NEW s \in Sids, Complete(services[s])
                 PROVE  ListingOK(CurrentListing(s))
      BY DEF CopiesInv, ListedIsCurrent
    <2>1. services[s] \in Service /\ PrimaryPresent(services[s])
      BY DEF CopiesInv, LoopIInv, FicTypeOK, PrimaryHasComponent
    <2>2. /\ services[s].pri_comp_subchid \in Subchids
          /\ services[s].label \in Labels
          /\ services[s].audio_comps[services[s].pri_comp_subchid] \in AudioTypes
      BY <2>1 DEF Service, Complete, PrimaryPresent, Opt
    <2> QED
      BY <2>2 DEF ListingOK, CurrentListing, PrimaryListing, Listing, CopiesInv,
                  LoopIInv, FicTypeOK
  <1> QED  BY <1>1, CopiesCorrect, PTL

-----------------------------------------------------------------------------
(* The scan implements the requirements. *)

\* The instance has the definitions of FicDatabase under names of its own.
LEMMA SameBlank ==
    Requirements!Blank = [services |-> NewServices, subchannels |-> NewSubchannels,
                          ensemble |-> NewEnsemble]
  BY DEF Requirements!Blank, Requirements!NewServices, NewServices,
         Requirements!NewService, NewService, Requirements!NewSubchannels,
         NewSubchannels, Requirements!NewSubchannel, NewSubchannel,
         Requirements!NewEnsemble, NewEnsemble

\* A service is complete for Playlist when it is for the decoder.
LEMMA SameComplete ==
    \A service : Requirements!Complete(service) <=> Complete(service)
  BY DEF Requirements!Complete, Complete

\* It is listed the same.
LEMMA SameListing ==
    \A sc, sid, service :
        Requirements!PrimaryListing(sc, sid, service)
            = PrimaryListing(sc, sid, service)
  BY DEF Requirements!PrimaryListing, PrimaryListing, Requirements!Secondary,
         Secondary, Requirements!Listing, Listing, Requirements!SlsScids, SlsScids,
         Requirements!SlsAppType, SlsAppType, Requirements!GetSLSAppType,
         GetSLSAppType

\* The scan starts as Playlist does.
LEMMA ImplementsInit == Init => Requirements!Init
  BY SameBlank DEF Init, Heard, Requirements!Init

\* At the moment of the report the lines are those of the knowledge heard.
LEMMA ReportedLines ==
    ASSUME CopiesInv, ReportServices
    PROVE  playlist' = playlist \cup Requirements!Lines(at + 1, Knowledge)
  <1> DEFINE Done == {t \in Sids : Complete(services[t])}
             name == Requirements!Text(ensemble.label)
  <1>1. DOMAIN listed = Done /\ \A s \in Done : listed[s] = CurrentListing(s)
    BY DEF CopiesInv, ListedIsCurrent
  <1>2. m_ensemble_label = name
    BY DEF CopiesInv, EnsembleLabelIsCurrent
  <1>3. Requirements!Lines(at + 1, Knowledge)
            = {Requirements!Line(at + 1, name, CurrentListing(s)) : s \in Done}
    BY SameComplete, SameListing DEF Requirements!Lines, Knowledge, CurrentListing
  <1> HIDE DEF Done, name
  <1>4. {Requirements!Line(at + 1, m_ensemble_label, listed[s]) : s \in DOMAIN listed}
            = {Requirements!Line(at + 1, name, CurrentListing(s)) : s \in Done}
    BY <1>1, <1>2
  <1> QED  BY <1>3, <1>4 DEF ReportServices

\* Every step of the scan is one of Playlist, or a stutter: StartFrequency and each
\* entry learn, ReportServices publishes.
LEMMA ImplementsStep ==
    CopiesInv /\ [Next]_vars => [Requirements!Next]_(Requirements!playlistVars)
  <1> SUFFICES ASSUME CopiesInv, [Next]_vars
               PROVE  [Requirements!Next]_(Requirements!playlistVars)
    OBVIOUS
  <1>1. CASE StartFrequency
    BY <1>1 DEF StartFrequency, Reset, Heard, Knowledge, Requirements!playlistVars
  <1>2. ASSUME NEW e \in OnAir[tuned][config], ReceiveFig(e)
        PROVE  Requirements!Learn
    <2>1. at < NumFreqs
      BY <1>2 DEF CopiesInv, LoopIInv, LoopInv, ReceiveFig
    <2>2. \A s \in Sids : Complete(services[s]) => Complete(services'[s])
      BY <1>2, ReceivedIsFig, HandlerKeepsComplete DEF CopiesInv, LoopIInv
    <2>3. Heard.services = services /\ Heard'.services = services'
      BY <1>2 DEF ReceiveFig, Heard, Knowledge
    <2> QED
      BY <1>2, <2>1, <2>2, <2>3, SameComplete DEF ReceiveFig, Requirements!Learn
  <1>3. CASE EndRead
    BY <1>3 DEF EndRead, ficVars, Heard, Knowledge, Requirements!playlistVars
  <1>4. CASE ReportServices
    <2>1. at < NumFreqs
      BY <1>4 DEF CopiesInv, LoopIInv, LoopInv, ReportServices
    <2>2. Heard = Knowledge /\ Heard' = Requirements!Blank
      BY <1>4, SameBlank DEF ReportServices, Heard
    <2> QED
      BY <1>4, <2>1, <2>2, ReportedLines
         DEF ReportServices, Requirements!Next, Requirements!Publish
  <1>5. CASE Reconfigure
    BY <1>5 DEF Reconfigure, ficVars, Heard, Knowledge, Requirements!playlistVars
  <1>6. CASE UNCHANGED vars
    BY <1>6 DEF vars, scanVars, ficVars, Heard, Knowledge,
                Requirements!playlistVars
  <1> QED
    BY <1>1, <1>2, <1>3, <1>4, <1>5, <1>6 DEF Next, Requirements!Next

\* The scan, with its two incrementally kept copies and its counted reads, does
\* what Playlist asks for.
THEOREM ScanImplementsPlaylist == Spec => ImplementsPlaylist
  BY ImplementsInit, ImplementsStep, CopiesCorrect, PTL
     DEF Spec, ImplementsPlaylist, Requirements!Spec

-----------------------------------------------------------------------------
(* No line for another multiplex's services *)

\* What the record of service s holds has been sent by an entry of F each.
BasedOn(service, s, F) ==
    /\ service.label # None =>
           \E e \in F : e.fig = "1/1" /\ e.sid = s /\ e.label = service.label
    /\ service.pri_comp_subchid # None =>
           \E e \in F : /\ e.fig = "0/2" /\ e.sid = s
                        /\ e.subchid = service.pri_comp_subchid /\ e.ps
    /\ \A b \in Subchids : service.audio_comps[b] # None =>
           \E e \in F : /\ e.fig = "0/2" /\ e.sid = s /\ e.subchid = b
                        /\ e.audio = service.audio_comps[b]

\* A handler that leaves these fields alone, or sets them from its entry.
LEMMA RecordBasedOn ==
    ASSUME FicTypeOK, NEW F, NEW sid \in Sids, NEW t, services' = [services EXCEPT ![sid] = t],
           BasedOn(services[sid], sid, F) => BasedOn(t, sid, F),
           NEW s \in Sids, BasedOn(services[s], s, F)
    PROVE  BasedOn(services'[s], s, F)
  BY DEF FicTypeOK

\* What is not looked at may change.
LEMMA SameBasedOn ==
    ASSUME NEW r, NEW t, NEW s, NEW F, BasedOn(r, s, F), t.label = r.label,
           t.pri_comp_subchid = r.pri_comp_subchid, t.audio_comps = r.audio_comps
    PROVE  BasedOn(t, s, F)
  BY DEF BasedOn

\* Every handler leaves the records based on what has been sent, its own entry
\* included: it takes label, primary sub-channel and component types from the
\* entry of its own kind only, and leaves the others alone.
LEMMA HandlerBasedOn ==
    ASSUME FicTypeOK, NEW F, NEW e \in F, e \in Figs, ProcessFIG(e),
           NEW s \in Sids, BasedOn(services[s], s, F)
    PROVE  BasedOn(services'[s], s, F)
  <1> DEFINE r == services[e.sid]
  <1>1. CASE ProcessFIG0_2(e)
      <2> DEFINE t == [r EXCEPT !.audio_comps[e.subchid] = e.audio,
                                !.pri_comp_subchid = IF e.ps THEN e.subchid ELSE @]
      <2>1. e.sid \in Sids /\ e.subchid \in Subchids /\ e.ps \in BOOLEAN /\ e.fig = "0/2"
          BY <1>1 DEF ProcessFIG0_2, Figs
      <2>2. services' = [services EXCEPT ![e.sid] = t]
          BY <1>1 DEF ProcessFIG0_2, SetService
      <2>3. r \in Service BY <2>1 DEF FicTypeOK
      <2>4. /\ t.label = r.label
            /\ t.pri_comp_subchid = IF e.ps THEN e.subchid ELSE r.pri_comp_subchid
            /\ \A b \in Subchids :
                   t.audio_comps[b] = IF b = e.subchid THEN e.audio ELSE r.audio_comps[b]
          BY <2>1, <2>3 DEF Service
      <2> HIDE DEF t, r
      <2>5. ASSUME BasedOn(r, e.sid, F) PROVE BasedOn(t, e.sid, F)
          <3>1. t.label # None =>
                    \E d \in F : d.fig = "1/1" /\ d.sid = e.sid /\ d.label = t.label
              BY <2>4, <2>5 DEF BasedOn
          <3>2. t.pri_comp_subchid # None =>
                    \E d \in F : /\ d.fig = "0/2" /\ d.sid = e.sid
                                 /\ d.subchid = t.pri_comp_subchid /\ d.ps
              BY <2>1, <2>4, <2>5 DEF BasedOn
          <3>3. ASSUME NEW b \in Subchids, t.audio_comps[b] # None
                PROVE  \E d \in F : /\ d.fig = "0/2" /\ d.sid = e.sid /\ d.subchid = b
                                    /\ d.audio = t.audio_comps[b]
              BY <2>1, <2>4, <2>5, <3>3 DEF BasedOn
          <3> QED BY <3>1, <3>2, <3>3 DEF BasedOn
      <2> QED BY <2>1, <2>2, <2>5, RecordBasedOn DEF r
  <1>2. CASE ProcessFIG1_1(e)
      <2> DEFINE t == [r EXCEPT !.label = e.label]
      <2>1. e.sid \in Sids /\ e.fig = "1/1" BY <1>2 DEF ProcessFIG1_1, Figs
      <2>2. services' = [services EXCEPT ![e.sid] = t]
          BY <1>2 DEF ProcessFIG1_1, SetService
      <2>3. r \in Service BY <2>1 DEF FicTypeOK
      <2>4. /\ t.label = e.label /\ t.pri_comp_subchid = r.pri_comp_subchid
            /\ t.audio_comps = r.audio_comps
          BY <2>3 DEF Service
      <2> HIDE DEF t, r
      <2>5. BasedOn(r, e.sid, F) => BasedOn(t, e.sid, F) BY <2>1, <2>4 DEF BasedOn
      <2> QED BY <2>1, <2>2, <2>5, RecordBasedOn DEF r
  <1>3. ASSUME NEW t, e.sid \in Sids, services' = [services EXCEPT ![e.sid] = t],
               t.label = r.label, t.pri_comp_subchid = r.pri_comp_subchid,
               t.audio_comps = r.audio_comps
        PROVE  BasedOn(services'[s], s, F)
      BY <1>3, SameBasedOn, RecordBasedOn
  <1>4. CASE ProcessFIG0_8(e)
      <2> DEFINE t == [r EXCEPT !.comp_defs[e.scids] = e.subchid]
      <2>1. e.sid \in Sids BY <1>4 DEF ProcessFIG0_8, Figs
      <2>2. r \in Service BY <2>1 DEF FicTypeOK
      <2>3. services' = [services EXCEPT ![e.sid] = t] BY <1>4 DEF ProcessFIG0_8, SetService
      <2>4. /\ t.label = r.label /\ t.pri_comp_subchid = r.pri_comp_subchid
            /\ t.audio_comps = r.audio_comps
          BY <2>2 DEF Service
      <2> QED BY <1>3, <2>1, <2>3, <2>4
  <1>5. CASE ProcessFIG0_13(e)
      <2> DEFINE new == r.comp_sls_uas[e.scids] = None
                 t == [r EXCEPT !.comp_sls_uas[e.scids] = IF new THEN e.ua ELSE @]
      <2>1. e.sid \in Sids BY <1>5 DEF ProcessFIG0_13, Figs
      <2>2. r \in Service BY <2>1 DEF FicTypeOK
      <2>3. services' = [services EXCEPT ![e.sid] = t] BY <1>5 DEF ProcessFIG0_13, SetService
      <2>4. /\ t.label = r.label /\ t.pri_comp_subchid = r.pri_comp_subchid
            /\ t.audio_comps = r.audio_comps
          BY <2>2 DEF Service
      <2> QED BY <1>3, <2>1, <2>3, <2>4
  <1>6. CASE ProcessFIG0_17(e)
      <2> DEFINE t == IF e.sd THEN [r EXCEPT !.pty_dynamic = e.pty]
                      ELSE [r EXCEPT !.pty_static = e.pty]
      <2>1. e.sid \in Sids BY <1>6 DEF ProcessFIG0_17, Figs
      <2>2. r \in Service BY <2>1 DEF FicTypeOK
      <2>3. services' = [services EXCEPT ![e.sid] = t] BY <1>6 DEF ProcessFIG0_17, SetService
      <2>4. /\ t.label = r.label /\ t.pri_comp_subchid = r.pri_comp_subchid
            /\ t.audio_comps = r.audio_comps
          BY <2>2 DEF Service
      <2> QED BY <1>3, <2>1, <2>3, <2>4
  <1>7. CASE ProcessFIG0_18(e)
      <2> DEFINE t == [r EXCEPT !.asu_flags = e.asu_flags, !.cids = e.cids]
      <2>1. e.sid \in Sids BY <1>7 DEF ProcessFIG0_18, Figs
      <2>2. r \in Service BY <2>1 DEF FicTypeOK
      <2>3. services' = [services EXCEPT ![e.sid] = t] BY <1>7 DEF ProcessFIG0_18, SetService
      <2>4. /\ t.label = r.label /\ t.pri_comp_subchid = r.pri_comp_subchid
            /\ t.audio_comps = r.audio_comps
          BY <2>2 DEF Service
      <2> QED BY <1>3, <2>1, <2>3, <2>4
  <1>8. CASE ProcessFIG1_4(e)
      <2> DEFINE t == [r EXCEPT !.comp_labels[e.scids] = e.label]
      <2>1. e.sid \in Sids BY <1>8 DEF ProcessFIG1_4, Figs
      <2>2. r \in Service BY <2>1 DEF FicTypeOK
      <2>3. services' = [services EXCEPT ![e.sid] = t] BY <1>8 DEF ProcessFIG1_4, SetService
      <2>4. /\ t.label = r.label /\ t.pri_comp_subchid = r.pri_comp_subchid
            /\ t.audio_comps = r.audio_comps
          BY <2>2 DEF Service
      <2> QED BY <1>3, <2>1, <2>3, <2>4
  <1>9. CASE UNCHANGED services BY <1>9
  <1> QED
      BY <1>1, <1>2, <1>4, <1>5, <1>6, <1>7, <1>8, <1>9
         DEF ProcessFIG, ProcessFIG0_1, ProcessFIG0_5, ProcessFIG0_9, ProcessFIG0_10,
             ProcessFIG0_19, ProcessFIG1_0, Ignore, SetSubchannel, SetEnsemble, database

\* What is known was sent on the frequency the chip receives, which is the one the
\* scan believes it is on.
SentInv ==
    /\ \A s \in Sids : BasedOn(services[s], s, Sent(tuned))
    /\ pc \in {"collect", "report"} => tuned = at + 1
    /\ Attribution

\* An empty record needs no entry.
LEMMA NewBasedOn == \A s \in Sids : \A F : BasedOn(NewServices[s], s, F)
  BY DEF NewServices, NewService, BasedOn

\* It holds at the start.
LEMMA SentInit == Init => SentInv
  BY NewBasedOn DEF Init, FicInit, SentInv, Attribution

\* What the report writes about the frequency it has collected was sent there.
LEMMA ReportAttribution ==
    ASSUME CopiesInv, SentInv, ReportServices
    PROVE  Attribution'
  <1> SUFFICES ASSUME NEW l \in playlist'
               PROVE  \E s \in Sids :
                          /\ \E e \in Sent(l.freq) :
                                 e.fig = "1/1" /\ e.sid = s /\ Utf8[e.label] = l.service
                          /\ \E e \in Sent(l.freq) :
                                 e.fig = "0/2" /\ e.sid = s /\ e.subchid = l.subchid /\ e.ps
                          /\ \E e \in Sent(l.freq) :
                                 /\ e.fig = "0/2" /\ e.sid = s /\ e.subchid = l.subchid
                                 /\ e.audio = l.audio
      BY DEF Attribution
  <1>1. CASE l \in playlist
      <2> HIDE DEF Sent
      <2> QED BY <1>1 DEF SentInv, Attribution
  <1>2. CASE l \notin playlist
      <2>1. PICK s \in DOMAIN listed : l = Requirements!Line(at + 1, m_ensemble_label, listed[s])
          BY <1>2 DEF ReportServices
      <2>2. s \in Sids /\ Complete(services[s]) /\ listed[s] = CurrentListing(s)
          BY <2>1 DEF CopiesInv, ListedIsCurrent
      <2> DEFINE r == services[s]
                 b == r.pri_comp_subchid
      <2>3. /\ l.freq = at + 1 /\ l.service = Utf8[r.label] /\ l.subchid = b
            /\ l.audio = r.audio_comps[b]
          BY <2>1, <2>2 DEF Requirements!Line, CurrentListing, PrimaryListing, Listing
      <2>4. tuned = at + 1 BY DEF SentInv, ReportServices
      <2>5. BasedOn(r, s, Sent(l.freq)) BY <2>2, <2>3, <2>4 DEF SentInv
      <2>6. r.label # None /\ b # None /\ b \in Subchids /\ r.audio_comps[b] # None
          BY <2>2 DEF Complete, CopiesInv, LoopIInv, FicTypeOK, Service, PrimaryHasComponent,
                      PrimaryPresent, Opt
      <2> HIDE DEF Sent, r
      <2> QED BY <2>2, <2>3, <2>5, <2>6 DEF BasedOn
  <1> QED BY <1>1, <1>2

\* Every step of the scan keeps it: retuning begins both anew, and a report
\* writes what it vouches for.
LEMMA SentStep ==
    ASSUME AdcMayFail = FALSE, CopiesInv, SentInv, [Next]_vars
    PROVE  SentInv'
  <1>1. CASE StartFrequency
      <2>1. tuned' = at' + 1 BY <1>1 DEF StartFrequency, Tune
      <2>2. \A s \in Sids : BasedOn(services'[s], s, Sent(tuned)')
          BY <1>1, NewBasedOn DEF StartFrequency, Reset
      <2>3. Attribution' BY <1>1 DEF StartFrequency, SentInv, Attribution, Sent
      <2> QED BY <2>1, <2>2, <2>3 DEF SentInv
  <1>2. ASSUME NEW e \in OnAir[tuned][config], ReceiveFig(e)
        PROVE  SentInv'
      <2>1. e \in Figs /\ ProcessFIG(e) /\ FicTypeOK
          BY <1>2, ReceivedIsFig DEF CopiesInv, LoopIInv
      <2>2. e \in Sent(tuned)
          <3>1. config \in DOMAIN OnAir[tuned] BY DEF CopiesInv, LoopIInv, ScanTypeOK
          <3> QED BY <1>2, <3>1 DEF Sent
      <2>3. UNCHANGED <<pc, at, tuned, playlist>> BY <1>2 DEF ReceiveFig
      <2>4. Sent(tuned)' = Sent(tuned) BY <2>3 DEF Sent
      <2> HIDE DEF Sent
      <2>5. \A s \in Sids : BasedOn(services'[s], s, Sent(tuned))
          BY <2>1, <2>2, HandlerBasedOn DEF SentInv
      <2>6. Attribution' BY <2>3 DEF SentInv, Attribution
      <2> QED BY <2>3, <2>4, <2>5, <2>6 DEF SentInv
  <1>3. CASE EndRead
      BY <1>3 DEF EndRead, ficVars, SentInv, Attribution
  <1>4. CASE ReportServices
      <2>1. Attribution' BY <1>4, ReportAttribution
      <2>2. UNCHANGED <<services, tuned>> /\ pc' \in {"done", "tune"}
          BY <1>4 DEF ReportServices, ficVars
      <2> QED BY <2>1, <2>2 DEF SentInv
  <1>5. CASE Reconfigure
      BY <1>5 DEF Reconfigure, ficVars, SentInv, Attribution
  <1>6. CASE UNCHANGED vars
      BY <1>6 DEF vars, scanVars, ficVars, SentInv, Attribution
  <1> QED BY <1>1, <1>2, <1>3, <1>4, <1>5, <1>6 DEF Next

\* Every line of the playlist names a frequency on which a service of that
\* name was sent, with that primary sub-channel and of that type, for any
\* number of frequencies and whatever they send: the reset in setFrequency
\* keeps the ensembles apart.  The assumption is needed: an ADC clock that
\* fails to lock leaves the chip on the frequency before.
THEOREM LinesAreAttributed ==
    ASSUME AdcMayFail = FALSE
    PROVE  Spec => []Attribution
  <1>1. CopiesInv /\ SentInv /\ [Next]_vars => SentInv' BY SentStep
  <1>2. SentInv => Attribution BY DEF SentInv
  <1> QED BY <1>1, <1>2, SentInit, CopiesCorrect, PTL DEF Spec

=============================================================================
