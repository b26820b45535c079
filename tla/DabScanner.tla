----------------------------- MODULE DabScanner -----------------------------
(***************************************************************************)
(* The frequency scan: DabScanner::startFrequencyScan (src/dab_scanner.cpp)*)
(* driving the tuner and the FIC decoder, observing the decoder through    *)
(* FICChangeService and FICChangeEnsemble, and writing the playlist        *)
(* (src/m3u_writer.cpp).  The program has one thread: the entries of a FIC *)
(* block are processed, and the observer called, inside a readData call.   *)
(***************************************************************************)
EXTENDS FicDecoder

CONSTANTS
    NumFreqs,   \* length of DAB_FREQUENCIES; the scan visits 1..NumFreqs
    QuietReads, \* reads without a service change that end a frequency: 200
    OnAir,      \* 0..NumFreqs -> Seq(SUBSET Figs): what is sent on a frequency,
                \* one configuration of the multiplex after the other
    AdcMayFail, \* whether the ADC clock may fail to lock when tuning
    Texts,
    Utf8        \* Labels -> Texts, as in Playlist

\* collection_count is a uint8_t.
ASSUME QuietReadsAssumption == QuietReads \in 1..255
ASSUME FreqsAssumption == NumFreqs \in Nat \ {0}
ASSUME TextsAssumption == Utf8 \in [Labels -> Texts]
ASSUME OnAirAssumption ==
    /\ OnAir \in [0..NumFreqs -> Seq(SUBSET Figs)]
    /\ \A f \in 0..NumFreqs : Len(OnAir[f]) >= 1
ASSUME AdcMayFailAssumption == AdcMayFail \in BOOLEAN

VARIABLES
    pc,               \* "tune", "collect", "report" or "done"
    at,               \* frequencies of the loop finished so far
    tuned,            \* the frequency the chip receives, 0 before the first
    config,           \* the configuration the multiplex there is in
    collection_count,
    listed,           \* m_listed_services: SId -> the service as last reported
    m_ensemble_label,
    playlist          \* the lines of dab.m3u

scanVars == <<pc, at, tuned, config, collection_count, listed,
              m_ensemble_label, playlist>>
vars == <<ficVars, scanVars>>

\* What is known of the current frequency; it counts from the moment the scan
\* has tuned until it has reported.
Knowledge == [services |-> services, subchannels |-> subchannels,
              ensemble |-> ensemble]

Heard == IF pc \in {"collect", "report"} THEN Knowledge
         ELSE [services |-> NewServices, subchannels |-> NewSubchannels,
               ensemble |-> NewEnsemble]

\* What the scan has to do.
Requirements == INSTANCE Playlist WITH heard <- Heard

NoListing == [s \in {} |-> None]

Init ==
    /\ FicInit
    /\ pc = "tune"
    /\ at = 0
    /\ tuned = 0
    /\ config = 1
    /\ collection_count = 0
    /\ listed = NoListing
    /\ m_ensemble_label = None
    /\ playlist = {}

\* The top of the loop.  setFrequency programs the PLL only after the ADC clock
\* has locked; otherwise the chip stays where it was and nobody is told.
Tune(freq) ==
    /\ \/ tuned' = freq
       \/ AdcMayFail /\ tuned' = tuned
    /\ config' \in DOMAIN OnAir[tuned']

\* Broken on purpose: what was listed on the frequency before is kept.
KeepsListed ==
    /\ pc = "tune"
    /\ at < NumFreqs
    /\ collection_count' = 0
    /\ Reset
    /\ Tune(at + 1)
    /\ m_ensemble_label' = None
    /\ pc' = "collect"
    /\ UNCHANGED <<at, listed, playlist>>

\* Broken on purpose: the name of the ensemble heard before is kept.
KeepsEnsembleLabel ==
    /\ pc = "tune"
    /\ at < NumFreqs
    /\ collection_count' = 0
    /\ Reset
    /\ Tune(at + 1)
    /\ listed' = NoListing
    /\ pc' = "collect"
    /\ UNCHANGED <<at, m_ensemble_label, playlist>>

StartFrequency ==
    /\ pc = "tune"
    /\ at < NumFreqs
    /\ collection_count' = 0
    /\ Reset
    /\ Tune(at + 1)
    /\ listed' = NoListing
    /\ m_ensemble_label' = None
    /\ pc' = "collect"
    /\ UNCHANGED <<at, playlist>>

\* FICChangeService, for every call of the step; the last call for a service
\* overwrites the earlier ones.
FICChangeService ==
    /\ listed' = [s \in DOMAIN listed \cup updated' |->
          IF s \in updated'
          THEN Last(ServiceCalls(subchannels, s, services[s]))'
          ELSE listed[s]]
    /\ collection_count' = IF updated' # {} THEN 0 ELSE collection_count

FICChangeEnsemble ==
    m_ensemble_label' = IF ensembleUpdated' THEN Utf8[ensemble'.label]
                        ELSE m_ensemble_label

\* One entry of the FIC block that readData hands to ficData.
ReceiveFig(e) ==
    /\ pc = "collect"
    /\ e \in OnAir[tuned][config]
    /\ ProcessFIG(e)
    /\ FICChangeService
    /\ FICChangeEnsemble
    /\ UNCHANGED <<pc, at, tuned, config, playlist>>

\* Broken on purpose: <= in the condition of the while loop.
OneReadTooMany ==
    /\ pc = "collect"
    /\ collection_count' = collection_count + 1
    /\ pc' = IF collection_count = QuietReads THEN "report" ELSE "collect"
    /\ UNCHANGED <<ficVars, at, tuned, config, listed, m_ensemble_label, playlist>>

\* readData returns and the while loop counts it; a read may well bring no FIC.
EndRead ==
    /\ pc = "collect"
    /\ collection_count' = collection_count + 1
    /\ pc' = IF collection_count' = QuietReads THEN "report" ELSE "collect"
    /\ UNCHANGED <<ficVars, at, tuned, config, listed, m_ensemble_label, playlist>>

\* serviceFound for every listed service.
ReportServices ==
    /\ pc = "report"
    /\ playlist' = playlist \cup
          {Requirements!Line(at + 1, m_ensemble_label, listed[s]) :
              s \in DOMAIN listed}
    /\ at' = at + 1
    /\ pc' = IF at' = NumFreqs THEN "done" ELSE "tune"
    /\ UNCHANGED <<ficVars, tuned, config, collection_count, listed,
                   m_ensemble_label>>

\* The broadcaster changes the configuration of the multiplex being received.
Reconfigure ==
    /\ pc = "collect"
    /\ config < Len(OnAir[tuned])
    /\ config' = config + 1
    /\ UNCHANGED <<ficVars, pc, at, tuned, collection_count, listed,
                   m_ensemble_label, playlist>>

Next ==
    \/ StartFrequency
    \/ \E e \in OnAir[tuned][config] : ReceiveFig(e)
    \/ EndRead
    \/ ReportServices
    \/ Reconfigure

\* What is sent on a frequency, in any configuration.
Sent(freq) == UNION {OnAir[freq][i] : i \in DOMAIN OnAir[freq]}

\* The loops of the scan run, and a multiplex repeats each of its entries; it
\* need not ever change.
Fairness ==
    /\ WF_vars(StartFrequency)
    /\ WF_vars(EndRead)
    /\ WF_vars(ReportServices)
    /\ \A e \in UNION {Sent(f) : f \in 0..NumFreqs} : WF_vars(ReceiveFig(e))

Spec == Init /\ [][Next]_vars

FairSpec == Spec /\ Fairness

-----------------------------------------------------------------------------

ListingOK(ls) ==
    /\ ls.label \in Labels
    /\ ls.subchid \in Subchids
    /\ ls.audio \in AudioTypes
    /\ ls.subchannel \in Subchannel

TypeOK ==
    /\ FicTypeOK
    /\ pc \in {"tune", "collect", "report", "done"}
    /\ at \in 0..NumFreqs
    /\ tuned \in 0..NumFreqs
    /\ config \in DOMAIN OnAir[tuned]
    /\ collection_count \in 0..QuietReads
    /\ DOMAIN listed \subseteq Sids /\ \A s \in DOMAIN listed : ListingOK(listed[s])
    /\ m_ensemble_label \in Opt(Texts)

\* The listing the scanner keeps call by call is, whenever it looks, the listing
\* of the decoder's database: no service is missing, none is stale in any field,
\* and the primary component is the one left when several share the SId.
ListedIsCurrent ==
    listed = [s \in {t \in Sids : Complete(services[t])} |-> CurrentListing(s)]

EnsembleLabelIsCurrent == m_ensemble_label = Requirements!Text(ensemble.label)

\* Every line is about its own frequency: a service of that name is, or was in
\* some configuration, sent there, with its primary component in that
\* sub-channel and of that type.
Attribution ==
    \A l \in playlist :
        \E s \in Sids :
            /\ \E e \in Sent(l.freq) :
                   e.fig = "1/1" /\ e.sid = s /\ Utf8[e.label] = l.service
            /\ \E e \in Sent(l.freq) :
                   e.fig = "0/2" /\ e.sid = s /\ e.subchid = l.subchid /\ e.ps
            /\ \E e \in Sent(l.freq) :
                   /\ e.fig = "0/2" /\ e.sid = s /\ e.subchid = l.subchid
                   /\ e.audio = l.audio

\* A DAB+ line names the bit rate its decoder needs, as the multiplex sends it.
BitrateKnown ==
    \A l \in playlist :
        l.audio = "DAB+" =>
            \E e \in Sent(l.freq) :
                e.fig = "0/1" /\ e.subchid = l.subchid
                              /\ e.org.bitrate = l.bitrate

\* The scan ends.
ScanCompletes == <>(pc = "done")

\* The scan implements the requirements.
ImplementsPlaylist == Requirements!Spec

=============================================================================
