------------------------ MODULE FicKnowledgeProofs -------------------------
(***************************************************************************)
(* That the FIC decoder's database is a function of the set of entries     *)
(* received, for any sets of services, sub-channels, labels and so on, and *)
(* any multiplex that contradicts itself in no entry.                      *)
(***************************************************************************)
EXTENDS FicKnowledge, FicDecoderProofs

\* What the entries of g say of each item.
Entries(g, fig, s) == {e \in g : e.fig = fig /\ e.sid = s}
PrimarySaid(g, s) == {e.subchid : e \in {f \in Entries(g, "0/2", s) : f.ps}}
LabelSaid(g, s) == {e.label : e \in Entries(g, "1/1", s)}
PtySaid(g, s, sd) == {e.pty : e \in {f \in Entries(g, "0/17", s) : f.sd = sd}}
AsuSaid(g, s) == {e.asu_flags : e \in Entries(g, "0/18", s)}
CidsSaid(g, s) == {e.cids : e \in Entries(g, "0/18", s)}
AudioSaid(g, s, b) == {e.audio : e \in {f \in Entries(g, "0/2", s) : f.subchid = b}}
DefSaid(g, s, c) == {e.subchid : e \in {f \in Entries(g, "0/8", s) : f.scids = c}}
CompLabelSaid(g, s, c) == {e.label : e \in {f \in Entries(g, "1/4", s) : f.scids = c}}
UaSaid(g, s, c) == {e.ua : e \in {f \in Entries(g, "0/13", s) : f.scids = c}}
OrgSaid(g, b) == {e.org : e \in {f \in g : f.fig = "0/1" /\ f.subchid = b}}
LanguageSaid(g, b) == {e.language : e \in {f \in g : f.fig = "0/5" /\ f.subchid = b}}
EidSaid(g) == {e.eid : e \in {f \in g : f.fig = "1/0"}}
EnsembleLabelSaid(g) == {e.label : e \in {f \in g : f.fig = "1/0"}}
RegionSaid(g) == {e.region : e \in {f \in g : f.fig = "0/9"}}
AswSaid(g, c) == {e.asw : e \in {f \in g : f.fig = "0/19" /\ f.cid = c}}
DateSaid(g) == {e.date : e \in {f \in g : f.fig = "0/10"}}

\* v is what S says, d if it says nothing.
Is(v, S, d) == (\A x \in S : x = v) /\ (S = {} => v = d)

\* A service record of what the entries of g say of s.
ServiceIs(r, s, g) ==
    /\ Is(r.pri_comp_subchid, PrimarySaid(g, s), None)
    /\ Is(r.label, LabelSaid(g, s), None)
    /\ Is(r.pty_static, PtySaid(g, s, FALSE), None)
    /\ Is(r.pty_dynamic, PtySaid(g, s, TRUE), None)
    /\ Is(r.asu_flags, AsuSaid(g, s), 0)
    /\ Is(r.cids, CidsSaid(g, s), {})
    /\ \A b \in Subchids : Is(r.audio_comps[b], AudioSaid(g, s, b), None)
    /\ \A c \in Scids : Is(r.comp_defs[c], DefSaid(g, s, c), None)
    /\ \A c \in Scids : Is(r.comp_labels[c], CompLabelSaid(g, s, c), None)
    /\ \A c \in Scids : Is(r.comp_sls_uas[c], UaSaid(g, s, c), None)

\* A sub-channel record of what they say of b.
SubchannelIs(r, b, g) ==
    Is(r.org, OrgSaid(g, b), None) /\ Is(r.language, LanguageSaid(g, b), None)

\* An ensemble of what they say of it.
EnsembleIs(r, g) ==
    /\ Is(r.eid, EidSaid(g), None) /\ Is(r.label, EnsembleLabelSaid(g), None)
    /\ Is(r.region, RegionSaid(g), None)
    /\ \A c \in Cids : Is(r.asw_clusters[c], AswSaid(g, c), None)

\* The database holds what the entries of g say, and nothing else.
DatabaseIs(g) ==
    /\ \A s \in Sids : ServiceIs(services[s], s, g)
    /\ \A b \in Subchids : SubchannelIs(subchannels[b], b, g)
    /\ EnsembleIs(ensemble, g)
    /\ Is(utc_dt, DateSaid(g), None)

\* The inductive invariant: DatabaseIsKnowledge with each choice replaced by
\* the fact that there is nothing to choose, so that a handler need only be
\* compared with its own entry.
KnowledgeInv == FicTypeOK /\ got \subseteq Broadcast /\ DatabaseIs(got)

\* What The picks from a set with one value.
LEMMA TheIs == \A v, S, d : Is(v, S, d) => The(S, d) = v
  <1> SUFFICES ASSUME NEW v, NEW S, NEW d, Is(v, S, d) PROVE The(S, d) = v
      OBVIOUS
  <1>1. CASE S = {} BY <1>1 DEF Is, The
  <1>2. CASE S # {}
      <2>1. (CHOOSE x \in S : TRUE) \in S BY <1>2
      <2> QED BY <1>2, <2>1 DEF Is, The
  <1> QED BY <1>1, <1>2

\* An entry adds what it says of its item, and nothing of any other.
LEMMA AddsRest ==
    ASSUME NEW g, NEW e
    PROVE  /\ \A b : OrgSaid(g \cup {e}, b) =
                  IF e.fig = "0/1" /\ e.subchid = b THEN OrgSaid(g, b) \cup {e.org}
                  ELSE OrgSaid(g, b)
           /\ \A b : LanguageSaid(g \cup {e}, b) =
                  IF e.fig = "0/5" /\ e.subchid = b THEN LanguageSaid(g, b) \cup {e.language}
                  ELSE LanguageSaid(g, b)
           /\ EidSaid(g \cup {e}) = IF e.fig = "1/0" THEN EidSaid(g) \cup {e.eid} ELSE EidSaid(g)
           /\ EnsembleLabelSaid(g \cup {e}) =
                  IF e.fig = "1/0" THEN EnsembleLabelSaid(g) \cup {e.label}
                  ELSE EnsembleLabelSaid(g)
           /\ RegionSaid(g \cup {e}) =
                  IF e.fig = "0/9" THEN RegionSaid(g) \cup {e.region} ELSE RegionSaid(g)
           /\ \A c : AswSaid(g \cup {e}, c) =
                  IF e.fig = "0/19" /\ e.cid = c THEN AswSaid(g, c) \cup {e.asw} ELSE AswSaid(g, c)
           /\ DateSaid(g \cup {e}) =
                  IF e.fig = "0/10" THEN DateSaid(g) \cup {e.date} ELSE DateSaid(g)
  <1>1. \A b : OrgSaid(g \cup {e}, b) =
            IF e.fig = "0/1" /\ e.subchid = b THEN OrgSaid(g, b) \cup {e.org} ELSE OrgSaid(g, b)
      BY DEF OrgSaid
  <1>2. \A b : LanguageSaid(g \cup {e}, b) =
            IF e.fig = "0/5" /\ e.subchid = b THEN LanguageSaid(g, b) \cup {e.language}
            ELSE LanguageSaid(g, b)
      BY DEF LanguageSaid
  <1>3. EidSaid(g \cup {e}) = IF e.fig = "1/0" THEN EidSaid(g) \cup {e.eid} ELSE EidSaid(g)
      BY DEF EidSaid
  <1>4. EnsembleLabelSaid(g \cup {e}) =
            IF e.fig = "1/0" THEN EnsembleLabelSaid(g) \cup {e.label} ELSE EnsembleLabelSaid(g)
      BY DEF EnsembleLabelSaid
  <1>5. RegionSaid(g \cup {e}) =
            IF e.fig = "0/9" THEN RegionSaid(g) \cup {e.region} ELSE RegionSaid(g)
      BY DEF RegionSaid
  <1>6. \A c : AswSaid(g \cup {e}, c) =
            IF e.fig = "0/19" /\ e.cid = c THEN AswSaid(g, c) \cup {e.asw} ELSE AswSaid(g, c)
      BY DEF AswSaid
  <1>7. DateSaid(g \cup {e}) =
            IF e.fig = "0/10" THEN DateSaid(g) \cup {e.date} ELSE DateSaid(g)
      BY DEF DateSaid
  <1> QED BY <1>1, <1>2, <1>3, <1>4, <1>5, <1>6, <1>7

\* The database is the knowledge.
LEMMA KnownIs == KnowledgeInv => DatabaseIsKnowledge
  <1> SUFFICES ASSUME KnowledgeInv PROVE DatabaseIsKnowledge OBVIOUS
  <1>1. ASSUME NEW s \in Sids PROVE services[s] = KnownService(s)
      <2> DEFINE r == services[s]
                 k == KnownService(s)
      <2>1. /\ {e.subchid : e \in {f \in Of("0/2", s) : f.ps}} = PrimarySaid(got, s)
            /\ {e.label : e \in Of("1/1", s)} = LabelSaid(got, s)
            /\ {e.asu_flags : e \in Of("0/18", s)} = AsuSaid(got, s)
            /\ {e.cids : e \in Of("0/18", s)} = CidsSaid(got, s)
          BY DEF Of, Got, Entries, PrimarySaid, LabelSaid, AsuSaid, CidsSaid
      <2>2. /\ {e.pty : e \in {f \in Of("0/17", s) : ~f.sd}} = PtySaid(got, s, FALSE)
            /\ {e.pty : e \in {f \in Of("0/17", s) : f.sd}} = PtySaid(got, s, TRUE)
          <3>1. \A e \in Of("0/17", s) : e.sd \in BOOLEAN
              BY ConsistentAssumption DEF KnowledgeInv, Of, Got, Figs
          <3>2. Of("0/17", s) = Entries(got, "0/17", s) BY DEF Of, Got, Entries
          <3>3. /\ {f \in Of("0/17", s) : ~f.sd} = {f \in Entries(got, "0/17", s) : f.sd = FALSE}
                /\ {f \in Of("0/17", s) : f.sd} = {f \in Entries(got, "0/17", s) : f.sd = TRUE}
              BY <3>1, <3>2
          <3> QED BY <3>3 DEF PtySaid
      <2>3. /\ \A b : {e.audio : e \in {f \in Of("0/2", s) : f.subchid = b}} = AudioSaid(got, s, b)
            /\ \A c : {e.subchid : e \in {f \in Of("0/8", s) : f.scids = c}} = DefSaid(got, s, c)
            /\ \A c : {e.label : e \in {f \in Of("1/4", s) : f.scids = c}} = CompLabelSaid(got, s, c)
            /\ \A c : {e.ua : e \in {f \in Of("0/13", s) : f.scids = c}} = UaSaid(got, s, c)
          BY DEF Of, Got, Entries, AudioSaid, DefSaid, CompLabelSaid, UaSaid
      <2>4. ServiceIs(r, s, got) /\ r \in Service BY DEF KnowledgeInv, DatabaseIs, FicTypeOK
      <2>5. k = [pri_comp_subchid |-> The(PrimarySaid(got, s), None),
                 label |-> The(LabelSaid(got, s), None),
                 pty_static |-> The(PtySaid(got, s, FALSE), None),
                 pty_dynamic |-> The(PtySaid(got, s, TRUE), None),
                 asu_flags |-> The(AsuSaid(got, s), 0),
                 cids |-> UNION CidsSaid(got, s),
                 audio_comps |-> [b \in Subchids |-> The(AudioSaid(got, s, b), None)],
                 comp_defs |-> [c \in Scids |-> The(DefSaid(got, s, c), None)],
                 comp_labels |-> [c \in Scids |-> The(CompLabelSaid(got, s, c), None)],
                 comp_sls_uas |-> [c \in Scids |-> The(UaSaid(got, s, c), None)]]
          BY <2>1, <2>2, <2>3 DEF KnownService
      <2> HIDE DEF k, r
      <2>6. /\ r.pri_comp_subchid = The(PrimarySaid(got, s), None)
            /\ r.label = The(LabelSaid(got, s), None)
            /\ r.pty_static = The(PtySaid(got, s, FALSE), None)
            /\ r.pty_dynamic = The(PtySaid(got, s, TRUE), None)
            /\ r.asu_flags = The(AsuSaid(got, s), 0)
          <3>1. /\ Is(r.pri_comp_subchid, PrimarySaid(got, s), None)
                /\ Is(r.label, LabelSaid(got, s), None)
                /\ Is(r.pty_static, PtySaid(got, s, FALSE), None)
                /\ Is(r.pty_dynamic, PtySaid(got, s, TRUE), None)
                /\ Is(r.asu_flags, AsuSaid(got, s), 0)
              BY <2>4, Zenon DEF ServiceIs
          <3>2. r.pri_comp_subchid = The(PrimarySaid(got, s), None) BY <3>1, TheIs
          <3>3. r.label = The(LabelSaid(got, s), None) BY <3>1, TheIs
          <3>4. r.pty_static = The(PtySaid(got, s, FALSE), None) BY <3>1, TheIs
          <3>5. r.pty_dynamic = The(PtySaid(got, s, TRUE), None) BY <3>1, TheIs
          <3>6. r.asu_flags = The(AsuSaid(got, s), 0) BY <3>1, TheIs
          <3> QED BY <3>2, <3>3, <3>4, <3>5, <3>6
      <2>7. r.cids = UNION CidsSaid(got, s)
          <3> DEFINE S == CidsSaid(got, s)
          <3>1. Is(r.cids, S, {}) BY <2>4, Zenon DEF ServiceIs
          <3> HIDE DEF S
          <3>2. ASSUME S = {} PROVE r.cids = UNION S BY <3>1, <3>2 DEF Is
          <3>3. ASSUME S # {} PROVE r.cids = UNION S
              <4>1. PICK x \in S : TRUE BY <3>3
              <4>2. \A y : y \in UNION S <=> y \in r.cids BY <3>1, <4>1 DEF Is
              <4> QED BY <4>2
          <3> QED BY <3>2, <3>3 DEF S
      <2>8. /\ r.audio_comps = [b \in Subchids |-> The(AudioSaid(got, s, b), None)]
            /\ r.comp_defs = [c \in Scids |-> The(DefSaid(got, s, c), None)]
            /\ r.comp_labels = [c \in Scids |-> The(CompLabelSaid(got, s, c), None)]
            /\ r.comp_sls_uas = [c \in Scids |-> The(UaSaid(got, s, c), None)]
          <3>1. /\ \A b \in Subchids : r.audio_comps[b] = The(AudioSaid(got, s, b), None)
                /\ \A c \in Scids : r.comp_defs[c] = The(DefSaid(got, s, c), None)
                /\ \A c \in Scids : r.comp_labels[c] = The(CompLabelSaid(got, s, c), None)
                /\ \A c \in Scids : r.comp_sls_uas[c] = The(UaSaid(got, s, c), None)
              BY <2>4, TheIs DEF ServiceIs
          <3>2. /\ r.audio_comps \in [Subchids -> Opt(AudioTypes)]
                /\ r.comp_defs \in [Scids -> Opt(Subchids)]
                /\ r.comp_labels \in [Scids -> Opt(Labels)]
                /\ r.comp_sls_uas \in [Scids -> Opt(UaData)]
              BY <2>4 DEF Service
          <3> QED BY <3>1, <3>2
      <2>9. r = [pri_comp_subchid |-> r.pri_comp_subchid, label |-> r.label,
                 pty_static |-> r.pty_static, pty_dynamic |-> r.pty_dynamic,
                 asu_flags |-> r.asu_flags, cids |-> r.cids, audio_comps |-> r.audio_comps,
                 comp_defs |-> r.comp_defs, comp_labels |-> r.comp_labels,
                 comp_sls_uas |-> r.comp_sls_uas]
          BY <2>4 DEF Service
      <2> QED BY <2>5, <2>6, <2>7, <2>8, <2>9 DEF r, k
  <1>2. ASSUME NEW b \in Subchids PROVE subchannels[b] = KnownSubchannel(b)
      <2> DEFINE r == subchannels[b]
      <2>1. /\ {e.org : e \in {f \in Got("0/1") : f.subchid = b}} = OrgSaid(got, b)
            /\ {e.language : e \in {f \in Got("0/5") : f.subchid = b}} = LanguageSaid(got, b)
          BY DEF Got, OrgSaid, LanguageSaid
      <2>2. SubchannelIs(r, b, got) /\ r \in Subchannel
          BY DEF KnowledgeInv, DatabaseIs, FicTypeOK
      <2>3. r.org = The(OrgSaid(got, b), None) /\ r.language = The(LanguageSaid(got, b), None)
          BY <2>2, TheIs DEF SubchannelIs
      <2>4. r = [org |-> r.org, language |-> r.language] BY <2>2 DEF Subchannel
      <2> QED BY <2>1, <2>3, <2>4 DEF KnownSubchannel
  <1>3. ensemble = KnownEnsemble
      <2> DEFINE r == ensemble
      <2>1. /\ {e.eid : e \in Got("1/0")} = EidSaid(got)
            /\ {e.label : e \in Got("1/0")} = EnsembleLabelSaid(got)
            /\ {e.region : e \in Got("0/9")} = RegionSaid(got)
            /\ \A c : {e.asw : e \in {f \in Got("0/19") : f.cid = c}} = AswSaid(got, c)
          BY DEF Got, EidSaid, EnsembleLabelSaid, RegionSaid, AswSaid
      <2>2. EnsembleIs(r, got) /\ r \in Ensemble BY DEF KnowledgeInv, DatabaseIs, FicTypeOK
      <2>3. /\ r.eid = The(EidSaid(got), None) /\ r.label = The(EnsembleLabelSaid(got), None)
            /\ r.region = The(RegionSaid(got), None)
            /\ \A c \in Cids : r.asw_clusters[c] = The(AswSaid(got, c), None)
          BY <2>2, TheIs DEF EnsembleIs
      <2>4. r.asw_clusters = [c \in Cids |-> The(AswSaid(got, c), None)]
          <3>1. r.asw_clusters \in [Cids -> Opt(Switchings)] BY <2>2 DEF Ensemble
          <3> QED BY <2>3, <3>1
      <2>5. r = [eid |-> r.eid, label |-> r.label, region |-> r.region,
                 asw_clusters |-> r.asw_clusters]
          BY <2>2 DEF Ensemble
      <2> QED BY <2>1, <2>3, <2>4, <2>5 DEF KnownEnsemble
  <1>4. utc_dt = The({e.date : e \in Got("0/10")}, None)
      <2>1. {e.date : e \in Got("0/10")} = DateSaid(got) BY DEF Got, DateSaid
      <2> QED BY <2>1, TheIs DEF KnowledgeInv, DatabaseIs
  <1>5. services = [s \in Sids |-> KnownService(s)]
      BY <1>1 DEF KnowledgeInv, FicTypeOK
  <1>6. subchannels = [b \in Subchids |-> KnownSubchannel(b)]
      BY <1>2 DEF KnowledgeInv, FicTypeOK
  <1> QED BY <1>3, <1>4, <1>5, <1>6 DEF DatabaseIsKnowledge

\* All entries that speak of the item of e say what e says.
LEMMA SaidIs ==
    ASSUME NEW g \in SUBSET Broadcast, NEW e \in g
    PROVE  /\ e.fig = "0/1" => Is(e.org, OrgSaid(g, e.subchid), None)
           /\ e.fig = "0/2" => /\ e.ps => Is(e.subchid, PrimarySaid(g, e.sid), None)
                               /\ Is(e.audio, AudioSaid(g, e.sid, e.subchid), None)
           /\ e.fig = "0/5" => Is(e.language, LanguageSaid(g, e.subchid), None)
           /\ e.fig = "0/8" => Is(e.subchid, DefSaid(g, e.sid, e.scids), None)
           /\ e.fig = "0/9" => Is(e.region, RegionSaid(g), None)
           /\ e.fig = "0/10" => Is(e.date, DateSaid(g), None)
           /\ e.fig = "0/13" => Is(e.ua, UaSaid(g, e.sid, e.scids), None)
           /\ e.fig = "0/17" => Is(e.pty, PtySaid(g, e.sid, e.sd), None)
           /\ e.fig = "0/18" => /\ Is(e.asu_flags, AsuSaid(g, e.sid), 0)
                                /\ Is(e.cids, CidsSaid(g, e.sid), {})
           /\ e.fig = "0/19" => Is(e.asw, AswSaid(g, e.cid), None)
           /\ e.fig = "1/0" => /\ Is(e.eid, EidSaid(g), None)
                               /\ Is(e.label, EnsembleLabelSaid(g), None)
           /\ e.fig = "1/1" => Is(e.label, LabelSaid(g, e.sid), None)
           /\ e.fig = "1/4" => Is(e.label, CompLabelSaid(g, e.sid, e.scids), None)
  <1>0. ASSUME NEW f \in g, SameItem(e, f) PROVE f = e
      BY <1>0, ConsistentAssumption
  <1> USE DEF Is, Entries
  <1>1. ASSUME e.fig = "0/1" PROVE Is(e.org, OrgSaid(g, e.subchid), None)
      <2>1. \A f \in g : f.fig = "0/1" /\ f.subchid = e.subchid => f = e
          BY <1>0, <1>1 DEF SameItem
      <2> QED BY <1>1, <2>1 DEF OrgSaid
  <1>2. ASSUME e.fig = "0/2", e.ps PROVE Is(e.subchid, PrimarySaid(g, e.sid), None)
      <2>1. \A f \in g : f.fig = "0/2" /\ f.sid = e.sid /\ f.ps => f = e
          BY <1>0, <1>2 DEF SameItem
      <2> QED BY <1>2, <2>1 DEF PrimarySaid
  <1>3. ASSUME e.fig = "0/2" PROVE Is(e.audio, AudioSaid(g, e.sid, e.subchid), None)
      <2>1. \A f \in g : f.fig = "0/2" /\ f.sid = e.sid /\ f.subchid = e.subchid => f = e
          BY <1>0, <1>3 DEF SameItem
      <2> QED BY <1>3, <2>1 DEF AudioSaid
  <1>4. ASSUME e.fig = "0/5" PROVE Is(e.language, LanguageSaid(g, e.subchid), None)
      <2>1. \A f \in g : f.fig = "0/5" /\ f.subchid = e.subchid => f = e
          BY <1>0, <1>4 DEF SameItem
      <2> QED BY <1>4, <2>1 DEF LanguageSaid
  <1>5. ASSUME e.fig = "0/8" PROVE Is(e.subchid, DefSaid(g, e.sid, e.scids), None)
      <2>1. \A f \in g : f.fig = "0/8" /\ f.sid = e.sid /\ f.scids = e.scids => f = e
          BY <1>0, <1>5 DEF SameItem
      <2> QED BY <1>5, <2>1 DEF DefSaid
  <1>6. ASSUME e.fig = "0/9" PROVE Is(e.region, RegionSaid(g), None)
      <2>1. \A f \in g : f.fig = "0/9" => f = e
          BY <1>0, <1>6 DEF SameItem
      <2> QED BY <1>6, <2>1 DEF RegionSaid
  <1>7. ASSUME e.fig = "0/10" PROVE Is(e.date, DateSaid(g), None)
      <2>1. \A f \in g : f.fig = "0/10" => f = e
          BY <1>0, <1>7 DEF SameItem
      <2> QED BY <1>7, <2>1 DEF DateSaid
  <1>8. ASSUME e.fig = "0/13" PROVE Is(e.ua, UaSaid(g, e.sid, e.scids), None)
      <2>1. \A f \in g : f.fig = "0/13" /\ f.sid = e.sid /\ f.scids = e.scids => f = e
          BY <1>0, <1>8 DEF SameItem
      <2> QED BY <1>8, <2>1 DEF UaSaid
  <1>9. ASSUME e.fig = "0/17" PROVE Is(e.pty, PtySaid(g, e.sid, e.sd), None)
      <2>1. \A f \in g : f.fig = "0/17" /\ f.sid = e.sid /\ f.sd = e.sd => f = e
          BY <1>0, <1>9 DEF SameItem
      <2> QED BY <1>9, <2>1 DEF PtySaid
  <1>10. ASSUME e.fig = "0/18"
         PROVE  Is(e.asu_flags, AsuSaid(g, e.sid), 0) /\ Is(e.cids, CidsSaid(g, e.sid), {})
      <2>1. \A f \in g : f.fig = "0/18" /\ f.sid = e.sid => f = e
          BY <1>0, <1>10 DEF SameItem
      <2> QED BY <1>10, <2>1 DEF AsuSaid, CidsSaid
  <1>11. ASSUME e.fig = "0/19" PROVE Is(e.asw, AswSaid(g, e.cid), None)
      <2>1. \A f \in g : f.fig = "0/19" /\ f.cid = e.cid => f = e
          BY <1>0, <1>11 DEF SameItem
      <2> QED BY <1>11, <2>1 DEF AswSaid
  <1>12. ASSUME e.fig = "1/0"
         PROVE  Is(e.eid, EidSaid(g), None) /\ Is(e.label, EnsembleLabelSaid(g), None)
      <2>1. \A f \in g : f.fig = "1/0" => f = e
          BY <1>0, <1>12 DEF SameItem
      <2> QED BY <1>12, <2>1 DEF EidSaid, EnsembleLabelSaid
  <1>13. ASSUME e.fig = "1/1" PROVE Is(e.label, LabelSaid(g, e.sid), None)
      <2>1. \A f \in g : f.fig = "1/1" /\ f.sid = e.sid => f = e
          BY <1>0, <1>13 DEF SameItem
      <2> QED BY <1>13, <2>1 DEF LabelSaid
  <1>14. ASSUME e.fig = "1/4" PROVE Is(e.label, CompLabelSaid(g, e.sid, e.scids), None)
      <2>1. \A f \in g : f.fig = "1/4" /\ f.sid = e.sid /\ f.scids = e.scids => f = e
          BY <1>0, <1>14 DEF SameItem
      <2> QED BY <1>14, <2>1 DEF CompLabelSaid
  <1> HIDE DEF Is, Entries
  <1> QED BY <1>1, <1>2, <1>3, <1>4, <1>5, <1>6, <1>7, <1>8, <1>9, <1>10, <1>11, <1>12,
             <1>13, <1>14

\* The kinds of entry about a service.
ServiceFigs == {"0/2", "0/8", "0/13", "0/17", "0/18", "1/1", "1/4"}

\* What an entry leaves as it was.
LEMMA OtherItems ==
    ASSUME KnowledgeInv, NEW e, NEW G, G = got \cup {e}
    PROVE  /\ \A s \in Sids : ~(e.fig \in ServiceFigs /\ e.sid = s)
                  => ServiceIs(services[s], s, G)
           /\ \A b \in Subchids : ~(e.fig \in {"0/1", "0/5"} /\ e.subchid = b)
                  => SubchannelIs(subchannels[b], b, G)
           /\ e.fig \notin {"0/9", "0/19", "1/0"} => EnsembleIs(ensemble, G)
           /\ e.fig # "0/10" => Is(utc_dt, DateSaid(G), None)
  <1>1. ASSUME NEW s \in Sids, ~(e.fig \in ServiceFigs /\ e.sid = s)
        PROVE  ServiceIs(services[s], s, G)
      <2>1. ServiceIs(services[s], s, got) BY DEF KnowledgeInv, DatabaseIs
      <2>2. /\ ~(e.fig = "0/2" /\ e.sid = s) /\ ~(e.fig = "0/8" /\ e.sid = s)
            /\ ~(e.fig = "0/13" /\ e.sid = s) /\ ~(e.fig = "0/17" /\ e.sid = s)
            /\ ~(e.fig = "0/18" /\ e.sid = s) /\ ~(e.fig = "1/1" /\ e.sid = s)
            /\ ~(e.fig = "1/4" /\ e.sid = s)
          BY <1>1 DEF ServiceFigs
      <2>3. /\ PrimarySaid(G, s) = PrimarySaid(got, s) /\ LabelSaid(G, s) = LabelSaid(got, s)
            /\ AsuSaid(G, s) = AsuSaid(got, s) /\ CidsSaid(G, s) = CidsSaid(got, s)
            /\ \A b : AudioSaid(G, s, b) = AudioSaid(got, s, b)
            /\ \A c : DefSaid(G, s, c) = DefSaid(got, s, c)
            /\ \A c : CompLabelSaid(G, s, c) = CompLabelSaid(got, s, c)
            /\ \A c : UaSaid(G, s, c) = UaSaid(got, s, c)
            /\ \A sd \in BOOLEAN : PtySaid(G, s, sd) = PtySaid(got, s, sd)
          <3>1. \A f : Entries(G, f, s) = IF e.fig = f /\ e.sid = s
                                         THEN Entries(got, f, s) \cup {e} ELSE Entries(got, f, s)
              BY DEF Entries
          <3>2. /\ Entries(G, "0/2", s) = Entries(got, "0/2", s)
                /\ Entries(G, "0/8", s) = Entries(got, "0/8", s)
                /\ Entries(G, "0/13", s) = Entries(got, "0/13", s)
                /\ Entries(G, "0/17", s) = Entries(got, "0/17", s)
                /\ Entries(G, "0/18", s) = Entries(got, "0/18", s)
                /\ Entries(G, "1/1", s) = Entries(got, "1/1", s)
                /\ Entries(G, "1/4", s) = Entries(got, "1/4", s)
              BY <2>2, <3>1
          <3> QED BY <3>2, Zenon DEF PrimarySaid, LabelSaid, AsuSaid, CidsSaid, AudioSaid,
                                     DefSaid, CompLabelSaid, UaSaid, PtySaid
      <2>4. /\ PtySaid(G, s, TRUE) = PtySaid(got, s, TRUE)
            /\ PtySaid(G, s, FALSE) = PtySaid(got, s, FALSE)
          BY <2>3, Zenon
      <2> QED BY <2>1, <2>3, <2>4, Zenon DEF ServiceIs
  <1>2. ASSUME NEW b \in Subchids, ~(e.fig \in {"0/1", "0/5"} /\ e.subchid = b)
        PROVE  SubchannelIs(subchannels[b], b, G)
      <2>1. OrgSaid(G, b) = OrgSaid(got, b) /\ LanguageSaid(G, b) = LanguageSaid(got, b)
          BY <1>2, AddsRest
      <2> QED BY <2>1 DEF KnowledgeInv, DatabaseIs, SubchannelIs
  <1>3. ASSUME e.fig \notin {"0/9", "0/19", "1/0"} PROVE EnsembleIs(ensemble, G)
      <2>1. /\ EidSaid(G) = EidSaid(got) /\ EnsembleLabelSaid(G) = EnsembleLabelSaid(got)
            /\ RegionSaid(G) = RegionSaid(got) /\ \A c : AswSaid(G, c) = AswSaid(got, c)
          BY <1>3, AddsRest
      <2> QED BY <2>1 DEF KnowledgeInv, DatabaseIs, EnsembleIs
  <1>4. ASSUME e.fig # "0/10" PROVE Is(utc_dt, DateSaid(G), None)
      <2>1. DateSaid(G) = DateSaid(got) BY <1>4, AddsRest
      <2> QED BY <2>1 DEF KnowledgeInv, DatabaseIs
  <1> QED BY <1>1, <1>2, <1>3, <1>4

\* The database of the next state, for the entries G.
NextIs(G) ==
    /\ \A s \in Sids : ServiceIs(services'[s], s, G)
    /\ \A b \in Subchids : SubchannelIs(subchannels'[b], b, G)
    /\ EnsembleIs(ensemble', G)
    /\ Is(utc_dt', DateSaid(G), None)

\* A handler that leaves its service with what has been said of it, and
\* nothing else changed, leaves the database so.
LEMMA ServiceHeard ==
    ASSUME KnowledgeInv, NEW e, e.fig \in ServiceFigs, NEW t, NEW changed,
           SetService(e.sid, t, changed), ServiceIs(t, e.sid, got \cup {e})
    PROVE  NextIs(got \cup {e})
  <1> DEFINE G == got \cup {e}
  <1>1. /\ services' = [services EXCEPT ![e.sid] = t]
        /\ subchannels' = subchannels /\ ensemble' = ensemble /\ utc_dt' = utc_dt
      BY DEF SetService
  <1>2. /\ \A s \in Sids : e.sid # s => ServiceIs(services[s], s, G)
        /\ \A b \in Subchids : SubchannelIs(subchannels[b], b, G)
        /\ EnsembleIs(ensemble, G) /\ Is(utc_dt, DateSaid(G), None)
      BY OtherItems DEF ServiceFigs
  <1>3. ServiceIs(t, e.sid, G) OBVIOUS
  <1>4. services \in [Sids -> Service] BY DEF KnowledgeInv, FicTypeOK
  <1> HIDE DEF G
  <1>5. \A s \in Sids : ServiceIs(services'[s], s, G) BY <1>1, <1>2, <1>3, <1>4
  <1>6. NextIs(G) BY <1>1, <1>2, <1>5 DEF NextIs
  <1> QED BY <1>6 DEF G

\* Likewise a handler that sets its sub-channel.
LEMMA SubchannelHeard ==
    ASSUME KnowledgeInv, NEW e, e.fig \in {"0/1", "0/5"}, NEW sc,
           SetSubchannel(e.subchid, sc), SubchannelIs(sc, e.subchid, got \cup {e})
    PROVE  NextIs(got \cup {e})
  <1> DEFINE G == got \cup {e}
  <1>1. /\ subchannels' = [subchannels EXCEPT ![e.subchid] = sc]
        /\ services' = services /\ ensemble' = ensemble /\ utc_dt' = utc_dt
      BY DEF SetSubchannel
  <1>2. /\ \A s \in Sids : ServiceIs(services[s], s, G)
        /\ \A b \in Subchids : e.subchid # b => SubchannelIs(subchannels[b], b, G)
        /\ EnsembleIs(ensemble, G) /\ Is(utc_dt, DateSaid(G), None)
      BY OtherItems DEF ServiceFigs
  <1>3. SubchannelIs(sc, e.subchid, G) OBVIOUS
  <1>4. subchannels \in [Subchids -> Subchannel] BY DEF KnowledgeInv, FicTypeOK
  <1> HIDE DEF G
  <1>5. \A b \in Subchids : SubchannelIs(subchannels'[b], b, G) BY <1>1, <1>2, <1>3, <1>4
  <1>6. NextIs(G) BY <1>1, <1>2, <1>5 DEF NextIs
  <1> QED BY <1>6 DEF G

\* Likewise a handler that sets the ensemble.
LEMMA EnsembleHeard ==
    ASSUME KnowledgeInv, NEW e, e.fig \in {"0/9", "0/19", "1/0"}, NEW ens, NEW affected,
           SetEnsemble(ens, affected), EnsembleIs(ens, got \cup {e})
    PROVE  NextIs(got \cup {e})
  <1> DEFINE G == got \cup {e}
  <1>1. /\ ensemble' = ens /\ services' = services /\ subchannels' = subchannels
        /\ utc_dt' = utc_dt
      BY DEF SetEnsemble
  <1>2. /\ \A s \in Sids : ServiceIs(services[s], s, G)
        /\ \A b \in Subchids : SubchannelIs(subchannels[b], b, G)
        /\ Is(utc_dt, DateSaid(G), None)
      BY OtherItems DEF ServiceFigs
  <1>3. EnsembleIs(ens, G) OBVIOUS
  <1> HIDE DEF G
  <1>6. NextIs(G) BY <1>1, <1>2, <1>3 DEF NextIs
  <1> QED BY <1>6 DEF G

\* The other kinds of entry about service s.
LEMMA OtherEntries ==
    ASSUME NEW g, NEW e, NEW s
    PROVE  \A f : e.fig # f => Entries(g \cup {e}, f, s) = Entries(g, f, s)
  BY DEF Entries

\* An entry heard is one the multiplex sends, and so are all so far.
LEMMA HearIs ==
    ASSUME KnowledgeInv, NEW e \in Broadcast
    PROVE  got \cup {e} \in SUBSET Broadcast /\ e \in got \cup {e} /\ e \in Figs
  BY ConsistentAssumption DEF KnowledgeInv

\* Service organisation.
LEMMA Hear0_2 ==
    ASSUME KnowledgeInv, NEW e \in Broadcast, ProcessFIG0_2(e)
    PROVE  NextIs(got \cup {e})
  <1> DEFINE s == e.sid
             G == got \cup {e}
             r == services[s]
             changed == r.audio_comps[e.subchid] # e.audio
                            \/ e.ps # (r.pri_comp_subchid = e.subchid)
             t == [r EXCEPT !.audio_comps[e.subchid] = e.audio,
                            !.pri_comp_subchid = IF e.ps THEN e.subchid ELSE @]
  <1>1. e.fig = "0/2" /\ e.sid \in Sids /\ e.subchid \in Subchids /\ e.ps \in BOOLEAN
      BY HearIs DEF ProcessFIG0_2, Figs
  <1>2. SetService(s, t, changed) BY DEF ProcessFIG0_2
  <1>3. r \in Service /\ ServiceIs(r, s, got)
      BY <1>1 DEF KnowledgeInv, FicTypeOK, DatabaseIs
  <1>4. /\ t.pri_comp_subchid = IF e.ps THEN e.subchid ELSE r.pri_comp_subchid
        /\ \A b \in Subchids :
               t.audio_comps[b] = IF b = e.subchid THEN e.audio ELSE r.audio_comps[b]
        /\ t.label = r.label /\ t.pty_static = r.pty_static /\ t.pty_dynamic = r.pty_dynamic
        /\ t.asu_flags = r.asu_flags /\ t.cids = r.cids /\ t.comp_defs = r.comp_defs
        /\ t.comp_labels = r.comp_labels /\ t.comp_sls_uas = r.comp_sls_uas
      BY <1>1, <1>3 DEF Service
  <1>5. G = got \cup {e} OBVIOUS
  <1>6. /\ e.ps => Is(e.subchid, PrimarySaid(G, s), None)
        /\ Is(e.audio, AudioSaid(G, s, e.subchid), None)
      BY <1>1, SaidIs, HearIs
  <1>7. /\ ~e.ps => PrimarySaid(G, s) = PrimarySaid(got, s)
        /\ \A b : b # e.subchid => AudioSaid(G, s, b) = AudioSaid(got, s, b)
      BY <1>1 DEF Entries, PrimarySaid, AudioSaid
  <1> HIDE DEF t, r, G
  <1>11. /\ Entries(G, "0/8", s) = Entries(got, "0/8", s)
         /\ Entries(G, "0/13", s) = Entries(got, "0/13", s)
         /\ Entries(G, "0/17", s) = Entries(got, "0/17", s)
         /\ Entries(G, "0/18", s) = Entries(got, "0/18", s)
         /\ Entries(G, "1/1", s) = Entries(got, "1/1", s)
         /\ Entries(G, "1/4", s) = Entries(got, "1/4", s)
      BY <1>1, OtherEntries DEF G
  <1>8. /\ LabelSaid(G, s) = LabelSaid(got, s)
        /\ PtySaid(G, s, FALSE) = PtySaid(got, s, FALSE)
        /\ PtySaid(G, s, TRUE) = PtySaid(got, s, TRUE)
        /\ AsuSaid(G, s) = AsuSaid(got, s) /\ CidsSaid(G, s) = CidsSaid(got, s)
        /\ \A c : DefSaid(G, s, c) = DefSaid(got, s, c)
        /\ \A c : CompLabelSaid(G, s, c) = CompLabelSaid(got, s, c)
        /\ \A c : UaSaid(G, s, c) = UaSaid(got, s, c)
      BY <1>11, Zenon DEF PrimarySaid, LabelSaid, PtySaid, AsuSaid, CidsSaid, AudioSaid,
                           DefSaid, CompLabelSaid, UaSaid
  <1>9. ServiceIs(t, s, G)
      <2>1. Is(t.pri_comp_subchid, PrimarySaid(G, s), None)
          BY <1>1, <1>3, <1>4, <1>6, <1>7 DEF ServiceIs
      <2>2. ASSUME NEW b \in Subchids PROVE Is(t.audio_comps[b], AudioSaid(G, s, b), None)
          BY <1>3, <1>4, <1>6, <1>7 DEF ServiceIs
      <2> QED BY <2>1, <2>2, <1>3, <1>4, <1>8, Zenon DEF ServiceIs
  <1> QED BY <1>1, <1>2, <1>9, ServiceHeard DEF ServiceFigs, G

\* Component definitions.
LEMMA Hear0_8 ==
    ASSUME KnowledgeInv, NEW e \in Broadcast, ProcessFIG0_8(e)
    PROVE  NextIs(got \cup {e})
  <1> DEFINE s == e.sid
             G == got \cup {e}
             r == services[s]
             t == [r EXCEPT !.comp_defs[e.scids] = e.subchid]
  <1>1. e.fig = "0/8" /\ e.sid \in Sids /\ e.scids \in Scids
      BY HearIs DEF ProcessFIG0_8, Figs
  <1>2. SetService(s, t, r.comp_defs[e.scids] # e.subchid) BY DEF ProcessFIG0_8
  <1>3. r \in Service /\ ServiceIs(r, s, got)
      BY <1>1 DEF KnowledgeInv, FicTypeOK, DatabaseIs
  <1>4. /\ t.pri_comp_subchid = r.pri_comp_subchid
        /\ t.label = r.label
        /\ t.pty_static = r.pty_static
        /\ t.pty_dynamic = r.pty_dynamic
        /\ t.asu_flags = r.asu_flags
        /\ t.cids = r.cids
        /\ t.audio_comps = r.audio_comps
        /\ t.comp_labels = r.comp_labels
        /\ t.comp_sls_uas = r.comp_sls_uas
        /\ \A c \in Scids : t.comp_defs[c] =
               IF c = e.scids THEN e.subchid ELSE r.comp_defs[c]
      BY <1>1, <1>3 DEF Service
  <1>5. G = got \cup {e} OBVIOUS
  <1>6. Is(e.subchid, DefSaid(G, s, e.scids), None) BY <1>1, SaidIs, HearIs
  <1>7. \A c : c # e.scids => DefSaid(G, s, c) = DefSaid(got, s, c)
      BY <1>1 DEF Entries, DefSaid
  <1> HIDE DEF t, r, G
  <1>11. /\ Entries(G, "0/2", s) = Entries(got, "0/2", s)
         /\ Entries(G, "0/13", s) = Entries(got, "0/13", s)
         /\ Entries(G, "0/17", s) = Entries(got, "0/17", s)
         /\ Entries(G, "0/18", s) = Entries(got, "0/18", s)
         /\ Entries(G, "1/1", s) = Entries(got, "1/1", s)
         /\ Entries(G, "1/4", s) = Entries(got, "1/4", s)
      BY <1>1, OtherEntries DEF G
  <1>8. /\ PrimarySaid(G, s) = PrimarySaid(got, s)
        /\ LabelSaid(G, s) = LabelSaid(got, s)
        /\ PtySaid(G, s, FALSE) = PtySaid(got, s, FALSE)
        /\ PtySaid(G, s, TRUE) = PtySaid(got, s, TRUE)
        /\ AsuSaid(G, s) = AsuSaid(got, s)
        /\ CidsSaid(G, s) = CidsSaid(got, s)
        /\ \A b : AudioSaid(G, s, b) = AudioSaid(got, s, b)
        /\ \A c : CompLabelSaid(G, s, c) = CompLabelSaid(got, s, c)
        /\ \A c : UaSaid(G, s, c) = UaSaid(got, s, c)
      BY <1>11, Zenon DEF PrimarySaid, LabelSaid, PtySaid, AsuSaid, CidsSaid, AudioSaid,
                           DefSaid, CompLabelSaid, UaSaid
  <1>9. ServiceIs(t, s, G)
      <2>1. ASSUME NEW c \in Scids PROVE Is(t.comp_defs[c], DefSaid(G, s, c), None)
          BY <1>3, <1>4, <1>6, <1>7 DEF ServiceIs
      <2> QED BY <2>1, <1>3, <1>4, <1>8, Zenon DEF ServiceIs
  <1> QED BY <1>1, <1>2, <1>9, ServiceHeard DEF ServiceFigs, G

\* User applications, of which the first stay: later ones are no others.
LEMMA Hear0_13 ==
    ASSUME KnowledgeInv, NEW e \in Broadcast, ProcessFIG0_13(e)
    PROVE  NextIs(got \cup {e})
  <1> DEFINE s == e.sid
             G == got \cup {e}
             r == services[s]
             t == [r EXCEPT !.comp_sls_uas[e.scids] =
                                IF r.comp_sls_uas[e.scids] = None THEN e.ua ELSE @]
  <1>1. e.fig = "0/13" /\ e.sid \in Sids /\ e.scids \in Scids
      BY HearIs DEF ProcessFIG0_13, Figs
  <1>2. SetService(s, t, r.comp_sls_uas[e.scids] = None) BY DEF ProcessFIG0_13
  <1>3. r \in Service /\ ServiceIs(r, s, got)
      BY <1>1 DEF KnowledgeInv, FicTypeOK, DatabaseIs
  <1>4. /\ t.pri_comp_subchid = r.pri_comp_subchid
        /\ t.label = r.label
        /\ t.pty_static = r.pty_static
        /\ t.pty_dynamic = r.pty_dynamic
        /\ t.asu_flags = r.asu_flags
        /\ t.cids = r.cids
        /\ t.audio_comps = r.audio_comps
        /\ t.comp_defs = r.comp_defs
        /\ t.comp_labels = r.comp_labels
        /\ \A c \in Scids : t.comp_sls_uas[c] =
               IF c = e.scids /\ r.comp_sls_uas[c] = None THEN e.ua
               ELSE r.comp_sls_uas[c]
      BY <1>1, <1>3 DEF Service
  <1>5. G = got \cup {e} OBVIOUS
  <1>6. Is(e.ua, UaSaid(G, s, e.scids), None) BY <1>1, SaidIs, HearIs
  <1>7. \A c : c # e.scids => UaSaid(G, s, c) = UaSaid(got, s, c)
      BY <1>1 DEF Entries, UaSaid
  <1>10. r.comp_sls_uas[e.scids] # None => e.ua = r.comp_sls_uas[e.scids]
      <2>1. Is(r.comp_sls_uas[e.scids], UaSaid(got, s, e.scids), None) BY <1>1, <1>3 DEF ServiceIs
      <2>2. UaSaid(got, s, e.scids) \subseteq UaSaid(G, s, e.scids) BY DEF UaSaid, Entries
      <2> HIDE DEF G, r
      <2> QED BY <1>6, <2>1, <2>2 DEF Is
  <1> HIDE DEF t, r, G
  <1>11. /\ Entries(G, "0/2", s) = Entries(got, "0/2", s)
         /\ Entries(G, "0/8", s) = Entries(got, "0/8", s)
         /\ Entries(G, "0/17", s) = Entries(got, "0/17", s)
         /\ Entries(G, "0/18", s) = Entries(got, "0/18", s)
         /\ Entries(G, "1/1", s) = Entries(got, "1/1", s)
         /\ Entries(G, "1/4", s) = Entries(got, "1/4", s)
      BY <1>1, OtherEntries DEF G
  <1>8. /\ PrimarySaid(G, s) = PrimarySaid(got, s)
        /\ LabelSaid(G, s) = LabelSaid(got, s)
        /\ PtySaid(G, s, FALSE) = PtySaid(got, s, FALSE)
        /\ PtySaid(G, s, TRUE) = PtySaid(got, s, TRUE)
        /\ AsuSaid(G, s) = AsuSaid(got, s)
        /\ CidsSaid(G, s) = CidsSaid(got, s)
        /\ \A b : AudioSaid(G, s, b) = AudioSaid(got, s, b)
        /\ \A c : DefSaid(G, s, c) = DefSaid(got, s, c)
        /\ \A c : CompLabelSaid(G, s, c) = CompLabelSaid(got, s, c)
      BY <1>11, Zenon DEF PrimarySaid, LabelSaid, PtySaid, AsuSaid, CidsSaid, AudioSaid,
                           DefSaid, CompLabelSaid, UaSaid
  <1>9. ServiceIs(t, s, G)
      <2>1. ASSUME NEW c \in Scids PROVE Is(t.comp_sls_uas[c], UaSaid(G, s, c), None)
          BY <1>3, <1>4, <1>6, <1>7, <1>10 DEF ServiceIs
      <2> QED BY <2>1, <1>3, <1>4, <1>8, Zenon DEF ServiceIs
  <1> QED BY <1>1, <1>2, <1>9, ServiceHeard DEF ServiceFigs, G

\* Component labels.
LEMMA Hear1_4 ==
    ASSUME KnowledgeInv, NEW e \in Broadcast, ProcessFIG1_4(e)
    PROVE  NextIs(got \cup {e})
  <1> DEFINE s == e.sid
             G == got \cup {e}
             r == services[s]
             t == [r EXCEPT !.comp_labels[e.scids] = e.label]
  <1>1. e.fig = "1/4" /\ e.sid \in Sids /\ e.scids \in Scids
      BY HearIs DEF ProcessFIG1_4, Figs
  <1>2. SetService(s, t, r.comp_labels[e.scids] # e.label) BY DEF ProcessFIG1_4
  <1>3. r \in Service /\ ServiceIs(r, s, got)
      BY <1>1 DEF KnowledgeInv, FicTypeOK, DatabaseIs
  <1>4. /\ t.pri_comp_subchid = r.pri_comp_subchid
        /\ t.label = r.label
        /\ t.pty_static = r.pty_static
        /\ t.pty_dynamic = r.pty_dynamic
        /\ t.asu_flags = r.asu_flags
        /\ t.cids = r.cids
        /\ t.audio_comps = r.audio_comps
        /\ t.comp_defs = r.comp_defs
        /\ t.comp_sls_uas = r.comp_sls_uas
        /\ \A c \in Scids : t.comp_labels[c] =
               IF c = e.scids THEN e.label ELSE r.comp_labels[c]
      BY <1>1, <1>3 DEF Service
  <1>5. G = got \cup {e} OBVIOUS
  <1>6. Is(e.label, CompLabelSaid(G, s, e.scids), None) BY <1>1, SaidIs, HearIs
  <1>7. \A c : c # e.scids => CompLabelSaid(G, s, c) = CompLabelSaid(got, s, c)
      BY <1>1 DEF Entries, CompLabelSaid
  <1> HIDE DEF t, r, G
  <1>11. /\ Entries(G, "0/2", s) = Entries(got, "0/2", s)
         /\ Entries(G, "0/8", s) = Entries(got, "0/8", s)
         /\ Entries(G, "0/13", s) = Entries(got, "0/13", s)
         /\ Entries(G, "0/17", s) = Entries(got, "0/17", s)
         /\ Entries(G, "0/18", s) = Entries(got, "0/18", s)
         /\ Entries(G, "1/1", s) = Entries(got, "1/1", s)
      BY <1>1, OtherEntries DEF G
  <1>8. /\ PrimarySaid(G, s) = PrimarySaid(got, s)
        /\ LabelSaid(G, s) = LabelSaid(got, s)
        /\ PtySaid(G, s, FALSE) = PtySaid(got, s, FALSE)
        /\ PtySaid(G, s, TRUE) = PtySaid(got, s, TRUE)
        /\ AsuSaid(G, s) = AsuSaid(got, s)
        /\ CidsSaid(G, s) = CidsSaid(got, s)
        /\ \A b : AudioSaid(G, s, b) = AudioSaid(got, s, b)
        /\ \A c : DefSaid(G, s, c) = DefSaid(got, s, c)
        /\ \A c : UaSaid(G, s, c) = UaSaid(got, s, c)
      BY <1>11, Zenon DEF PrimarySaid, LabelSaid, PtySaid, AsuSaid, CidsSaid, AudioSaid,
                           DefSaid, CompLabelSaid, UaSaid
  <1>9. ServiceIs(t, s, G)
      <2>1. ASSUME NEW c \in Scids PROVE Is(t.comp_labels[c], CompLabelSaid(G, s, c), None)
          BY <1>3, <1>4, <1>6, <1>7 DEF ServiceIs
      <2> QED BY <2>1, <1>3, <1>4, <1>8, Zenon DEF ServiceIs
  <1> QED BY <1>1, <1>2, <1>9, ServiceHeard DEF ServiceFigs, G

\* Announcement support.
LEMMA Hear0_18 ==
    ASSUME KnowledgeInv, NEW e \in Broadcast, ProcessFIG0_18(e)
    PROVE  NextIs(got \cup {e})
  <1> DEFINE s == e.sid
             G == got \cup {e}
             r == services[s]
             t == [r EXCEPT !.asu_flags = e.asu_flags, !.cids = e.cids]
  <1>1. e.fig = "0/18" /\ e.sid \in Sids
      BY HearIs DEF ProcessFIG0_18, Figs
  <1>2. SetService(s, t, r.asu_flags # e.asu_flags \/ r.cids # e.cids) BY DEF ProcessFIG0_18
  <1>3. r \in Service /\ ServiceIs(r, s, got)
      BY <1>1 DEF KnowledgeInv, FicTypeOK, DatabaseIs
  <1>4. /\ t.asu_flags = e.asu_flags
        /\ t.cids = e.cids
        /\ t.pri_comp_subchid = r.pri_comp_subchid
        /\ t.label = r.label
        /\ t.pty_static = r.pty_static
        /\ t.pty_dynamic = r.pty_dynamic
        /\ t.audio_comps = r.audio_comps
        /\ t.comp_defs = r.comp_defs
        /\ t.comp_labels = r.comp_labels
        /\ t.comp_sls_uas = r.comp_sls_uas
      BY <1>1, <1>3 DEF Service
  <1>5. G = got \cup {e} OBVIOUS
  <1>6. /\ Is(e.asu_flags, AsuSaid(G, s), 0)
        /\ Is(e.cids, CidsSaid(G, s), {})
      BY <1>1, SaidIs, HearIs
  <1> HIDE DEF t, r, G
  <1>11. /\ Entries(G, "0/2", s) = Entries(got, "0/2", s)
         /\ Entries(G, "0/8", s) = Entries(got, "0/8", s)
         /\ Entries(G, "0/13", s) = Entries(got, "0/13", s)
         /\ Entries(G, "0/17", s) = Entries(got, "0/17", s)
         /\ Entries(G, "1/1", s) = Entries(got, "1/1", s)
         /\ Entries(G, "1/4", s) = Entries(got, "1/4", s)
      BY <1>1, OtherEntries DEF G
  <1>8. /\ PrimarySaid(G, s) = PrimarySaid(got, s)
        /\ LabelSaid(G, s) = LabelSaid(got, s)
        /\ PtySaid(G, s, FALSE) = PtySaid(got, s, FALSE)
        /\ PtySaid(G, s, TRUE) = PtySaid(got, s, TRUE)
        /\ \A b : AudioSaid(G, s, b) = AudioSaid(got, s, b)
        /\ \A c : DefSaid(G, s, c) = DefSaid(got, s, c)
        /\ \A c : CompLabelSaid(G, s, c) = CompLabelSaid(got, s, c)
        /\ \A c : UaSaid(G, s, c) = UaSaid(got, s, c)
      BY <1>11, Zenon DEF PrimarySaid, LabelSaid, PtySaid, AsuSaid, CidsSaid, AudioSaid,
                           DefSaid, CompLabelSaid, UaSaid
  <1>9. ServiceIs(t, s, G)
      BY <1>3, <1>4, <1>6, <1>8, Zenon DEF ServiceIs
  <1> QED BY <1>1, <1>2, <1>9, ServiceHeard DEF ServiceFigs, G

\* Service labels.
LEMMA Hear1_1 ==
    ASSUME KnowledgeInv, NEW e \in Broadcast, ProcessFIG1_1(e)
    PROVE  NextIs(got \cup {e})
  <1> DEFINE s == e.sid
             G == got \cup {e}
             r == services[s]
             t == [r EXCEPT !.label = e.label]
  <1>1. e.fig = "1/1" /\ e.sid \in Sids
      BY HearIs DEF ProcessFIG1_1, Figs
  <1>2. SetService(s, t, r.label # e.label) BY DEF ProcessFIG1_1
  <1>3. r \in Service /\ ServiceIs(r, s, got)
      BY <1>1 DEF KnowledgeInv, FicTypeOK, DatabaseIs
  <1>4. /\ t.label = e.label
        /\ t.pri_comp_subchid = r.pri_comp_subchid
        /\ t.pty_static = r.pty_static
        /\ t.pty_dynamic = r.pty_dynamic
        /\ t.asu_flags = r.asu_flags
        /\ t.cids = r.cids
        /\ t.audio_comps = r.audio_comps
        /\ t.comp_defs = r.comp_defs
        /\ t.comp_labels = r.comp_labels
        /\ t.comp_sls_uas = r.comp_sls_uas
      BY <1>1, <1>3 DEF Service
  <1>5. G = got \cup {e} OBVIOUS
  <1>6. /\ Is(e.label, LabelSaid(G, s), None)
      BY <1>1, SaidIs, HearIs
  <1> HIDE DEF t, r, G
  <1>11. /\ Entries(G, "0/2", s) = Entries(got, "0/2", s)
         /\ Entries(G, "0/8", s) = Entries(got, "0/8", s)
         /\ Entries(G, "0/13", s) = Entries(got, "0/13", s)
         /\ Entries(G, "0/17", s) = Entries(got, "0/17", s)
         /\ Entries(G, "0/18", s) = Entries(got, "0/18", s)
         /\ Entries(G, "1/4", s) = Entries(got, "1/4", s)
      BY <1>1, OtherEntries DEF G
  <1>8. /\ PrimarySaid(G, s) = PrimarySaid(got, s)
        /\ PtySaid(G, s, FALSE) = PtySaid(got, s, FALSE)
        /\ PtySaid(G, s, TRUE) = PtySaid(got, s, TRUE)
        /\ AsuSaid(G, s) = AsuSaid(got, s)
        /\ CidsSaid(G, s) = CidsSaid(got, s)
        /\ \A b : AudioSaid(G, s, b) = AudioSaid(got, s, b)
        /\ \A c : DefSaid(G, s, c) = DefSaid(got, s, c)
        /\ \A c : CompLabelSaid(G, s, c) = CompLabelSaid(got, s, c)
        /\ \A c : UaSaid(G, s, c) = UaSaid(got, s, c)
      BY <1>11, Zenon DEF PrimarySaid, LabelSaid, PtySaid, AsuSaid, CidsSaid, AudioSaid,
                           DefSaid, CompLabelSaid, UaSaid
  <1>9. ServiceIs(t, s, G)
      BY <1>3, <1>4, <1>6, <1>8, Zenon DEF ServiceIs
  <1> QED BY <1>1, <1>2, <1>9, ServiceHeard DEF ServiceFigs, G

\* Programme types, static and dynamic ones apart.
LEMMA Hear0_17 ==
    ASSUME KnowledgeInv, NEW e \in Broadcast, ProcessFIG0_17(e)
    PROVE  NextIs(got \cup {e})
  <1> DEFINE s == e.sid
             G == got \cup {e}
             r == services[s]
             t == IF e.sd THEN [r EXCEPT !.pty_dynamic = e.pty]
                  ELSE [r EXCEPT !.pty_static = e.pty]
             changed == IF e.sd THEN r.pty_dynamic # e.pty ELSE r.pty_static # e.pty
  <1>1. e.fig = "0/17" /\ e.sid \in Sids /\ e.sd \in BOOLEAN
      BY HearIs DEF ProcessFIG0_17, Figs
  <1>2. SetService(s, t, changed)
      <2>1. CASE e.sd
          <3>1. SetService(s, [r EXCEPT !.pty_dynamic = e.pty], r.pty_dynamic # e.pty)
              BY <2>1 DEF ProcessFIG0_17
          <3> QED BY <2>1, <3>1
      <2>2. CASE ~e.sd
          <3>1. SetService(s, [r EXCEPT !.pty_static = e.pty], r.pty_static # e.pty)
              BY <2>2 DEF ProcessFIG0_17
          <3> QED BY <2>2, <3>1
      <2> QED BY <2>1, <2>2
  <1>3. r \in Service /\ ServiceIs(r, s, got)
      BY <1>1 DEF KnowledgeInv, FicTypeOK, DatabaseIs
  <1>4. /\ t.pty_dynamic = IF e.sd THEN e.pty ELSE r.pty_dynamic
        /\ t.pty_static = IF e.sd THEN r.pty_static ELSE e.pty
        /\ t.pri_comp_subchid = r.pri_comp_subchid /\ t.label = r.label
        /\ t.asu_flags = r.asu_flags /\ t.cids = r.cids
        /\ t.audio_comps = r.audio_comps /\ t.comp_defs = r.comp_defs
        /\ t.comp_labels = r.comp_labels /\ t.comp_sls_uas = r.comp_sls_uas
      BY <1>1, <1>3 DEF Service
  <1>5. Is(e.pty, PtySaid(G, s, e.sd), None) BY <1>1, SaidIs, HearIs
  <1>6. \A sd \in BOOLEAN : sd # e.sd => PtySaid(G, s, sd) = PtySaid(got, s, sd)
      BY <1>1 DEF Entries, PtySaid
  <1>7. /\ Entries(G, "0/2", s) = Entries(got, "0/2", s)
        /\ Entries(G, "0/8", s) = Entries(got, "0/8", s)
        /\ Entries(G, "0/13", s) = Entries(got, "0/13", s)
        /\ Entries(G, "0/18", s) = Entries(got, "0/18", s)
        /\ Entries(G, "1/1", s) = Entries(got, "1/1", s)
        /\ Entries(G, "1/4", s) = Entries(got, "1/4", s)
      BY <1>1, OtherEntries
  <1> HIDE DEF t, r, G, changed
  <1>8. /\ PrimarySaid(G, s) = PrimarySaid(got, s) /\ LabelSaid(G, s) = LabelSaid(got, s)
        /\ AsuSaid(G, s) = AsuSaid(got, s) /\ CidsSaid(G, s) = CidsSaid(got, s)
        /\ \A b : AudioSaid(G, s, b) = AudioSaid(got, s, b)
        /\ \A c : DefSaid(G, s, c) = DefSaid(got, s, c)
        /\ \A c : CompLabelSaid(G, s, c) = CompLabelSaid(got, s, c)
        /\ \A c : UaSaid(G, s, c) = UaSaid(got, s, c)
      BY <1>7, Zenon DEF PrimarySaid, LabelSaid, AsuSaid, CidsSaid, AudioSaid, DefSaid,
                         CompLabelSaid, UaSaid
  <1>9. /\ Is(r.pty_static, PtySaid(got, s, FALSE), None)
        /\ Is(r.pty_dynamic, PtySaid(got, s, TRUE), None)
      BY <1>3, Zenon DEF ServiceIs
  <1>10. /\ Is(t.pty_static, PtySaid(G, s, FALSE), None)
         /\ Is(t.pty_dynamic, PtySaid(G, s, TRUE), None)
      <2>1. CASE e.sd = TRUE
          <3>1. PtySaid(G, s, FALSE) = PtySaid(got, s, FALSE) BY <1>6, <2>1, Zenon
          <3>2. t.pty_dynamic = e.pty /\ t.pty_static = r.pty_static BY <1>4, <2>1
          <3>3. Is(e.pty, PtySaid(G, s, TRUE), None) BY <1>5, <2>1, Zenon
          <3> QED BY <1>9, <3>1, <3>2, <3>3, Zenon
      <2>2. CASE e.sd = FALSE
          <3>1. PtySaid(G, s, TRUE) = PtySaid(got, s, TRUE) BY <1>6, <2>2, Zenon
          <3>2. t.pty_static = e.pty /\ t.pty_dynamic = r.pty_dynamic BY <1>4, <2>2
          <3>3. Is(e.pty, PtySaid(G, s, FALSE), None) BY <1>5, <2>2, Zenon
          <3> QED BY <1>9, <3>1, <3>2, <3>3, Zenon
      <2> QED BY <1>1, <2>1, <2>2
  <1>11. ServiceIs(t, s, G)
      BY <1>3, <1>4, <1>8, <1>10, Zenon DEF ServiceIs
  <1> QED BY <1>1, <1>2, <1>11, ServiceHeard DEF ServiceFigs, G

\* Sub-channel organisation, which leaves the language.
LEMMA Hear0_1 ==
    ASSUME KnowledgeInv, NEW e \in Broadcast, ProcessFIG0_1(e)
    PROVE  NextIs(got \cup {e})
  <1> DEFINE b == e.subchid
             G == got \cup {e}
             r == subchannels[b]
             sc == [r EXCEPT !.org = e.org]
  <1>1. e.fig = "0/1" /\ b \in Subchids
      BY HearIs DEF ProcessFIG0_1, Figs
  <1>2. SetSubchannel(b, sc) BY DEF ProcessFIG0_1
  <1>3. r \in Subchannel /\ SubchannelIs(r, b, got)
      BY <1>1 DEF KnowledgeInv, FicTypeOK, DatabaseIs
  <1>4. sc.org = e.org /\ sc.language = r.language BY <1>3 DEF Subchannel
  <1>5. Is(e.org, OrgSaid(G, b), None) BY <1>1, SaidIs, HearIs
  <1>6. LanguageSaid(G, b) = LanguageSaid(got, b) BY <1>1, AddsRest
  <1> HIDE DEF sc, r, G
  <1>7. SubchannelIs(sc, b, G) BY <1>3, <1>4, <1>5, <1>6 DEF SubchannelIs
  <1> QED BY <1>1, <1>2, <1>7, SubchannelHeard DEF G

\* The language, which leaves the organisation.
LEMMA Hear0_5 ==
    ASSUME KnowledgeInv, NEW e \in Broadcast, ProcessFIG0_5(e)
    PROVE  NextIs(got \cup {e})
  <1> DEFINE b == e.subchid
             G == got \cup {e}
             r == subchannels[b]
             sc == [r EXCEPT !.language = e.language]
  <1>1. e.fig = "0/5" /\ b \in Subchids
      BY HearIs DEF ProcessFIG0_5, Figs
  <1>2. SetSubchannel(b, sc) BY DEF ProcessFIG0_5
  <1>3. r \in Subchannel /\ SubchannelIs(r, b, got)
      BY <1>1 DEF KnowledgeInv, FicTypeOK, DatabaseIs
  <1>4. sc.org = r.org /\ sc.language = e.language BY <1>3 DEF Subchannel
  <1>5. Is(e.language, LanguageSaid(G, b), None) BY <1>1, SaidIs, HearIs
  <1>6. OrgSaid(G, b) = OrgSaid(got, b) BY <1>1, AddsRest
  <1> HIDE DEF sc, r, G
  <1>7. SubchannelIs(sc, b, G) BY <1>3, <1>4, <1>5, <1>6 DEF SubchannelIs
  <1> QED BY <1>1, <1>2, <1>7, SubchannelHeard DEF G

\* The region of the ensemble.
LEMMA Hear0_9 ==
    ASSUME KnowledgeInv, NEW e \in Broadcast, ProcessFIG0_9(e)
    PROVE  NextIs(got \cup {e})
  <1> DEFINE G == got \cup {e}
             ens == [ensemble EXCEPT !.region = e.region]
             affected == {s \in Sids : \/ services[s].pty_static # None
                                       \/ services[s].pty_dynamic # None}
  <1>1. e.fig = "0/9" BY DEF ProcessFIG0_9
  <1>2. SetEnsemble(ens, affected) BY DEF ProcessFIG0_9
  <1>3. ensemble \in Ensemble /\ EnsembleIs(ensemble, got)
      BY DEF KnowledgeInv, FicTypeOK, DatabaseIs
  <1>4. /\ ens.region = e.region /\ ens.eid = ensemble.eid /\ ens.label = ensemble.label
        /\ ens.asw_clusters = ensemble.asw_clusters
      BY <1>3 DEF Ensemble
  <1>5. Is(e.region, RegionSaid(G), None) BY <1>1, SaidIs, HearIs
  <1>6. /\ EidSaid(G) = EidSaid(got) /\ EnsembleLabelSaid(G) = EnsembleLabelSaid(got)
        /\ \A c : AswSaid(G, c) = AswSaid(got, c)
      BY <1>1, AddsRest
  <1> HIDE DEF ens, affected, G
  <1>7. EnsembleIs(ens, G) BY <1>3, <1>4, <1>5, <1>6 DEF EnsembleIs
  <1> QED BY <1>1, <1>2, <1>7, EnsembleHeard DEF G

\* The announcement switching of a cluster.
LEMMA Hear0_19 ==
    ASSUME KnowledgeInv, NEW e \in Broadcast, ProcessFIG0_19(e)
    PROVE  NextIs(got \cup {e})
  <1> DEFINE G == got \cup {e}
             ens == [ensemble EXCEPT !.asw_clusters[e.cid] = e.asw]
             affected == {s \in Sids : e.cid \in services[s].cids}
  <1>1. e.fig = "0/19" BY DEF ProcessFIG0_19
  <1>2. SetEnsemble(ens, affected) BY DEF ProcessFIG0_19
  <1>3. ensemble \in Ensemble /\ EnsembleIs(ensemble, got)
      BY DEF KnowledgeInv, FicTypeOK, DatabaseIs
  <1>4. /\ ens.region = ensemble.region /\ ens.eid = ensemble.eid
        /\ ens.label = ensemble.label
        /\ \A c \in Cids :
               ens.asw_clusters[c] = IF c = e.cid THEN e.asw ELSE ensemble.asw_clusters[c]
      BY <1>3 DEF Ensemble
  <1>5. Is(e.asw, AswSaid(G, e.cid), None) BY <1>1, SaidIs, HearIs
  <1>6. /\ EidSaid(G) = EidSaid(got) /\ EnsembleLabelSaid(G) = EnsembleLabelSaid(got)
        /\ RegionSaid(G) = RegionSaid(got)
        /\ \A c : c # e.cid => AswSaid(G, c) = AswSaid(got, c)
      BY <1>1, AddsRest
  <1> HIDE DEF ens, affected, G
  <1>7. EnsembleIs(ens, G) BY <1>3, <1>4, <1>5, <1>6 DEF EnsembleIs
  <1> QED BY <1>1, <1>2, <1>7, EnsembleHeard DEF G

\* The label of the ensemble.
LEMMA Hear1_0 ==
    ASSUME KnowledgeInv, NEW e \in Broadcast, ProcessFIG1_0(e)
    PROVE  NextIs(got \cup {e})
  <1> DEFINE G == got \cup {e}
             ens == [ensemble EXCEPT !.eid = e.eid, !.label = e.label]
  <1>1. e.fig = "1/0" BY DEF ProcessFIG1_0
  <1>2. SetEnsemble(ens, {}) BY DEF ProcessFIG1_0
  <1>3. ensemble \in Ensemble /\ EnsembleIs(ensemble, got)
      BY DEF KnowledgeInv, FicTypeOK, DatabaseIs
  <1>4. /\ ens.region = ensemble.region /\ ens.eid = e.eid /\ ens.label = e.label
        /\ ens.asw_clusters = ensemble.asw_clusters
      BY <1>3 DEF Ensemble
  <1>5. Is(e.eid, EidSaid(G), None) /\ Is(e.label, EnsembleLabelSaid(G), None)
      BY <1>1, SaidIs, HearIs
  <1>6. RegionSaid(G) = RegionSaid(got) /\ \A c : AswSaid(G, c) = AswSaid(got, c)
      BY <1>1, AddsRest
  <1> HIDE DEF ens, G
  <1>7. EnsembleIs(ens, G) BY <1>3, <1>4, <1>5, <1>6 DEF EnsembleIs
  <1> QED BY <1>1, <1>2, <1>7, EnsembleHeard DEF G

\* Date and time, and what is dropped unread.
LEMMA HearRest ==
    ASSUME KnowledgeInv, NEW e \in Broadcast, ProcessFIG0_10(e) \/ Ignore(e)
    PROVE  NextIs(got \cup {e})
  <1> DEFINE G == got \cup {e}
  <1>1. e.fig \in {"0/10", "none"} /\ services' = services /\ subchannels' = subchannels
            /\ ensemble' = ensemble
      BY DEF ProcessFIG0_10, Ignore, database
  <1>2. /\ \A s \in Sids : ServiceIs(services[s], s, G)
        /\ \A b \in Subchids : SubchannelIs(subchannels[b], b, G)
        /\ EnsembleIs(ensemble, G)
      BY <1>1, OtherItems DEF ServiceFigs
  <1>3. Is(utc_dt', DateSaid(G), None)
      <2>1. CASE ProcessFIG0_10(e)
          <3>1. e.fig = "0/10" /\ utc_dt' = e.date BY <2>1 DEF ProcessFIG0_10
          <3> QED BY <3>1, SaidIs, HearIs
      <2>2. CASE Ignore(e)
          <3>1. e.fig # "0/10" /\ utc_dt' = utc_dt BY <2>2 DEF Ignore, database
          <3> QED BY <3>1, OtherItems
      <2> QED BY <2>1, <2>2
  <1> HIDE DEF G
  <1>4. NextIs(G) BY <1>1, <1>2, <1>3 DEF NextIs
  <1> QED BY <1>4 DEF G

\* An entry heard is an entry known.
LEMMA HearInv ==
    ASSUME KnowledgeInv, NEW e \in Broadcast, Hear(e)
    PROVE  KnowledgeInv'
  <1>1. ProcessFIG(e) /\ got' = got \cup {e} BY DEF Hear
  <1>2. NextIs(got \cup {e})
      BY <1>1, Hear0_1, Hear0_2, Hear0_5, Hear0_8, Hear0_9, Hear0_13, Hear0_17, Hear0_18,
         Hear0_19, Hear1_0, Hear1_1, Hear1_4, HearRest DEF ProcessFIG
  <1>3. DatabaseIs(got)' BY <1>1, <1>2, Zenon DEF DatabaseIs, NextIs
  <1>4. FicTypeOK' BY <1>1, HearIs, HandlerTypeOK DEF KnowledgeInv
  <1> QED BY <1>1, <1>3, <1>4 DEF KnowledgeInv

\* A decoder that has heard nothing knows nothing.
LEMMA NothingKnown ==
    /\ \A s \in Sids : ServiceIs(NewServices[s], s, {})
    /\ \A b \in Subchids : SubchannelIs(NewSubchannels[b], b, {})
    /\ EnsembleIs(NewEnsemble, {}) /\ Is(None, DateSaid({}), None)
  <1>1. ASSUME NEW s \in Sids PROVE ServiceIs(NewServices[s], s, {})
      <2>1. \A f : Entries({}, f, s) = {} BY DEF Entries
      <2>2. /\ PrimarySaid({}, s) = {} /\ LabelSaid({}, s) = {} /\ AsuSaid({}, s) = {}
            /\ CidsSaid({}, s) = {}
          BY <2>1 DEF PrimarySaid, LabelSaid, AsuSaid, CidsSaid
      <2>6. \A b : AudioSaid({}, s, b) = {} BY <2>1 DEF AudioSaid
      <2>7. \A c : DefSaid({}, s, c) = {} BY <2>1 DEF DefSaid
      <2>8. \A c : CompLabelSaid({}, s, c) = {} BY <2>1 DEF CompLabelSaid
      <2>9. \A c : UaSaid({}, s, c) = {} BY <2>1 DEF UaSaid
      <2>3. NewServices[s] = NewService BY DEF NewServices
      <2>4. \A v : Is(v, {}, v) BY DEF Is
      <2>5. PtySaid({}, s, FALSE) = {} /\ PtySaid({}, s, TRUE) = {} BY <2>1 DEF PtySaid
      <2> DEFINE r == NewServices[s]
      <2>10. /\ r.pri_comp_subchid = None /\ r.label = None /\ r.pty_static = None
             /\ r.pty_dynamic = None /\ r.asu_flags = 0 /\ r.cids = {}
             /\ \A b \in Subchids : r.audio_comps[b] = None
             /\ \A c \in Scids : /\ r.comp_defs[c] = None /\ r.comp_labels[c] = None
                                 /\ r.comp_sls_uas[c] = None
          BY <2>3 DEF NewService
      <2> HIDE DEF r
      <2>11. /\ Is(r.pri_comp_subchid, PrimarySaid({}, s), None)
             /\ Is(r.label, LabelSaid({}, s), None)
             /\ Is(r.pty_static, PtySaid({}, s, FALSE), None)
             /\ Is(r.pty_dynamic, PtySaid({}, s, TRUE), None)
             /\ Is(r.asu_flags, AsuSaid({}, s), 0) /\ Is(r.cids, CidsSaid({}, s), {})
          BY <2>2, <2>4, <2>5, <2>10, Zenon
      <2>12. \A b \in Subchids : Is(r.audio_comps[b], AudioSaid({}, s, b), None)
          BY <2>4, <2>6, <2>10, Zenon
      <2>13. /\ \A c \in Scids : Is(r.comp_defs[c], DefSaid({}, s, c), None)
             /\ \A c \in Scids : Is(r.comp_labels[c], CompLabelSaid({}, s, c), None)
             /\ \A c \in Scids : Is(r.comp_sls_uas[c], UaSaid({}, s, c), None)
          BY <2>4, <2>7, <2>8, <2>9, <2>10, Zenon
      <2> QED BY <2>11, <2>12, <2>13, Zenon DEF ServiceIs, r
  <1>2. ASSUME NEW b \in Subchids PROVE SubchannelIs(NewSubchannels[b], b, {})
      BY DEF NewSubchannels, NewSubchannel, SubchannelIs, OrgSaid, LanguageSaid, Is
  <1>3. EnsembleIs(NewEnsemble, {})
      BY DEF NewEnsemble, EnsembleIs, EidSaid, EnsembleLabelSaid, RegionSaid, AswSaid, Is
  <1>4. Is(None, DateSaid({}), None) BY DEF DateSaid, Is
  <1> QED BY <1>1, <1>2, <1>3, <1>4

\* The decoder starts, and goes on after a reset, with nothing known.
LEMMA NothingKnownInv ==
    /\ KnowledgeInit => KnowledgeInv
    /\ KnowledgeInv /\ Forget => KnowledgeInv'
  <1>1. ASSUME KnowledgeInit PROVE KnowledgeInv
      <2>1. FicTypeOK BY <1>1, FicInitTypeOK DEF KnowledgeInit
      <2>2. DatabaseIs(got)
          BY <1>1, NothingKnown DEF KnowledgeInit, FicInit, DatabaseIs
      <2> QED BY <1>1, <2>1, <2>2 DEF KnowledgeInit, KnowledgeInv
  <1>2. ASSUME KnowledgeInv, Forget PROVE KnowledgeInv'
      <2>1. FicTypeOK' BY <1>2, ResetTypeOK DEF Forget
      <2>2. DatabaseIs(got)'
          BY <1>2, NothingKnown DEF Forget, Reset, DatabaseIs
      <2>3. got' \subseteq Broadcast BY <1>2 DEF Forget
      <2> QED BY <2>1, <2>2, <2>3 DEF KnowledgeInv
  <1> QED BY <1>1, <1>2

\* The invariant holds.
LEMMA KnowledgeHolds == KnowledgeSpec => []KnowledgeInv
  <1>1. KnowledgeInit => KnowledgeInv BY NothingKnownInv
  <1>2. KnowledgeInv /\ [KnowledgeNext]_knowledgeVars => KnowledgeInv'
      <2> SUFFICES ASSUME KnowledgeInv, [KnowledgeNext]_knowledgeVars PROVE KnowledgeInv'
          OBVIOUS
      <2>1. ASSUME NEW e \in Broadcast, Hear(e) PROVE KnowledgeInv' BY <2>1, HearInv
      <2>2. CASE Forget BY <2>2, NothingKnownInv
      <2>3. CASE UNCHANGED knowledgeVars
          BY <2>3 DEF knowledgeVars, ficVars, KnowledgeInv, FicTypeOK, DatabaseIs
      <2> QED BY <2>1, <2>2, <2>3 DEF KnowledgeNext
  <1> QED BY <1>1, <1>2, PTL DEF KnowledgeSpec

\* The thirteen handlers together build the database that the set of entries
\* received since the last reset determines: no order of arrival and no
\* repetition makes any of them undo or mix up what another one stored.
THEOREM KnowledgeIsKept == KnowledgeSpec => []DatabaseIsKnowledge
  <1>1. KnowledgeInv => DatabaseIsKnowledge BY KnownIs
  <1> QED BY <1>1, KnowledgeHolds, PTL

\* What an entry received before says is what the database holds.
LEMMA HeldIs ==
    ASSUME KnowledgeInv, NEW e \in got
    PROVE  /\ e \in Figs
           /\ e.fig = "0/1" => e.org = subchannels[e.subchid].org
           /\ e.fig = "0/2" => /\ e.ps => services[e.sid].pri_comp_subchid = e.subchid
                               /\ services[e.sid].audio_comps[e.subchid] = e.audio
           /\ e.fig = "0/5" => e.language = subchannels[e.subchid].language
           /\ e.fig = "0/8" => services[e.sid].comp_defs[e.scids] = e.subchid
           /\ e.fig = "0/9" => ensemble.region = e.region
           /\ e.fig = "0/13" => services[e.sid].comp_sls_uas[e.scids] = e.ua
           /\ e.fig = "0/17" => IF e.sd THEN services[e.sid].pty_dynamic = e.pty
                                ELSE services[e.sid].pty_static = e.pty
           /\ e.fig = "0/18" => /\ services[e.sid].asu_flags = e.asu_flags
                                /\ services[e.sid].cids = e.cids
           /\ e.fig = "0/19" => ensemble.asw_clusters[e.cid] = e.asw
           /\ e.fig = "1/0" => ensemble.eid = e.eid /\ ensemble.label = e.label
           /\ e.fig = "1/1" => services[e.sid].label = e.label
           /\ e.fig = "1/4" => services[e.sid].comp_labels[e.scids] = e.label
  <1>1. e \in Figs BY ConsistentAssumption DEF KnowledgeInv
  <1>2. /\ \A s \in Sids : ServiceIs(services[s], s, got)
        /\ \A b \in Subchids : SubchannelIs(subchannels[b], b, got)
        /\ EnsembleIs(ensemble, got)
      BY DEF KnowledgeInv, DatabaseIs
  <1> USE DEF Is, Entries
  <1>3. ASSUME e.fig = "0/1" PROVE e.org = subchannels[e.subchid].org
      <2>1. e.subchid \in Subchids BY <1>1, <1>3 DEF Figs
      <2>2. e.org \in OrgSaid(got, e.subchid) BY <1>3 DEF OrgSaid
      <2> QED BY <1>2, <2>1, <2>2 DEF SubchannelIs
  <1>4. ASSUME e.fig = "0/2"
        PROVE  /\ e.ps => services[e.sid].pri_comp_subchid = e.subchid
               /\ services[e.sid].audio_comps[e.subchid] = e.audio
      <2>1. e.sid \in Sids /\ e.subchid \in Subchids BY <1>1, <1>4 DEF Figs
      <2>2. e.audio \in AudioSaid(got, e.sid, e.subchid) BY <1>4 DEF AudioSaid
      <2>3. e.ps => e.subchid \in PrimarySaid(got, e.sid) BY <1>4 DEF PrimarySaid
      <2> QED BY <1>2, <2>1, <2>2, <2>3 DEF ServiceIs
  <1>5. ASSUME e.fig = "0/5" PROVE e.language = subchannels[e.subchid].language
      <2>1. e.subchid \in Subchids BY <1>1, <1>5 DEF Figs
      <2>2. e.language \in LanguageSaid(got, e.subchid) BY <1>5 DEF LanguageSaid
      <2> QED BY <1>2, <2>1, <2>2 DEF SubchannelIs
  <1>6. ASSUME e.fig = "0/8" PROVE services[e.sid].comp_defs[e.scids] = e.subchid
      <2>1. e.sid \in Sids /\ e.scids \in Scids BY <1>1, <1>6 DEF Figs
      <2>2. e.subchid \in DefSaid(got, e.sid, e.scids) BY <1>6 DEF DefSaid
      <2> QED BY <1>2, <2>1, <2>2 DEF ServiceIs
  <1>7. ASSUME e.fig = "0/9" PROVE ensemble.region = e.region
      <2>1. e.region \in RegionSaid(got) BY <1>7 DEF RegionSaid
      <2> QED BY <1>2, <2>1 DEF EnsembleIs
  <1>8. ASSUME e.fig = "0/13" PROVE services[e.sid].comp_sls_uas[e.scids] = e.ua
      <2>1. e.sid \in Sids /\ e.scids \in Scids BY <1>1, <1>8 DEF Figs
      <2>2. e.ua \in UaSaid(got, e.sid, e.scids) BY <1>8 DEF UaSaid
      <2> QED BY <1>2, <2>1, <2>2 DEF ServiceIs
  <1>9. ASSUME e.fig = "0/17"
        PROVE  IF e.sd THEN services[e.sid].pty_dynamic = e.pty
               ELSE services[e.sid].pty_static = e.pty
      <2>1. e.sid \in Sids /\ e.sd \in BOOLEAN BY <1>1, <1>9 DEF Figs
      <2>2. e.sd = TRUE => e.pty \in PtySaid(got, e.sid, TRUE) BY <1>9 DEF PtySaid
      <2>3. e.sd = FALSE => e.pty \in PtySaid(got, e.sid, FALSE) BY <1>9 DEF PtySaid
      <2>4. /\ Is(services[e.sid].pty_static, PtySaid(got, e.sid, FALSE), None)
            /\ Is(services[e.sid].pty_dynamic, PtySaid(got, e.sid, TRUE), None)
          BY <1>2, <2>1, Zenon DEF ServiceIs
      <2>5. e.sd = TRUE => services[e.sid].pty_dynamic = e.pty BY <2>2, <2>4, Zenon
      <2>6. e.sd = FALSE => services[e.sid].pty_static = e.pty BY <2>3, <2>4, Zenon
      <2> QED BY <2>1, <2>5, <2>6
  <1>10. ASSUME e.fig = "0/18"
         PROVE  services[e.sid].asu_flags = e.asu_flags /\ services[e.sid].cids = e.cids
      <2>1. e.sid \in Sids BY <1>1, <1>10 DEF Figs
      <2>2. e.asu_flags \in AsuSaid(got, e.sid) /\ e.cids \in CidsSaid(got, e.sid)
          BY <1>10 DEF AsuSaid, CidsSaid
      <2> QED BY <1>2, <2>1, <2>2 DEF ServiceIs
  <1>11. ASSUME e.fig = "0/19" PROVE ensemble.asw_clusters[e.cid] = e.asw
      <2>1. e.cid \in Cids BY <1>1, <1>11 DEF Figs
      <2>2. e.asw \in AswSaid(got, e.cid) BY <1>11 DEF AswSaid
      <2> QED BY <1>2, <2>1, <2>2 DEF EnsembleIs
  <1>12. ASSUME e.fig = "1/0" PROVE ensemble.eid = e.eid /\ ensemble.label = e.label
      <2>1. e.eid \in EidSaid(got) /\ e.label \in EnsembleLabelSaid(got)
          BY <1>12 DEF EidSaid, EnsembleLabelSaid
      <2> QED BY <1>2, <2>1 DEF EnsembleIs
  <1>13. ASSUME e.fig = "1/1" PROVE services[e.sid].label = e.label
      <2>1. e.sid \in Sids BY <1>1, <1>13 DEF Figs
      <2>2. e.label \in LabelSaid(got, e.sid) BY <1>13 DEF LabelSaid
      <2> QED BY <1>2, <2>1, <2>2 DEF ServiceIs
  <1>14. ASSUME e.fig = "1/4" PROVE services[e.sid].comp_labels[e.scids] = e.label
      <2>1. e.sid \in Sids /\ e.scids \in Scids BY <1>1, <1>14 DEF Figs
      <2>2. e.label \in CompLabelSaid(got, e.sid, e.scids) BY <1>14 DEF CompLabelSaid
      <2> QED BY <1>2, <2>1, <2>2 DEF ServiceIs
  <1> HIDE DEF Is, Entries
  <1> QED BY <1>1, <1>3, <1>4, <1>5, <1>6, <1>7, <1>8, <1>9, <1>10, <1>11, <1>12, <1>13, <1>14

\* A component that was announced as no primary one is not the primary one.
LEMMA SecondaryIs ==
    ASSUME KnowledgeInv, NEW e \in got, e.fig = "0/2", ~e.ps
    PROVE  services[e.sid].pri_comp_subchid # e.subchid
  <1>1. e \in Figs /\ e \in Broadcast /\ got \subseteq Broadcast
      BY ConsistentAssumption DEF KnowledgeInv
  <1>2. e.sid \in Sids /\ e.subchid \in Subchids BY <1>1 DEF Figs
  <1>3. Is(services[e.sid].pri_comp_subchid, PrimarySaid(got, e.sid), None)
      BY <1>2 DEF KnowledgeInv, DatabaseIs, ServiceIs
  <1>4. SUFFICES ASSUME services[e.sid].pri_comp_subchid = e.subchid PROVE FALSE
      OBVIOUS
  <1>5. PrimarySaid(got, e.sid) # {} BY <1>2, <1>3, <1>4, NoneAssumption DEF Is
  <1>6. PICK f \in got : f.fig = "0/2" /\ f.sid = e.sid /\ f.ps
      BY <1>5 DEF PrimarySaid, Entries
  <1>7. f.subchid = e.subchid BY <1>3, <1>4, <1>6 DEF Is, PrimarySaid, Entries
  <1>8. SameItem(e, f) BY <1>6, <1>7 DEF SameItem
  <1>9. e = f BY <1>1, <1>6, <1>8, ConsistentAssumption
  <1> QED BY <1>6, <1>9

\* Repeated, it changes nothing, so that nothing is forwarded.
LEMMA RepeatStep ==
    ASSUME KnowledgeInv, NEW e \in got, ProcessFIG(e)
    PROVE  updated' = {} /\ ~ensembleUpdated'
  <1>1. e \in Figs BY HeldIs
  <1> DEFINE r == services[e.sid]
             sc == subchannels[e.subchid]
  <1>2. \A t : SetService(e.sid, t, FALSE) => updated' = {} /\ ~ensembleUpdated'
      BY DEF SetService, UpdateServices
  <1>3. SetSubchannel(e.subchid, sc) => updated' = {} /\ ~ensembleUpdated'
      BY DEF SetSubchannel, UpdateServices
  <1>4. \A affected : SetEnsemble(ensemble, affected) => updated' = {} /\ ~ensembleUpdated'
      BY DEF SetEnsemble, UpdateServices, UpdateEnsemble
  <1>5. CASE ProcessFIG0_1(e)
      <2>1. e.fig = "0/1" BY <1>5 DEF ProcessFIG0_1
      <2>2. sc \in Subchannel /\ e.org = sc.org
          BY <1>1, <2>1, HeldIs DEF KnowledgeInv, FicTypeOK, Figs
      <2>3. [sc EXCEPT !.org = e.org] = sc BY <2>2 DEF Subchannel
      <2> QED BY <1>3, <1>5, <2>3 DEF ProcessFIG0_1
  <1>6. CASE ProcessFIG0_5(e)
      <2>1. e.fig = "0/5" BY <1>6 DEF ProcessFIG0_5
      <2>2. sc \in Subchannel /\ e.language = sc.language
          BY <1>1, <2>1, HeldIs DEF KnowledgeInv, FicTypeOK, Figs
      <2>3. [sc EXCEPT !.language = e.language] = sc BY <2>2 DEF Subchannel
      <2> QED BY <1>3, <1>6, <2>3 DEF ProcessFIG0_5
  <1>7. CASE ProcessFIG0_9(e)
      <2>1. e.fig = "0/9" BY <1>7 DEF ProcessFIG0_9
      <2>2. ensemble \in Ensemble /\ e.region = ensemble.region
          BY <2>1, HeldIs DEF KnowledgeInv, FicTypeOK
      <2>3. [ensemble EXCEPT !.region = e.region] = ensemble BY <2>2 DEF Ensemble
      <2> QED BY <1>4, <1>7, <2>3 DEF ProcessFIG0_9
  <1>8. CASE ProcessFIG0_19(e)
      <2>1. e.fig = "0/19" BY <1>8 DEF ProcessFIG0_19
      <2>2. ensemble \in Ensemble /\ e.asw = ensemble.asw_clusters[e.cid]
          BY <2>1, HeldIs DEF KnowledgeInv, FicTypeOK
      <2>3. [ensemble EXCEPT !.asw_clusters[e.cid] = e.asw] = ensemble BY <2>2 DEF Ensemble
      <2> QED BY <1>4, <1>8, <2>3 DEF ProcessFIG0_19
  <1>9. CASE ProcessFIG1_0(e)
      <2>1. e.fig = "1/0" BY <1>9 DEF ProcessFIG1_0
      <2>2. ensemble \in Ensemble /\ e.eid = ensemble.eid /\ e.label = ensemble.label
          BY <2>1, HeldIs DEF KnowledgeInv, FicTypeOK
      <2>3. [ensemble EXCEPT !.eid = e.eid, !.label = e.label] = ensemble BY <2>2 DEF Ensemble
      <2> QED BY <1>4, <1>9, <2>3 DEF ProcessFIG1_0
  <1>10. CASE ProcessFIG0_10(e) \/ Ignore(e)
      BY <1>10 DEF ProcessFIG0_10, Ignore
  <1>11. CASE ProcessFIG0_2(e)
      <2>1. e.fig = "0/2" /\ e.ps \in BOOLEAN BY <1>1, <1>11 DEF ProcessFIG0_2, Figs
      <2>2. r.audio_comps[e.subchid] = e.audio /\ (e.ps => r.pri_comp_subchid = e.subchid)
          BY <2>1, HeldIs
      <2>3. ~e.ps => r.pri_comp_subchid # e.subchid BY <2>1, SecondaryIs
      <2>4. (r.audio_comps[e.subchid] # e.audio \/ e.ps # (r.pri_comp_subchid = e.subchid)) = FALSE
          BY <2>1, <2>2, <2>3
      <2> QED BY <1>2, <1>11, <2>4 DEF ProcessFIG0_2
  <1>12. CASE ProcessFIG0_8(e)
      <2>1. r.comp_defs[e.scids] = e.subchid BY <1>12, HeldIs DEF ProcessFIG0_8
      <2>2. (r.comp_defs[e.scids] # e.subchid) = FALSE BY <2>1
      <2> QED BY <1>2, <1>12, <2>2 DEF ProcessFIG0_8
  <1>13. CASE ProcessFIG0_13(e)
      <2>1. e.fig = "0/13" /\ e.ua \in UaData BY <1>1, <1>13 DEF ProcessFIG0_13, Figs
      <2>2. r.comp_sls_uas[e.scids] = e.ua BY <2>1, HeldIs
      <2>3. (r.comp_sls_uas[e.scids] = None) = FALSE BY <2>1, <2>2, NoneAssumption
      <2> QED BY <1>2, <1>13, <2>3 DEF ProcessFIG0_13
  <1>14. CASE ProcessFIG0_17(e)
      <2>1. e.fig = "0/17" /\ e.sd \in BOOLEAN BY <1>1, <1>14 DEF ProcessFIG0_17, Figs
      <2>2. IF e.sd THEN r.pty_dynamic = e.pty ELSE r.pty_static = e.pty BY <2>1, HeldIs
      <2>3. /\ e.sd => (r.pty_dynamic # e.pty) = FALSE
            /\ ~e.sd => (r.pty_static # e.pty) = FALSE
          BY <2>2
      <2> QED BY <1>2, <1>14, <2>1, <2>3 DEF ProcessFIG0_17
  <1>15. CASE ProcessFIG0_18(e)
      <2>1. r.asu_flags = e.asu_flags /\ r.cids = e.cids BY <1>15, HeldIs DEF ProcessFIG0_18
      <2>2. (r.asu_flags # e.asu_flags \/ r.cids # e.cids) = FALSE BY <2>1
      <2> QED BY <1>2, <1>15, <2>2 DEF ProcessFIG0_18
  <1>16. CASE ProcessFIG1_1(e)
      <2>1. r.label = e.label BY <1>16, HeldIs DEF ProcessFIG1_1
      <2>2. (r.label # e.label) = FALSE BY <2>1
      <2> QED BY <1>2, <1>16, <2>2 DEF ProcessFIG1_1
  <1>17. CASE ProcessFIG1_4(e)
      <2>1. r.comp_labels[e.scids] = e.label BY <1>17, HeldIs DEF ProcessFIG1_4
      <2>2. (r.comp_labels[e.scids] # e.label) = FALSE BY <2>1
      <2> QED BY <1>2, <1>17, <2>2 DEF ProcessFIG1_4
  <1> QED BY <1>5, <1>6, <1>7, <1>8, <1>9, <1>10, <1>11, <1>12, <1>13, <1>14, <1>15, <1>16,
             <1>17 DEF ProcessFIG

\* A repeated entry, of any kind, is never forwarded.
THEOREM RepeatsAreSilent == KnowledgeSpec => RepeatIsSilent
  <1>1. KnowledgeInv /\ [KnowledgeNext]_knowledgeVars
            => [got' = got => updated' = {} /\ ~ensembleUpdated']_knowledgeVars
      <2> SUFFICES ASSUME KnowledgeInv, KnowledgeNext, got' = got
                   PROVE  updated' = {} /\ ~ensembleUpdated'
          OBVIOUS
      <2>1. ASSUME NEW e \in Broadcast, Hear(e) PROVE updated' = {} /\ ~ensembleUpdated'
          <3>1. ProcessFIG(e) /\ e \in got BY <2>1 DEF Hear
          <3> QED BY <3>1, RepeatStep
      <2>2. CASE Forget BY <2>2 DEF Forget, Reset
      <2> QED BY <2>1, <2>2 DEF KnowledgeNext
  <1> QED BY <1>1, KnowledgeHolds, PTL DEF KnowledgeSpec, RepeatIsSilent

=============================================================================
