---------------------------- MODULE FicKnowledge ----------------------------
(***************************************************************************)
(* What a FIC decoder is for, when the multiplex contradicts itself in no  *)
(* entry: its database is a function of the SET of entries received since  *)
(* the last reset, whatever their order and however often each of them was *)
(* repeated.  FicDecoder, with a history variable for that set, is checked *)
(* against this definition.                                                *)
(***************************************************************************)
EXTENDS FicDecoder

CONSTANT Broadcast \* the entries the multiplex sends, in any order, for ever

VARIABLE got       \* the entries received since the last reset

knowledgeVars == <<ficVars, got>>

\* Two entries that say something of the same item.
SameItem(e, f) ==
    /\ e.fig = f.fig
    /\ CASE e.fig \in {"0/1", "0/5"} -> e.subchid = f.subchid
         [] e.fig = "0/2" -> /\ e.sid = f.sid
                             /\ e.subchid = f.subchid \/ (e.ps /\ f.ps)
         [] e.fig \in {"0/8", "0/13", "1/4"} -> e.sid = f.sid /\ e.scids = f.scids
         [] e.fig = "0/17" -> e.sid = f.sid /\ e.sd = f.sd
         [] e.fig \in {"0/18", "1/1"} -> e.sid = f.sid
         [] e.fig = "0/19" -> e.cid = f.cid
         [] e.fig \in {"0/9", "0/10", "1/0", "none"} -> TRUE

ASSUME ConsistentAssumption ==
    /\ Broadcast \subseteq Figs
    /\ \A e, f \in Broadcast : SameItem(e, f) => e = f

KnowledgeInit == FicInit /\ got = {}

Hear(e) == ProcessFIG(e) /\ got' = got \cup {e}

Forget == Reset /\ got' = {}

KnowledgeNext == (\E e \in Broadcast : Hear(e)) \/ Forget

KnowledgeSpec == KnowledgeInit /\ [][KnowledgeNext]_knowledgeVars

-----------------------------------------------------------------------------

\* The entries of one kind received, and the one value a set has, if any.
Got(fig) == {e \in got : e.fig = fig}
Of(fig, sid) == {e \in Got(fig) : e.sid = sid}
The(S, default) == IF S = {} THEN default ELSE CHOOSE x \in S : TRUE

KnownService(s) ==
    [pri_comp_subchid |-> The({e.subchid : e \in {f \in Of("0/2", s) : f.ps}}, None),
     label |-> The({e.label : e \in Of("1/1", s)}, None),
     pty_static |-> The({e.pty : e \in {f \in Of("0/17", s) : ~f.sd}}, None),
     pty_dynamic |-> The({e.pty : e \in {f \in Of("0/17", s) : f.sd}}, None),
     asu_flags |-> The({e.asu_flags : e \in Of("0/18", s)}, 0),
     cids |-> UNION {e.cids : e \in Of("0/18", s)},
     audio_comps |-> [b \in Subchids |->
         The({e.audio : e \in {f \in Of("0/2", s) : f.subchid = b}}, None)],
     comp_defs |-> [c \in Scids |->
         The({e.subchid : e \in {f \in Of("0/8", s) : f.scids = c}}, None)],
     comp_labels |-> [c \in Scids |->
         The({e.label : e \in {f \in Of("1/4", s) : f.scids = c}}, None)],
     comp_sls_uas |-> [c \in Scids |->
         The({e.ua : e \in {f \in Of("0/13", s) : f.scids = c}}, None)]]

KnownSubchannel(b) ==
    [org |-> The({e.org : e \in {f \in Got("0/1") : f.subchid = b}}, None),
     language |-> The({e.language : e \in {f \in Got("0/5") : f.subchid = b}}, None)]

KnownEnsemble ==
    [eid |-> The({e.eid : e \in Got("1/0")}, None),
     label |-> The({e.label : e \in Got("1/0")}, None),
     region |-> The({e.region : e \in Got("0/9")}, None),
     asw_clusters |-> [c \in Cids |->
         The({e.asw : e \in {f \in Got("0/19") : f.cid = c}}, None)]]

\* The handlers together keep exactly the knowledge the entries received carry:
\* no handler undoes, delays or mixes up what another one stored, in any order
\* of arrival and with any repetitions.
DatabaseIsKnowledge ==
    /\ services = [s \in Sids |-> KnownService(s)]
    /\ subchannels = [b \in Subchids |-> KnownSubchannel(b)]
    /\ ensemble = KnownEnsemble
    /\ utc_dt = The({e.date : e \in Got("0/10")}, None)

\* A repeated entry is never forwarded.  The scanner gives up a frequency only
\* after a number of reads with no service forwarded, and a multiplex repeats
\* itself all the time: this is what lets a scan go on.
RepeatIsSilent == [][got' = got => updated' = {} /\ ~ensembleUpdated']_knowledgeVars

=============================================================================
