------------------------------ MODULE Playlist ------------------------------
(***************************************************************************)
(* What a scan promises, without saying how: it visits the frequencies in  *)
(* order; while it stays on one it learns about the services there and     *)
(* forgets none it has completely learnt; when it leaves, the playlist     *)
(* gains one line for each of them, made from what is known at that        *)
(* moment, and the knowledge is dropped.                                   *)
(***************************************************************************)
EXTENDS FicDatabase

CONSTANTS \* see the assumptions of DabScanner
    NumFreqs, \* frequencies of the scan, in order: 1..NumFreqs
    Texts,    \* printable names
    Utf8      \* Labels -> Texts: a label as the playlist prints it

VARIABLES
    at,        \* the frequencies done so far
    heard,     \* what is known about the current one
    playlist   \* the lines written

playlistVars == <<at, heard, playlist>>

Blank == [services |-> NewServices, subchannels |-> NewSubchannels,
          ensemble |-> NewEnsemble]

\* The bit rate as it is printed: FIC_SUBCHANNEL starts at -1, and serviceFound
\* takes a uint16_t.
PrintedBitrate(org) == IF org = None THEN 2^16 - 1 ELSE org.bitrate % 2^16

\* One line: how dab_mpegts is to be called.  Only a DAB+ line has a bit rate.
\* m_ensemble_label is the empty string until the ensemble label is known; here
\* that is None.
Line(freq, ensembleText, ls) ==
    [freq |-> freq, ensemble |-> ensembleText, service |-> Utf8[ls.label],
     subchid |-> ls.subchid, audio |-> ls.audio,
     bitrate |-> IF ls.audio = "DAB+" THEN PrintedBitrate(ls.subchannel.org)
                 ELSE None]

Text(label) == IF label = None THEN None ELSE Utf8[label]

Lines(freq, k) ==
    {Line(freq, Text(k.ensemble.label),
          PrimaryListing(k.subchannels, s, k.services[s])) :
        s \in {t \in Sids : Complete(k.services[t])}}

Init ==
    /\ at = 0
    /\ heard = Blank
    /\ playlist = {}

Learn ==
    /\ at < NumFreqs
    /\ \A s \in Sids : Complete(heard.services[s]) => Complete(heard'.services[s])
    /\ UNCHANGED <<at, playlist>>

Publish ==
    /\ at < NumFreqs
    /\ playlist' = playlist \cup Lines(at + 1, heard)
    /\ at' = at + 1
    /\ heard' = Blank

Next == Learn \/ Publish

Spec == Init /\ [][Next]_playlistVars

=============================================================================
