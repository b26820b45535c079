---------------------------- MODULE TunerProofs ----------------------------
(***************************************************************************)
(* What holds of the tuner for all frequencies and sub-channels.  First,   *)
(* without any state, what the routines of RaonTunerInput are as sequences *)
(* of transfers: on which pages they work, which of the registers kept     *)
(* they write, what they leave in them.  Then the invariant, which speaks  *)
(* of the transfers that are left: the pages they meet (ProgramInv), the   *)
(* registers they settle (TuningInv), and, for the audio, where they clear *)
(* the memory (AudioInv).                                                  *)
(***************************************************************************)
EXTENDS Tuner, TLAPS

\* The transfers there are: a register that is kept only ever gets its own values.
OtherRegisters == {"46", "10", "48", "35", "62"}
Selections == [op : {"page"}, page : Pages]
Readings == [op : {"power", "lock", "status", "fic", "bulk"}, page : Pages]
SubChannelValues == {<<128 + s>> : s \in SubChannels}
DividerValues == {<<1>>, <<49>>}
Writings ==
    [op : {"set"}, page : {"RF"}, reg : {"pll"}, val : PllBytes \cup {Half}]
        \cup [op : {"set"}, page : {"RF"}, reg : {"adc"}, val : Clocks \cup {Half}]
        \cup [op : {"set"}, page : {"FM"}, reg : {"nco"}, val : Clocks \cup {Half}]
        \cup [op : {"set"}, page : {"COMM"}, reg : {"6A"}, val : DividerValues]
        \cup [op : {"set"}, page : {"DD"}, reg : {"3A"}, val : SubChannelValues]
        \cup [op : {"set"}, page : Pages, reg : OtherRegisters, val : Seq(Nat)]
Transfers == Selections \cup Readings \cup Writings

\* With page p selected, each access of s meets the page it is meant for, and
\* page q is selected in the end.
Runs(s, p, q) ==
    /\ s = << >> => p = q
    /\ s # << >> => /\ s[1].op = "page" \/ s[1].page = p
                    /\ s[Len(s)].page = q
    /\ \A j \in 2..Len(s) : s[j].op = "page" \/ s[j].page = s[j - 1].page

\* The accesses of a sequence s of transfers: whether t is a write to register r of
\* page p, whether s has none, no transfer o, v as the last value it writes there, and a
\* clearing of the MSC memory after which the sub-channel is not written.
Writes(t, p, r) == t.op = "set" /\ t.page = p /\ t.reg = r
NoWrite(s, p, r) == \A j \in 1..Len(s) : ~Writes(s[j], p, r)
NoOp(s, o) == \A j \in 1..Len(s) : s[j].op # o
LastWrite(s, p, r, v) ==
    \E j \in 1..Len(s) :
        /\ Writes(s[j], p, r) /\ s[j].val = v
        /\ \A m \in (j + 1)..Len(s) : ~Writes(s[m], p, r)
Clears(s) ==
    \E j \in 1..Len(s) :
        /\ Writes(s[j], "DD", "48") /\ s[j].val = << 0 >>
        /\ \A m \in (j + 1)..Len(s) : ~Writes(s[m], "DD", "3A")

\* What is known of a sequence without its first element.
LEMMA TailIs ==
    ASSUME NEW S, NEW s \in Seq(S), s # << >>
    PROVE  /\ Tail(s) \in Seq(S) /\ Len(Tail(s)) = Len(s) - 1
           /\ Len(s) \in Nat /\ Len(s) >= 1
           /\ Head(s) = s[1] /\ s[1] \in S
           /\ \A j \in 1..Len(Tail(s)) : Tail(s)[j] = s[j + 1]
  OBVIOUS

\* What is known of one sequence followed by another.
LEMMA ConcatIs ==
    ASSUME NEW S, NEW s \in Seq(S), NEW t \in Seq(S)
    PROVE  /\ s \o t \in Seq(S) /\ Len(s \o t) = Len(s) + Len(t)
           /\ Len(s) \in Nat /\ Len(t) \in Nat
           /\ \A j \in 1..Len(s) : (s \o t)[j] = s[j]
           /\ \A j \in 1..Len(t) : (s \o t)[Len(s) + j] = t[j]
           /\ \A j \in (Len(s) + 1)..Len(s \o t) :
                  j - Len(s) \in 1..Len(t) /\ (s \o t)[j] = t[j - Len(s)]
  OBVIOUS

\* Once the first transfer is done, the others still meet their pages: with
\* the page it has selected, if it is a switchPage, and with the same page
\* if not.
LEMMA TailRuns ==
    ASSUME NEW s \in Seq(Transfers), s # << >>, NEW p, NEW q, Runs(s, p, q)
    PROVE  Runs(Tail(s), IF s[1].op = "page" THEN s[1].page ELSE p, q)
  <1> DEFINE u == IF s[1].op = "page" THEN s[1].page ELSE p
             t == Tail(s)
  <1>1. /\ t \in Seq(Transfers) /\ Len(t) = Len(s) - 1
        /\ Len(s) \in Nat /\ Len(s) >= 1
        /\ \A j \in 1..Len(t) : t[j] = s[j + 1]
      BY TailIs
  <1>2. u = s[1].page BY DEF Runs
  <1> HIDE DEF u, t
  <1>3. CASE Len(s) = 1
      <2>1. t = << >> BY <1>1, <1>3
      <2>2. Runs(t, u, q) BY <1>2, <1>3, <2>1 DEF Runs
      <2> QED BY <2>2 DEF u, t
  <1>4. CASE Len(s) > 1
      <2>1. t # << >> /\ t[1] = s[2] /\ t[Len(t)] = s[Len(s)] BY <1>1, <1>4
      <2>2. s[2].op = "page" \/ s[2].page = s[1].page BY <1>1, <1>4 DEF Runs
      <2>3. ASSUME NEW j \in 2..Len(t)
            PROVE  t[j].op = "page" \/ t[j].page = t[j - 1].page
          <3>1. t[j] = s[j + 1] /\ t[j - 1] = s[j] /\ j + 1 \in 2..Len(s) BY <1>1
          <3>2. j + 1 - 1 = j OBVIOUS
          <3> QED BY <3>1, <3>2 DEF Runs
      <2>4. s[Len(s)].page = q BY DEF Runs
      <2>5. Runs(t, u, q) BY <1>2, <2>1, <2>2, <2>3, <2>4 DEF Runs
      <2> QED BY <2>5 DEF u, t
  <1> QED BY <1>1, <1>3, <1>4

\* A routine that starts on the page another one leaves selected may follow
\* it.
LEMMA ConcatRuns ==
    ASSUME NEW s \in Seq(Transfers), NEW t \in Seq(Transfers), NEW p, NEW q, NEW r,
           Runs(s, p, q), Runs(t, q, r)
    PROVE  Runs(s \o t, p, r)
  <1> DEFINE u == s \o t
  <1>1. /\ u \in Seq(Transfers) /\ Len(u) = Len(s) + Len(t)
        /\ Len(s) \in Nat /\ Len(t) \in Nat
        /\ \A j \in 1..Len(s) : u[j] = s[j]
        /\ \A j \in (Len(s) + 1)..Len(u) : j - Len(s) \in 1..Len(t) /\ u[j] = t[j - Len(s)]
      BY ConcatIs
  <1>2. CASE t = << >>
      <2>1. u = s BY <1>2
      <2> QED BY <1>2, <2>1 DEF Runs
  <1>3. CASE s = << >>
      <2>1. u = t BY <1>3
      <2> QED BY <1>3, <2>1 DEF Runs
  <1>4. CASE s # << >> /\ t # << >>
      <2> HIDE DEF u
      <2>1. Len(s) >= 1 /\ Len(t) >= 1 BY <1>4
      <2>2. u # << >> /\ u[1] = s[1] /\ u[Len(u)] = t[Len(t)] BY <1>1, <2>1
      <2>3. ASSUME NEW j \in 2..Len(u)
            PROVE  u[j].op = "page" \/ u[j].page = u[j - 1].page
          <3>1. CASE j <= Len(s)
              <4>1. u[j] = s[j] /\ u[j - 1] = s[j - 1] /\ j \in 2..Len(s) BY <1>1, <3>1
              <4> QED BY <4>1 DEF Runs
          <3>2. CASE j = Len(s) + 1
              <4>1. u[j] = t[1] /\ u[j - 1] = s[Len(s)] BY <1>1, <2>1, <3>2
              <4> QED BY <1>4, <4>1 DEF Runs
          <3>3. CASE j > Len(s) + 1
              <4>1. /\ u[j] = t[j - Len(s)] /\ u[j - 1] = t[j - Len(s) - 1]
                    /\ j - Len(s) \in 2..Len(t)
                  BY <1>1, <3>3
              <4> QED BY <4>1 DEF Runs
          <3> QED BY <1>1, <3>1, <3>2, <3>3
      <2> QED BY <1>4, <2>2, <2>3 DEF Runs
  <1> QED BY <1>2, <1>3, <1>4

\* What is known of the writes and reads of a program holds of what is left
\* of it after its first transfer, but for what this transfer itself has
\* done.
LEMMA TailKeeps ==
    ASSUME NEW s \in Seq(Transfers), s # << >>
    PROVE  /\ \A p, r : NoWrite(s, p, r) => NoWrite(Tail(s), p, r)
           /\ \A o : NoOp(s, o) => NoOp(Tail(s), o)
           /\ \A p, r, v : LastWrite(s, p, r, v)
                  => \/ LastWrite(Tail(s), p, r, v)
                     \/ /\ Writes(s[1], p, r) /\ s[1].val = v
                        /\ NoWrite(Tail(s), p, r)
           /\ Clears(s) => \/ Clears(Tail(s))
                           \/ /\ Writes(s[1], "DD", "48") /\ s[1].val = << 0 >>
                              /\ NoWrite(Tail(s), "DD", "3A")
  <1> DEFINE t == Tail(s)
  <1>1. /\ t \in Seq(Transfers) /\ Len(t) = Len(s) - 1
        /\ Len(s) \in Nat /\ Len(s) >= 1
        /\ \A j \in 1..Len(t) : t[j] = s[j + 1]
      BY TailIs
  <1> HIDE DEF t
  <1>2. \A j \in 1..Len(t) : j + 1 \in 1..Len(s) BY <1>1
  <1>3. \A p, r : NoWrite(s, p, r) => NoWrite(t, p, r) BY <1>1, <1>2 DEF NoWrite
  <1>4. \A o : NoOp(s, o) => NoOp(t, o) BY <1>1, <1>2 DEF NoOp
  <1>5. ASSUME NEW p, NEW r, NEW v, LastWrite(s, p, r, v)
        PROVE  \/ LastWrite(t, p, r, v)
               \/ Writes(s[1], p, r) /\ s[1].val = v /\ NoWrite(t, p, r)
      <2>1. PICK j \in 1..Len(s) :
                /\ Writes(s[j], p, r) /\ s[j].val = v
                /\ \A m \in (j + 1)..Len(s) : ~Writes(s[m], p, r)
          BY <1>5 DEF LastWrite
      <2>2. CASE j = 1
          <3>1. NoWrite(t, p, r)
              <4>1. ASSUME NEW m \in 1..Len(t) PROVE ~Writes(t[m], p, r)
                  <5>1. t[m] = s[m + 1] /\ m + 1 \in (j + 1)..Len(s) BY <1>1, <2>2
                  <5> QED BY <2>1, <5>1
              <4> QED BY <4>1 DEF NoWrite
          <3> QED BY <2>1, <2>2, <3>1
      <2>3. CASE j # 1
          <3>1. j - 1 \in 1..Len(t) /\ t[j - 1] = s[j] BY <1>1, <2>3
          <3>2. ASSUME NEW m \in ((j - 1) + 1)..Len(t) PROVE ~Writes(t[m], p, r)
              <4>1. t[m] = s[m + 1] /\ m + 1 \in (j + 1)..Len(s) BY <1>1, <2>3
              <4> QED BY <2>1, <4>1
          <3> QED BY <2>1, <3>1, <3>2 DEF LastWrite
      <2> QED BY <2>2, <2>3
  <1>6. ASSUME Clears(s)
        PROVE  \/ Clears(t)
               \/ /\ Writes(s[1], "DD", "48") /\ s[1].val = << 0 >>
                  /\ NoWrite(t, "DD", "3A")
      <2>1. PICK j \in 1..Len(s) :
                /\ Writes(s[j], "DD", "48") /\ s[j].val = << 0 >>
                /\ \A m \in (j + 1)..Len(s) : ~Writes(s[m], "DD", "3A")
          BY <1>6 DEF Clears
      <2>2. CASE j = 1
          <3>1. NoWrite(t, "DD", "3A")
              <4>1. ASSUME NEW m \in 1..Len(t) PROVE ~Writes(t[m], "DD", "3A")
                  <5>1. t[m] = s[m + 1] /\ m + 1 \in (j + 1)..Len(s) BY <1>1, <2>2
                  <5> QED BY <2>1, <5>1
              <4> QED BY <4>1 DEF NoWrite
          <3> QED BY <2>1, <2>2, <3>1
      <2>3. CASE j # 1
          <3>1. j - 1 \in 1..Len(t) /\ t[j - 1] = s[j] BY <1>1, <2>3
          <3>2. ASSUME NEW m \in ((j - 1) + 1)..Len(t) PROVE ~Writes(t[m], "DD", "3A")
              <4>1. t[m] = s[m + 1] /\ m + 1 \in (j + 1)..Len(s) BY <1>1, <2>3
              <4> QED BY <2>1, <4>1
          <3> QED BY <2>1, <3>1, <3>2 DEF Clears
      <2> QED BY <2>2, <2>3
  <1> QED BY <1>3, <1>4, <1>5, <1>6 DEF t

\* What two routines do not write or read, both together do not; the last
\* write of the second one, or of the first one if the second does not
\* write, counts.
LEMMA ConcatKeeps ==
    ASSUME NEW s \in Seq(Transfers), NEW t \in Seq(Transfers)
    PROVE  /\ \A p, r : NoWrite(s, p, r) /\ NoWrite(t, p, r) => NoWrite(s \o t, p, r)
           /\ \A o : NoOp(s, o) /\ NoOp(t, o) => NoOp(s \o t, o)
           /\ \A p, r, v : LastWrite(s, p, r, v) /\ NoWrite(t, p, r) => LastWrite(s \o t, p, r, v)
           /\ \A p, r, v : LastWrite(t, p, r, v) => LastWrite(s \o t, p, r, v)
           /\ Clears(s) /\ NoWrite(t, "DD", "3A") => Clears(s \o t)
           /\ Clears(t) => Clears(s \o t)
  <1> DEFINE u == s \o t
  <1>1. /\ u \in Seq(Transfers) /\ Len(u) = Len(s) + Len(t)
        /\ Len(s) \in Nat /\ Len(t) \in Nat
        /\ \A j \in 1..Len(s) : u[j] = s[j]
        /\ \A j \in 1..Len(t) : u[Len(s) + j] = t[j]
        /\ \A j \in (Len(s) + 1)..Len(u) : j - Len(s) \in 1..Len(t) /\ u[j] = t[j - Len(s)]
      BY ConcatIs
  <1> HIDE DEF u
  <1>2. \A j \in 1..Len(u) : j \in 1..Len(s) \/ j \in (Len(s) + 1)..Len(u) BY <1>1
  <1>3. \A p, r : NoWrite(s, p, r) /\ NoWrite(t, p, r) => NoWrite(u, p, r)
      BY <1>1, <1>2 DEF NoWrite
  <1>4. \A o : NoOp(s, o) /\ NoOp(t, o) => NoOp(u, o) BY <1>1, <1>2 DEF NoOp
  <1>5. ASSUME NEW j \in 1..Len(s), NEW p, NEW r, NoWrite(t, p, r),
               \A m \in (j + 1)..Len(s) : ~Writes(s[m], p, r)
        PROVE  j \in 1..Len(u) /\ u[j] = s[j] /\ \A m \in (j + 1)..Len(u) : ~Writes(u[m], p, r)
      <2>1. ASSUME NEW m \in (j + 1)..Len(u) PROVE ~Writes(u[m], p, r)
          <3>1. CASE m <= Len(s) BY <1>1, <1>5, <3>1
          <3>2. CASE m > Len(s)
              <4>1. m \in (Len(s) + 1)..Len(u) BY <1>1, <3>2
              <4> QED BY <1>1, <1>5, <4>1 DEF NoWrite
          <3> QED BY <1>1, <3>1, <3>2
      <2> QED BY <1>1, <2>1
  <1>6. ASSUME NEW j \in 1..Len(t), NEW p, NEW r,
               \A m \in (j + 1)..Len(t) : ~Writes(t[m], p, r)
        PROVE  /\ Len(s) + j \in 1..Len(u) /\ u[Len(s) + j] = t[j]
               /\ \A m \in (Len(s) + j + 1)..Len(u) : ~Writes(u[m], p, r)
      <2>1. ASSUME NEW m \in (Len(s) + j + 1)..Len(u) PROVE ~Writes(u[m], p, r)
          <3>1. u[m] = t[m - Len(s)] /\ m - Len(s) \in (j + 1)..Len(t) BY <1>1
          <3> QED BY <1>6, <3>1
      <2> QED BY <1>1, <2>1
  <1>7. ASSUME NEW p, NEW r, NEW v, LastWrite(s, p, r, v), NoWrite(t, p, r)
        PROVE  LastWrite(u, p, r, v)
      BY <1>5, <1>7 DEF LastWrite
  <1>8. ASSUME NEW p, NEW r, NEW v, LastWrite(t, p, r, v) PROVE LastWrite(u, p, r, v)
      BY <1>6, <1>8 DEF LastWrite
  <1>9. ASSUME Clears(s), NoWrite(t, "DD", "3A") PROVE Clears(u)
      BY <1>5, <1>9 DEF Clears
  <1>10. ASSUME Clears(t) PROVE Clears(u)
      BY <1>6, <1>10 DEF Clears
  <1> QED BY <1>3, <1>4, <1>7, <1>8, <1>9, <1>10 DEF u

\* The polls and reads each call has of its own.
Ops == {"power", "lock", "status", "bulk"}

\* The transfers that write, of the registers kept, those of R only, and read of Ops
\* only what O names.
Only(R, O) ==
    {t \in Transfers : /\ t.op = "set" => <<t.page, t.reg>> \notin Registers \ R
                       /\ t.op \notin Ops \ O}

\* From whatever page, s meets its pages and leaves page q selected.
Routine(s, q, R, O) == s \in Seq(Only(R, O)) /\ \A p : Runs(s, p, q)

\* A switchPage is a transfer, selects its page, and writes and reads
\* nothing.
LEMMA PageIs == \A p \in Pages : \A R, O :
    switchPage(p) \in Only(R, O) /\ switchPage(p).op = "page" /\ switchPage(p).page = p
  BY DEF switchPage, Only, Transfers, Selections, Ops

\* A read is a transfer, and none of those left out if it is one of O.
LEMMA ReadIs == \A o \in {"power", "lock", "status", "fic", "bulk"}, p \in Pages : \A R, O :
    /\ o \notin Ops \ O => Read(o, p) \in Only(R, O)
    /\ Read(o, p).op = o /\ Read(o, p).page = p
  BY DEF Read, Only, Transfers, Readings

\* What setRegister is called with is what the transfer carries.
LEMMA SetIs == \A p, r, v :
    /\ setRegister(p, r, v).op = "set" /\ setRegister(p, r, v).page = p
    /\ setRegister(p, r, v).reg = r /\ setRegister(p, r, v).val = v
  BY DEF setRegister

\* A write to a register that is not kept writes none of those kept.
LEMMA OtherIs == \A p \in Pages, r \in OtherRegisters, v \in Seq(Nat) : \A R, O :
    setRegister(p, r, v) \in Only(R, O)
  <1> SUFFICES ASSUME NEW p \in Pages, NEW r \in OtherRegisters, NEW v \in Seq(Nat), NEW R, NEW O
               PROVE  setRegister(p, r, v) \in Only(R, O)
      BY Zenon
  <1>1. setRegister(p, r, v) \in Transfers BY DEF setRegister, Transfers, Writings
  <1>2. <<p, r>> \notin Registers BY DEF Registers, OtherRegisters
  <1> QED BY <1>1, <1>2, SetIs DEF Only, Ops

\* A write to a register that is kept writes this one only.
LEMMA KeptIs == \A O :
    /\ \A v \in PllBytes \cup {Half} : setRegister("RF", "pll", v) \in Only({<<"RF", "pll">>}, O)
    /\ \A v \in Clocks \cup {Half} : setRegister("RF", "adc", v) \in Only({<<"RF", "adc">>}, O)
    /\ \A v \in Clocks \cup {Half} : setRegister("FM", "nco", v) \in Only({<<"FM", "nco">>}, O)
    /\ \A v \in DividerValues : setRegister("COMM", "6A", v) \in Only({<<"COMM", "6A">>}, O)
    /\ \A v \in SubChannelValues : setRegister("DD", "3A", v) \in Only({<<"DD", "3A">>}, O)
  <1>1. \A v \in PllBytes \cup {Half} : setRegister("RF", "pll", v) \in Transfers
      BY DEF setRegister, Transfers, Writings
  <1>2. \A v \in Clocks \cup {Half} : setRegister("RF", "adc", v) \in Transfers
      BY DEF setRegister, Transfers, Writings
  <1>3. \A v \in Clocks \cup {Half} : setRegister("FM", "nco", v) \in Transfers
      BY DEF setRegister, Transfers, Writings
  <1>4. \A v \in DividerValues : setRegister("COMM", "6A", v) \in Transfers
      BY DEF setRegister, Transfers, Writings
  <1>5. \A v \in SubChannelValues : setRegister("DD", "3A", v) \in Transfers
      BY DEF setRegister, Transfers, Writings
  <1> QED BY <1>1, <1>2, <1>3, <1>4, <1>5, SetIs DEF Only, Ops

\* What is allowed to write and read little is allowed to write and read
\* more.
LEMMA MoreIs ==
    \A R, Q, O, P :
        R \subseteq Q /\ O \subseteq P => \A s \in Seq(Only(R, O)) : s \in Seq(Only(Q, P))
  <1> SUFFICES ASSUME NEW R, NEW Q, NEW O, NEW P, R \subseteq Q, O \subseteq P,
                      NEW s \in Seq(Only(R, O))
               PROVE  s \in Seq(Only(Q, P))
      BY Zenon
  <1>1. \A t \in Only(R, O) : t \in Only(Q, P) BY DEF Only
  <1> QED BY <1>1

\* A sequence of transfers that writes R and reads O only writes no other
\* register that is kept and reads nothing else.
LEMMA OnlyKeeps ==
    ASSUME NEW R, NEW O, NEW s \in Seq(Only(R, O))
    PROVE  /\ s \in Seq(Transfers)
           /\ \A p, r : <<p, r>> \in Registers \ R => NoWrite(s, p, r)
           /\ \A o \in Ops \ O : NoOp(s, o)
  <1>1. \A t \in Only(R, O) : t \in Transfers BY DEF Only
  <1>2. s \in Seq(Transfers) BY <1>1
  <1>3. \A j \in 1..Len(s) : s[j] \in Only(R, O) OBVIOUS
  <1>4. \A p, r : <<p, r>> \in Registers \ R => NoWrite(s, p, r)
      BY <1>3 DEF NoWrite, Writes, Only
  <1>5. \A o \in Ops \ O : NoOp(s, o) BY <1>3 DEF NoOp, Only
  <1> QED BY <1>2, <1>4, <1>5

\* A routine may be followed by transfers that start on the page it leaves.
LEMMA RoutineThen ==
    ASSUME NEW s, NEW p, NEW t, NEW q, NEW R, NEW O, Routine(s, p, R, O),
           t \in Seq(Only(R, O)), Runs(t, p, q)
    PROVE  Routine(s \o t, q, R, O)
  <1>1. s \in Seq(Only(R, O)) /\ s \in Seq(Transfers) /\ t \in Seq(Transfers)
      BY OnlyKeeps DEF Routine
  <1>2. s \o t \in Seq(Only(R, O)) BY <1>1
  <1>3. \A x : Runs(s \o t, x, q) BY <1>1, ConcatRuns DEF Routine
  <1> QED BY <1>2, <1>3 DEF Routine

\* SetAll, on its page, leaves the value in the registers it writes one by
\* one.
LEMMA SetAllIs ==
    ASSUME NEW p, NEW r, NEW v, NEW R, NEW O,
           setRegister(p, r, v) \in Only(R, O), setRegister(p, r, Half) \in Only(R, O)
    PROVE  /\ SetAll(p, r, v) \in Seq(Only(R, O)) /\ Runs(SetAll(p, r, v), p, p)
           /\ LastWrite(SetAll(p, r, v), p, r, v)
  <1> DEFINE a == setRegister(p, r, Half)
             b == setRegister(p, r, v)
  <1>1. a \in Only(R, O) /\ b \in Only(R, O) /\ a.page = p /\ b.page = p
        /\ b.op = "set" /\ b.reg = r /\ b.val = v
      BY SetIs
  <1>2. SetAll(p, r, v) = <<a, b>> BY DEF SetAll
  <1> HIDE DEF a, b
  <1>3. <<a, b>> \in Seq(Only(R, O)) BY <1>1
  <1>4. Runs(<<a, b>>, p, p) BY <1>1 DEF Runs
  <1>5. LastWrite(<<a, b>>, p, r, v)
      <2>1. 2 \in 1..Len(<<a, b>>) /\ <<a, b>>[2] = b OBVIOUS
      <2>2. \A m \in (2 + 1)..Len(<<a, b>>) : ~Writes(<<a, b>>[m], p, r) OBVIOUS
      <2> QED BY <1>1, <2>1, <2>2 DEF LastWrite, Writes
  <1> QED BY <1>2, <1>3, <1>4, <1>5

\* switchPage alone is a routine.
LEMMA OnePage ==
    ASSUME NEW p \in Pages, NEW R, NEW O
    PROVE  Routine(<<switchPage(p)>>, p, R, O)
  <1>1. switchPage(p) \in Only(R, O) /\ switchPage(p).op = "page" /\ switchPage(p).page = p
      BY PageIs
  <1>2. <<switchPage(p)>> \in Seq(Only(R, O)) BY <1>1
  <1> QED BY <1>1, <1>2 DEF Routine, Runs

\* switchPage and two accesses of its page meet their page from any page.
LEMMA ThreeIs ==
    ASSUME NEW S, NEW a \in S, NEW b \in S, NEW c \in S, NEW p,
           a.op = "page", a.page = p, b.page = p, c.page = p
    PROVE  <<a, b, c>> \in Seq(S) /\ \A x : Runs(<<a, b, c>>, x, p)
  BY DEF Runs

\* So do two times switchPage and an access, or two.
LEMMA FourIs ==
    ASSUME NEW S, NEW a \in S, NEW b \in S, NEW c \in S, NEW d \in S, NEW p,
           a.op = "page", a.page = b.page, c.op = "page", c.page = p, d.page = p
    PROVE  <<a, b, c, d>> \in Seq(S) /\ \A x : Runs(<<a, b, c, d>>, x, p)
  BY DEF Runs

\* The values of the registers that are not kept.
LEMMA Bytes ==
    /\ << 0 >> \in Seq(Nat) /\ <<1>> \in Seq(Nat) /\ <<4>> \in Seq(Nat) /\ <<5>> \in Seq(Nat)
    /\ <<20>> \in Seq(Nat) /\ <<22>> \in Seq(Nat) /\ <<72>> \in Seq(Nat)
    /\ <<112>> \in Seq(Nat) /\ <<201>> \in Seq(Nat)
  OBVIOUS

\* A routine that writes and reads little is one that may write and read
\* more.
LEMMA RoutineMore ==
    ASSUME NEW s, NEW q, NEW R, NEW O, Routine(s, q, R, O),
           NEW Q, NEW P, R \subseteq Q, O \subseteq P
    PROVE  Routine(s, q, Q, P)
  BY MoreIs DEF Routine

\* Two routines, one after the other, are a routine: each selects its page
\* first.
LEMMA RoutineTwo ==
    ASSUME NEW s, NEW p, NEW t, NEW q, NEW R, NEW O, Routine(s, p, R, O), Routine(t, q, R, O)
    PROVE  Routine(s \o t, q, R, O)
  BY RoutineThen DEF Routine

\* switchPage and SetAll are a routine that leaves the value it is called
\* with.
LEMMA PageSetAll ==
    ASSUME NEW p \in Pages, NEW r, NEW v, NEW R, NEW O,
           setRegister(p, r, v) \in Only(R, O), setRegister(p, r, Half) \in Only(R, O)
    PROVE  /\ Routine(<<switchPage(p)>> \o SetAll(p, r, v), p, R, O)
           /\ LastWrite(<<switchPage(p)>> \o SetAll(p, r, v), p, r, v)
  <1>1. Routine(<<switchPage(p)>>, p, R, O) BY OnePage
  <1>2. /\ SetAll(p, r, v) \in Seq(Only(R, O)) /\ Runs(SetAll(p, r, v), p, p)
        /\ LastWrite(SetAll(p, r, v), p, r, v)
      BY SetAllIs
  <1>3. <<switchPage(p)>> \in Seq(Transfers) /\ SetAll(p, r, v) \in Seq(Transfers)
      BY <1>1, <1>2, OnlyKeeps DEF Routine
  <1> QED BY <1>1, <1>2, <1>3, RoutineThen, ConcatKeeps

\* The registers that depend on the ADC clock.
ClockRegisters == {<<"RF", "adc">>, <<"COMM", "6A">>, <<"FM", "nco">>}

\* The divider and the oscillators are left at the values of the clock's
\* type (tdmbInitOfdm and the end of changedAdcClock).
LEMMA OscillatorsIs ==
    ASSUME NEW type \in {8000, 8192, 9600}
    PROVE  /\ Routine(Oscillators(type), "FM", {<<"COMM", "6A">>, <<"FM", "nco">>}, {})
           /\ LastWrite(Oscillators(type), "COMM", "6A", Divider(type))
           /\ LastWrite(Oscillators(type), "FM", "nco", <<type>>)
  <1> DEFINE R == {<<"COMM", "6A">>, <<"FM", "nco">>}
             a == switchPage("COMM")
             b == setRegister("COMM", "6A", Divider(type))
             c == switchPage("FM")
             t == SetAll("FM", "nco", <<type>>)
  <1>1. Divider(type) \in DividerValues BY DEF Divider, DividerValues
  <1>2. <<type>> \in Clocks /\ "COMM" \in Pages /\ "FM" \in Pages BY DEF Clocks, Pages
  <1>3. b \in Only({<<"COMM", "6A">>}, {}) BY <1>1, KeptIs
  <1>4. b \in Only(R, {}) BY <1>3 DEF Only
  <1>5. setRegister("FM", "nco", <<type>>) \in Only({<<"FM", "nco">>}, {})
        /\ setRegister("FM", "nco", Half) \in Only({<<"FM", "nco">>}, {})
      BY <1>2, KeptIs
  <1>6. /\ setRegister("FM", "nco", <<type>>) \in Only(R, {})
        /\ setRegister("FM", "nco", Half) \in Only(R, {})
      BY <1>5 DEF Only
  <1>7. t \in Seq(Only(R, {})) /\ Runs(t, "FM", "FM") /\ LastWrite(t, "FM", "nco", <<type>>)
      BY <1>6, SetAllIs
  <1>8. t \in Seq(Only({<<"FM", "nco">>}, {})) BY <1>5, SetAllIs
  <1>9. NoWrite(t, "COMM", "6A")
      <2>1. <<"COMM", "6A">> \in Registers \ {<<"FM", "nco">>} BY DEF Registers
      <2> QED BY <1>8, <2>1, OnlyKeeps
  <1>10. /\ a \in Only(R, {}) /\ a.op = "page" /\ a.page = "COMM"
         /\ c \in Only(R, {}) /\ c.op = "page" /\ c.page = "FM"
         /\ b.op = "set" /\ b.page = "COMM" /\ b.reg = "6A" /\ b.val = Divider(type)
      BY <1>2, PageIs, SetIs
  <1> DEFINE s == <<a, b, c>>
  <1>11. Oscillators(type) = s \o t BY DEF Oscillators
  <1> HIDE DEF a, b, c, t, R
  <1>12. s \in Seq(Only(R, {})) BY <1>4, <1>10
  <1>13. \A x : Runs(s, x, "FM") BY <1>10 DEF Runs
  <1>14. LastWrite(s, "COMM", "6A", Divider(type))
      <2>1. 2 \in 1..Len(<<a, b, c>>) /\ <<a, b, c>>[2] = b OBVIOUS
      <2>2. \A m \in (2 + 1)..Len(<<a, b, c>>) : ~Writes(<<a, b, c>>[m], "COMM", "6A")
          BY <1>10 DEF Writes
      <2> QED BY <1>10, <2>1, <2>2 DEF LastWrite, Writes
  <1> HIDE DEF s
  <1>15. s \in Seq(Transfers) /\ t \in Seq(Transfers) BY <1>7, <1>12, OnlyKeeps
  <1>16. Routine(s \o t, "FM", R, {})
      BY <1>7, <1>12, <1>13, RoutineThen DEF Routine
  <1>17. /\ LastWrite(s \o t, "COMM", "6A", Divider(type))
         /\ LastWrite(s \o t, "FM", "nco", <<type>>)
      BY <1>7, <1>9, <1>14, <1>15, ConcatKeeps
  <1> QED BY <1>11, <1>16, <1>17 DEF R

\* The ADC clock is left at its type (configureAddClock, rtvRFInitilize and
\* the start of changedAdcClock).
LEMMA AdcIs ==
    ASSUME NEW type \in {8000, 8192, 9600}
    PROVE  /\ Routine(<<switchPage("RF")>> \o SetAll("RF", "adc", <<type>>), "RF",
                      {<<"RF", "adc">>}, {})
           /\ LastWrite(<<switchPage("RF")>> \o SetAll("RF", "adc", <<type>>),
                        "RF", "adc", <<type>>)
  <1>1. <<type>> \in Clocks /\ "RF" \in Pages BY DEF Clocks, Pages
  <1> QED BY <1>1, KeptIs, PageSetAll

\* switchPage and two writes to a register that is not kept are a routine
\* that writes none of those kept.
LEMMA ThreeOther ==
    ASSUME NEW p \in Pages, NEW r \in OtherRegisters, NEW v \in Seq(Nat), NEW w \in Seq(Nat),
           NEW R, NEW O
    PROVE  Routine(<<switchPage(p), setRegister(p, r, v), setRegister(p, r, w)>>, p, R, O)
  <1> DEFINE a == switchPage(p)
             b == setRegister(p, r, v)
             c == setRegister(p, r, w)
  <1>1. /\ a \in Only(R, O) /\ b \in Only(R, O) /\ c \in Only(R, O)
        /\ a.op = "page" /\ a.page = p /\ b.page = p /\ c.page = p
      BY PageIs, OtherIs, SetIs
  <1> HIDE DEF a, b, c
  <1>2. Routine(<<a, b, c>>, p, R, O) BY <1>1, ThreeIs DEF Routine
  <1> QED BY <1>2 DEF a, b, c

\* What initialize does once the chip has powered up is a routine that
\* writes the registers of the clock only.
LEMMA AfterPowerUpIs == Routine(AfterPowerUp, "DD", ClockRegisters, {})
  <1>1. /\ Routine(configureAddClock, "RF", ClockRegisters, {})
        /\ Routine(rtvRFInitilize, "RF", ClockRegisters, {})
      BY AdcIs, RoutineMore DEF configureAddClock, rtvRFInitilize, ClockRegisters
  <1>2. Routine(tdmbInitOfdm, "FM", ClockRegisters, {})
      BY OscillatorsIs, RoutineMore DEF tdmbInitOfdm, ClockRegisters
  <1>3. Routine(setupMemoryFIC, "DD", ClockRegisters, {})
      BY ThreeOther, Bytes DEF setupMemoryFIC, Pages, OtherRegisters
  <1>4. Routine(configureAddClock \o tdmbInitOfdm, "FM", ClockRegisters, {})
      BY <1>1, <1>2, RoutineTwo
  <1>5. Routine((configureAddClock \o tdmbInitOfdm) \o rtvRFInitilize, "RF", ClockRegisters, {})
      BY <1>1, <1>4, RoutineTwo
  <1> QED BY <1>3, <1>5, RoutineTwo DEF AfterPowerUp

\* changedAdcClock leaves clock, divider and oscillators at its type, and
\* polls the lock.
LEMMA changedAdcClockIs ==
    ASSUME NEW type \in {8000, 8192, 9600}
    PROVE  /\ Routine(changedAdcClock(type), "FM", ClockRegisters, {"lock"})
           /\ LastWrite(changedAdcClock(type), "RF", "adc", <<type>>)
           /\ LastWrite(changedAdcClock(type), "COMM", "6A", Divider(type))
           /\ LastWrite(changedAdcClock(type), "FM", "nco", <<type>>)
           /\ ~NoOp(changedAdcClock(type), "lock")
  <1> DEFINE s == <<switchPage("RF")>> \o SetAll("RF", "adc", <<type>>)
             k == Read("lock", "RF")
             t == Oscillators(type)
             L == {"lock"}
  <1>1. /\ Routine(s, "RF", {<<"RF", "adc">>}, {}) /\ LastWrite(s, "RF", "adc", <<type>>)
        /\ Routine(s, "RF", ClockRegisters, L)
      BY AdcIs, RoutineMore DEF ClockRegisters
  <1>2. /\ Routine(t, "FM", {<<"COMM", "6A">>, <<"FM", "nco">>}, {})
        /\ Routine(t, "FM", ClockRegisters, L)
        /\ LastWrite(t, "COMM", "6A", Divider(type)) /\ LastWrite(t, "FM", "nco", <<type>>)
      BY OscillatorsIs, RoutineMore DEF ClockRegisters
  <1>3. k \in Only({}, L) /\ k.op = "lock" /\ k.page = "RF" BY ReadIs DEF Pages
  <1> DEFINE u == <<k>>
             w == s \o u
  <1>4. changedAdcClock(type) = w \o t BY DEF changedAdcClock
  <1> HIDE DEF s, k, t, u, L
  <1>5. u \in Seq(Only({}, L)) /\ Runs(u, "RF", "RF") BY <1>3 DEF Runs, u
  <1>6. u \in Seq(Only(ClockRegisters, L)) BY <1>5, MoreIs
  <1>7. Routine(w, "RF", ClockRegisters, L) BY <1>1, <1>5, <1>6, RoutineThen
  <1>8. s \in Seq(Transfers) /\ u \in Seq(Transfers) /\ t \in Seq(Transfers)
      BY <1>1, <1>2, <1>5, OnlyKeeps DEF Routine
  <1>9. NoWrite(u, "RF", "adc") BY <1>3 DEF NoWrite, Writes, u
  <1>10. LastWrite(w, "RF", "adc", <<type>>) BY <1>1, <1>8, <1>9, ConcatKeeps
  <1>11. Len(s) + 1 \in 1..Len(w) /\ w[Len(s) + 1] = k
      <2>1. 1 \in 1..Len(u) /\ u[1] = k BY DEF u
      <2> QED BY <1>8, <2>1, ConcatIs
  <1>12. w \in Seq(Transfers) BY <1>8
  <1> HIDE DEF w
  <1>13. Routine(w \o t, "FM", ClockRegisters, L) BY <1>2, <1>7, RoutineTwo
  <1>14. NoWrite(t, "RF", "adc")
      <2>1. <<"RF", "adc">> \in Registers \ {<<"COMM", "6A">>, <<"FM", "nco">>} BY DEF Registers
      <2> QED BY <1>2, <2>1, OnlyKeeps DEF Routine
  <1>15. LastWrite(w \o t, "RF", "adc", <<type>>) BY <1>8, <1>10, <1>12, <1>14, ConcatKeeps
  <1>16. /\ LastWrite(w \o t, "COMM", "6A", Divider(type))
         /\ LastWrite(w \o t, "FM", "nco", <<type>>)
      BY <1>2, <1>8, <1>12, ConcatKeeps
  <1>17. ~NoOp(w \o t, "lock")
      <2>1. Len(s) + 1 \in 1..Len(w \o t) /\ (w \o t)[Len(s) + 1] = k
          BY <1>8, <1>11, <1>12, ConcatIs
      <2> QED BY <1>3, <2>1 DEF NoOp
  <1> QED BY <1>4, <1>13, <1>15, <1>16, <1>17 DEF L

\* The PLL word of each channel makes four bytes: the three upper ones
\* masked with 0xFF, the last one of six bits shifted by two.
LEMMA PllIs == \A i \in 1..41 : PllRegisters(PllNF(PllKHz[i])) \in PllBytes
  <1> SUFFICES ASSUME NEW i \in 1..41 PROVE PllRegisters(PllNF(PllKHz[i])) \in PllBytes
      OBVIOUS
  <1> DEFINE w == PllNF(PllKHz[i])
  <1>1. PllKHz[i] \in Nat BY DEF PllKHz
  <1>2. w \in Nat BY <1>1 DEF PllNF
  <1> HIDE DEF w
  <1> DEFINE a == (w \div 2^22) % 256
             b == (w \div 2^14) % 256
             c == (w \div 2^5) % 256
             d == 4 * (w % 2^6) + 1
  <1>3. 2^22 = 4194304 /\ 2^14 = 16384 /\ 2^5 = 32 /\ 2^6 = 64 OBVIOUS
  <1>4. a \in 0..255 BY <1>2, <1>3
  <1>5. b \in 0..255 BY <1>2, <1>3
  <1>6. c \in 0..255 BY <1>2, <1>3
  <1>7. d \in 0..255 BY <1>2, <1>3
  <1>8. PllRegisters(w) = <<a, b, c, d>> BY DEF PllRegisters
  <1> HIDE DEF a, b, c, d
  <1>9. <<a, b, c, d>> \in PllBytes BY <1>4, <1>5, <1>6, <1>7 DEF PllBytes
  <1> QED BY <1>8, <1>9 DEF w

\* The rest of setFrequency leaves the PLL at the word of its channel and
\* writes no other register that is kept.
LEMMA ProgramPllIs ==
    ASSUME NEW i \in 1..41
    PROVE  /\ Routine(ProgramPll(i), "FM", {<<"RF", "pll">>}, {})
           /\ LastWrite(ProgramPll(i), "RF", "pll", PllRegisters(PllNF(PllKHz[i])))
  <1> DEFINE v == PllRegisters(PllNF(PllKHz[i]))
             R == {<<"RF", "pll">>}
             s == <<switchPage("RF")>> \o SetAll("RF", "pll", v)
             t == <<switchPage("FM"), setRegister("FM", "10", <<72>>),
                    setRegister("FM", "10", <<201>>)>>
  <1>1. v \in PllBytes \cup {Half} BY PllIs
  <1>2. ProgramPll(i) = s \o t BY DEF ProgramPll
  <1>3. Routine(t, "FM", {}, {})
      <2>1. "FM" \in Pages /\ "10" \in OtherRegisters BY DEF Pages, OtherRegisters
      <2> QED BY <2>1, ThreeOther, Bytes
  <1>3a. Routine(t, "FM", R, {})
      <2> HIDE DEF t, R
      <2> QED BY <1>3, RoutineMore
  <1> HIDE DEF v, t
  <1>4. /\ setRegister("RF", "pll", v) \in Only(R, {})
        /\ setRegister("RF", "pll", Half) \in Only(R, {})
      BY <1>1, KeptIs
  <1>5. Routine(s, "RF", R, {}) /\ LastWrite(s, "RF", "pll", v)
      BY <1>4, PageSetAll DEF Pages
  <1> HIDE DEF s
  <1>6. Routine(s \o t, "FM", R, {}) BY <1>3a, <1>5, RoutineTwo
  <1>7. <<"RF", "pll">> \in Registers \ {} BY DEF Registers
  <1>8. NoWrite(t, "RF", "pll") /\ t \in Seq(Transfers) /\ s \in Seq(Transfers)
      BY <1>3, <1>5, <1>7, OnlyKeeps DEF Routine
  <1>9. LastWrite(s \o t, "RF", "pll", v) BY <1>5, <1>8, ConcatKeeps
  <1> QED BY <1>2, <1>6, <1>9 DEF v

\* clearAndSetupMscMemory clears the memory.
LEMMA clearIs ==
    Routine(clearAndSetupMscMemory, "DD", {}, {}) /\ Clears(clearAndSetupMscMemory)
  <1> DEFINE a == switchPage("DD")
             b == setRegister("DD", "48", << 0 >>)
             c == setRegister("DD", "48", <<5>>)
  <1>1. clearAndSetupMscMemory = <<a, b, c>> BY DEF clearAndSetupMscMemory
  <1>2. Routine(<<a, b, c>>, "DD", {}, {}) BY ThreeOther, Bytes DEF Pages, OtherRegisters
  <1>3. b.op = "set" /\ b.page = "DD" /\ b.reg = "48" /\ b.val = << 0 >> /\ c.reg = "48" BY SetIs
  <1> HIDE DEF a, b, c
  <1>4. Clears(<<a, b, c>>)
      <2>1. 2 \in 1..Len(<<a, b, c>>) /\ <<a, b, c>>[2] = b OBVIOUS
      <2>2. \A m \in (2 + 1)..Len(<<a, b, c>>) : ~Writes(<<a, b, c>>[m], "DD", "3A")
          BY <1>3 DEF Writes
      <2> QED BY <1>3, <2>1, <2>2 DEF Clears, Writes
  <1> QED BY <1>1, <1>2, <1>4

\* openSubChannel writes the sub-channel, clears the memory after it, and
\* touches nothing of the tuning.
LEMMA openSubChannelIs ==
    ASSUME NEW id \in SubChannels
    PROVE  /\ Routine(openSubChannel(id), "DD", {<<"DD", "3A">>}, {})
           /\ LastWrite(openSubChannel(id), "DD", "3A", <<128 + id>>)
           /\ Clears(openSubChannel(id))
  <1> DEFINE a == switchPage("DD")
             b == setRegister("DD", "35", <<112>>)
             c == switchPage("HOST")
             d == setRegister("HOST", "62", << 0 >>)
             e == setRegister("DD", "3A", <<128 + id>>)
             s == <<a, b, c, d, a, e>>
             t == clearAndSetupMscMemory
             R == {<<"DD", "3A">>}
  <1>1. openSubChannel(id) = s \o t BY DEF openSubChannel
  <1>2. Routine(t, "DD", {}, {}) /\ Routine(t, "DD", R, {}) /\ Clears(t)
      BY clearIs, RoutineMore
  <1>3. <<128 + id>> \in SubChannelValues BY DEF SubChannelValues
  <1>4. e \in Only(R, {}) BY <1>3, KeptIs
  <1>5. /\ a \in Only(R, {}) /\ a.op = "page" /\ a.page = "DD"
        /\ c \in Only(R, {}) /\ c.op = "page" /\ c.page = "HOST"
      BY PageIs DEF Pages
  <1>6. b \in Only(R, {}) /\ d \in Only(R, {}) BY OtherIs, Bytes DEF Pages, OtherRegisters
  <1>7. /\ b.page = "DD" /\ d.page = "HOST"
        /\ e.op = "set" /\ e.page = "DD" /\ e.reg = "3A" /\ e.val = <<128 + id>>
      BY SetIs
  <1> HIDE DEF a, b, c, d, e, t, R
  <1>8. s \in Seq(Only(R, {})) BY <1>4, <1>5, <1>6
  <1>9. \A x : Runs(s, x, "DD") BY <1>5, <1>7 DEF Runs
  <1>10. LastWrite(s, "DD", "3A", <<128 + id>>)
      <2>1. 6 \in 1..Len(s) /\ s[6] = e OBVIOUS
      <2>2. \A m \in (6 + 1)..Len(s) : ~Writes(s[m], "DD", "3A") OBVIOUS
      <2> HIDE DEF s
      <2> QED BY <1>7, <2>1, <2>2 DEF LastWrite, Writes
  <1> HIDE DEF s
  <1>11. Routine(s \o t, "DD", R, {}) BY <1>2, <1>8, <1>9, RoutineTwo DEF Routine
  <1>12. <<"DD", "3A">> \in Registers \ {} BY DEF Registers
  <1>13. NoWrite(t, "DD", "3A") /\ t \in Seq(Transfers) /\ s \in Seq(Transfers)
      BY <1>2, <1>8, <1>12, OnlyKeeps DEF Routine
  <1>14. LastWrite(s \o t, "DD", "3A", <<128 + id>>) /\ Clears(s \o t)
      BY <1>2, <1>10, <1>13, ConcatKeeps
  <1> QED BY <1>1, <1>11, <1>14 DEF R

\* Reading the FIC writes no register that is kept.
LEMMA readFicIs == Routine(readFic, "DD", {}, {})
  <1> DEFINE a == switchPage("FIC")
             b == Read("fic", "FIC")
             c == switchPage("DD")
             d == setRegister("DD", "35", <<1>>)
             S == Only({}, {})
  <1>1. a \in S /\ a.op = "page" /\ a.page = "FIC" /\ c \in S /\ c.op = "page" /\ c.page = "DD"
      BY PageIs DEF Pages
  <1>2. b \in S /\ b.page = "FIC" BY ReadIs DEF Pages, Ops
  <1>3. d \in S /\ d.page = "DD" BY OtherIs, SetIs, Bytes DEF Pages, OtherRegisters
  <1>4. readFic = <<a, b, c, d>> BY DEF readFic
  <1> HIDE DEF a, b, c, d, S
  <1>5. <<a, b, c, d>> \in Seq(S) /\ \A x : Runs(<<a, b, c, d>>, x, "DD")
      BY <1>1, <1>2, <1>3, FourIs
  <1> QED BY <1>4, <1>5 DEF Routine, S

\* Reading MSC1 reads its memory and writes no register that is kept.
LEMMA readMscIs == Routine(readMsc, "DD", {}, {"bulk"})
  <1> DEFINE a == switchPage("MSC1")
             b == Read("bulk", "MSC1")
             c == switchPage("DD")
             d == setRegister("DD", "35", <<4>>)
             S == Only({}, {"bulk"})
  <1>1. a \in S /\ a.op = "page" /\ a.page = "MSC1" /\ c \in S /\ c.op = "page" /\ c.page = "DD"
      BY PageIs DEF Pages
  <1>2. b \in S /\ b.page = "MSC1" BY ReadIs DEF Pages, Ops
  <1>3. d \in S /\ d.page = "DD" BY OtherIs, SetIs, Bytes DEF Pages, OtherRegisters
  <1>4. readMsc = <<a, b, c, d>> BY DEF readMsc
  <1> HIDE DEF a, b, c, d, S
  <1>5. <<a, b, c, d>> \in Seq(S) /\ \A x : Runs(<<a, b, c, d>>, x, "DD")
      BY <1>1, <1>2, <1>3, FourIs
  <1> QED BY <1>4, <1>5 DEF Routine, S

\* The first two transfers of initialize and of readData.
LEMMA PageRead ==
    ASSUME NEW p \in Pages, NEW o \in {"power", "status"}
    PROVE  Routine(<<switchPage(p), Read(o, p)>>, p, {}, {o})
  <1> DEFINE a == switchPage(p)
             b == Read(o, p)
             S == Only({}, {o})
  <1>1. a \in S /\ a.op = "page" /\ a.page = p BY PageIs
  <1>2. b \in S /\ b.page = p BY ReadIs
  <1> HIDE DEF a, b, S
  <1>3. <<a, b>> \in Seq(S) /\ \A x : Runs(<<a, b>>, x, p) BY <1>1, <1>2 DEF Runs
  <1> QED BY <1>3 DEF Routine, S, a, b

-----------------------------------------------------------------------------

\* The transfers t each meet their page if page p is selected.
Program(t, p) == t \in Seq(Transfers) /\ \E q \in Pages : Runs(t, p, q)

\* Once the transfers t are done, register r of page p holds v.
Settled(t, g, p, r, v) ==
    LastWrite(t, p, r, v) \/ (NoWrite(t, p, r) /\ g[<<p, r>>] = v)

\* What a transfer makes of the registers g.
Written(t, g) ==
    IF t.op = "set"
    THEN [r \in Registers |-> IF r = <<t.page, t.reg>> THEN t.val ELSE g[r]]
    ELSE g

\* Nothing, or routines that write only R and read only O.
Routines(s, R, O) == s = << >> \/ \E q \in Pages : Routine(s, q, R, O)

\* Nothing or routines, and again nothing or routines.
LEMMA RoutinesThen ==
    ASSUME NEW s, NEW t, NEW R, NEW O, Routines(s, R, O), Routines(t, R, O)
    PROVE  Routines(s \o t, R, O)
  <1>1. CASE s = << >>
      <2>1. CASE t = << >> BY <1>1, <2>1 DEF Routines
      <2>2. CASE t # << >>
          <3>1. t \in Seq(Only(R, O)) BY <2>2 DEF Routines, Routine
          <3>2. s \o t = t BY <1>1, <3>1
          <3> QED BY <3>2
      <2> QED BY <2>1, <2>2
  <1>2. CASE s # << >>
      <2>1. PICK p \in Pages : Routine(s, p, R, O) BY <1>2 DEF Routines
      <2>2. CASE t = << >>
          <3>1. s \in Seq(Only(R, O)) BY <2>1 DEF Routine
          <3>2. s \o t = s BY <2>2, <3>1
          <3> QED BY <3>2
      <2>3. CASE t # << >>
          <3>1. PICK q \in Pages : Routine(t, q, R, O) BY <2>3 DEF Routines
          <3>2. Routine(s \o t, q, R, O) BY <2>1, <3>1, RoutineTwo
          <3> QED BY <3>2 DEF Routines
      <2> QED BY <2>2, <2>3
  <1> QED BY <1>1, <1>2

\* What a poll adds to the program that runs keeps what the program settles,
\* but for the registers the addition writes.
LEMMA AddedIs ==
    ASSUME NEW t, NEW p, Program(t, p), NEW s, NEW R, NEW O, Routines(s, R, O), NEW g
    PROVE  /\ Program(t \o s, p)
           /\ \A o \in Ops \ O : NoOp(t, o) => NoOp(t \o s, o)
           /\ \A x, r : <<x, r>> \in Registers \ R =>
                  /\ NoWrite(t, x, r) => NoWrite(t \o s, x, r)
                  /\ \A v : Settled(t, g, x, r, v) => Settled(t \o s, g, x, r, v)
           /\ <<"DD", "3A">> \in Registers \ R /\ Clears(t) => Clears(t \o s)
  <1>1. t \in Seq(Transfers) BY DEF Program
  <1>2. CASE s = << >>
      <2>1. t \o s = t BY <1>1, <1>2
      <2> QED BY <2>1
  <1>3. CASE s # << >>
      <2>1. PICK q \in Pages : Routine(s, q, R, O) BY <1>3 DEF Routines
      <2>2. /\ s \in Seq(Transfers)
            /\ \A x, r : <<x, r>> \in Registers \ R => NoWrite(s, x, r)
            /\ \A o \in Ops \ O : NoOp(s, o)
          BY <2>1, OnlyKeeps DEF Routine
      <2>3. Program(t \o s, p)
          <3>1. PICK x \in Pages : Runs(t, p, x) BY DEF Program
          <3>2. Runs(s, x, q) BY <2>1 DEF Routine
          <3>3. Runs(t \o s, p, q) BY <1>1, <2>2, <3>1, <3>2, ConcatRuns
          <3>4. t \o s \in Seq(Transfers) BY <1>1, <2>2
          <3> QED BY <3>3, <3>4 DEF Program
      <2>4. \A o \in Ops \ O : NoOp(t, o) => NoOp(t \o s, o) BY <1>1, <2>2, ConcatKeeps
      <2>5. ASSUME NEW x, NEW r, <<x, r>> \in Registers \ R
            PROVE  /\ NoWrite(t, x, r) => NoWrite(t \o s, x, r)
                   /\ \A v : Settled(t, g, x, r, v) => Settled(t \o s, g, x, r, v)
          <3>1. NoWrite(s, x, r) BY <2>2, <2>5
          <3>2. NoWrite(t, x, r) => NoWrite(t \o s, x, r) BY <1>1, <2>2, <3>1, ConcatKeeps
          <3>3. \A v : LastWrite(t, x, r, v) => LastWrite(t \o s, x, r, v)
              BY <1>1, <2>2, <3>1, ConcatKeeps
          <3> QED BY <3>2, <3>3 DEF Settled
      <2>6. <<"DD", "3A">> \in Registers \ R /\ Clears(t) => Clears(t \o s)
          BY <1>1, <2>2, ConcatKeeps
      <2> QED BY <2>3, <2>4, <2>5, <2>6
  <1> QED BY <1>2, <1>3

\* After its first transfer, what is left of a program still meets its pages
\* and settles the same values, the ones of the registers just written
\* included.
LEMMA LeftIs ==
    ASSUME NEW t, NEW p, Program(t, p), t # << >>, NEW g
    PROVE  /\ Head(t) = t[1] /\ t[1] \in Transfers
           /\ Program(Tail(t), IF t[1].op = "page" THEN t[1].page ELSE p)
           /\ t[1].op # "page" => t[1].page = p
           /\ \A o : NoOp(t, o) => t[1].op # o /\ NoOp(Tail(t), o)
           /\ \A o : ~NoOp(t, o) /\ t[1].op # o => ~NoOp(Tail(t), o)
           /\ \A x, r : NoWrite(t, x, r) => ~Writes(t[1], x, r) /\ NoWrite(Tail(t), x, r)
           /\ \A x, r, v : <<x, r>> \in Registers /\ Settled(t, g, x, r, v)
                  => Settled(Tail(t), Written(t[1], g), x, r, v)
  <1>1. /\ t \in Seq(Transfers) /\ Tail(t) \in Seq(Transfers)
        /\ Len(Tail(t)) = Len(t) - 1 /\ Len(t) \in Nat /\ Len(t) >= 1
        /\ Head(t) = t[1] /\ t[1] \in Transfers
        /\ \A j \in 1..Len(Tail(t)) : Tail(t)[j] = t[j + 1]
      BY TailIs DEF Program
  <1>2. PICK q \in Pages : Runs(t, p, q) BY DEF Program
  <1>3. Program(Tail(t), IF t[1].op = "page" THEN t[1].page ELSE p)
      <2>1. Runs(Tail(t), IF t[1].op = "page" THEN t[1].page ELSE p, q) BY <1>1, <1>2, TailRuns
      <2> QED BY <1>1, <2>1 DEF Program
  <1>4. t[1].op # "page" => t[1].page = p BY <1>2 DEF Runs
  <1>5. \A o : NoOp(t, o) => t[1].op # o /\ NoOp(Tail(t), o)
      <2>1. \A o : NoOp(t, o) => NoOp(Tail(t), o) BY <1>1, TailKeeps
      <2> QED BY <1>1, <2>1 DEF NoOp
  <1>6. ASSUME NEW o, ~NoOp(t, o), t[1].op # o PROVE ~NoOp(Tail(t), o)
      <2>1. PICK j \in 1..Len(t) : t[j].op = o BY <1>6 DEF NoOp
      <2>2. j # 1 BY <1>6, <2>1
      <2>3. j - 1 \in 1..Len(Tail(t)) /\ Tail(t)[j - 1] = t[(j - 1) + 1] BY <1>1, <2>2
      <2>4. (j - 1) + 1 = j OBVIOUS
      <2> QED BY <2>1, <2>3, <2>4 DEF NoOp
  <1>7. \A x, r : NoWrite(t, x, r) => ~Writes(t[1], x, r) /\ NoWrite(Tail(t), x, r)
      <2>1. \A x, r : NoWrite(t, x, r) => NoWrite(Tail(t), x, r) BY <1>1, TailKeeps
      <2> QED BY <1>1, <2>1 DEF NoWrite
  <1>8. ASSUME NEW x, NEW r, NEW v, <<x, r>> \in Registers, Settled(t, g, x, r, v)
        PROVE  Settled(Tail(t), Written(t[1], g), x, r, v)
      <2>1. CASE LastWrite(t, x, r, v)
          <3>1. CASE LastWrite(Tail(t), x, r, v) BY <3>1 DEF Settled
          <3>2. CASE Writes(t[1], x, r) /\ t[1].val = v /\ NoWrite(Tail(t), x, r)
              <4>1. Written(t[1], g)[<<x, r>>] = v BY <1>8, <3>2 DEF Written, Writes
              <4> QED BY <3>2, <4>1 DEF Settled
          <3> QED BY <1>1, <2>1, <3>1, <3>2, TailKeeps
      <2>2. CASE NoWrite(t, x, r) /\ g[<<x, r>>] = v
          <3>1. ~Writes(t[1], x, r) /\ NoWrite(Tail(t), x, r) BY <1>7, <2>2
          <3>2. Written(t[1], g)[<<x, r>>] = g[<<x, r>>] BY <1>8, <3>1 DEF Written, Writes
          <3> QED BY <2>2, <3>1, <3>2 DEF Settled
      <2> QED BY <1>8, <2>1, <2>2 DEF Settled
  <1> QED BY <1>1, <1>3, <1>4, <1>5, <1>6, <1>7, <1>8

\* What a transfer writes into a register that is kept is a value of that
\* register.
LEMMA ValuesIs ==
    ASSUME NEW t \in Transfers, t.op = "set"
    PROVE  /\ t.page = "RF" /\ t.reg = "pll" => t.val \in PllBytes \cup {Half}
           /\ t.page = "RF" /\ t.reg = "adc" => t.val \in Clocks \cup {Half}
           /\ t.page = "FM" /\ t.reg = "nco" => t.val \in Clocks \cup {Half}
           /\ t.page = "COMM" /\ t.reg = "6A" => t.val \in DividerValues
           /\ t.page = "DD" /\ t.reg = "3A" => t.val \in SubChannelValues
  <1>1. t \in Writings BY DEF Transfers, Selections, Readings
  <1> QED BY <1>1 DEF Writings, OtherRegisters

-----------------------------------------------------------------------------
(* The invariant. *)

\* What is left of the program meets its pages, and holds the polls and reads
\* of the call it belongs to only.
ProgramInv ==
    /\ Program(todo, page)
    /\ call = "none" => todo = << >>
    /\ call # "initialize" => NoOp(todo, "power")
    /\ call # "tuneFrequency" => NoOp(todo, "lock")
    /\ call # "readData" => NoOp(todo, "status") /\ NoOp(todo, "bulk")

\* Once it is done, the registers are those of the frequency.
TuningSettled ==
    LET type == AdcClkType[Index(freq)]
    IN  /\ Settled(todo, regs, "RF", "adc", <<type>>)
        /\ Settled(todo, regs, "COMM", "6A", Divider(type))
        /\ Settled(todo, regs, "FM", "nco", <<type>>)
        /\ setOk => Settled(todo, regs, "RF", "pll", PllRegisters(PllNF(PllKHz[Index(freq)])))

\* Nothing left writes a register of the tuning.
KeepsTuning ==
    /\ NoWrite(todo, "RF", "adc") /\ NoWrite(todo, "RF", "pll")
    /\ NoWrite(todo, "COMM", "6A") /\ NoWrite(todo, "FM", "nco")

\* From tuneFrequency on the frequency's registers are settled; after it they stay.
TuningInv ==
    /\ call \in {"tuneFrequency", "openSubChannel", "readData"} => TuningSettled
    /\ call \in {"openSubChannel", "readData"} => KeepsTuning

TunerInv == TypeOK /\ ProgramInv /\ TuningInv

\* An empty program writes and reads nothing.
LEMMA EmptyIs ==
    /\ \A p \in Pages : Program(<< >>, p)
    /\ \A o : NoOp(<< >>, o)
    /\ \A x, r : NoWrite(<< >>, x, r)
    /\ ~Clears(<< >>)
  <1>1. << >> \in Seq(Transfers) /\ Len(<< >>) = 0 OBVIOUS
  <1>2. \A p \in Pages : Program(<< >>, p) BY <1>1 DEF Program, Runs
  <1> QED BY <1>1, <1>2 DEF NoOp, NoWrite, Clears

\* What is settled and not written any more is what the register holds.
LEMMA SettledIs ==
    ASSUME NEW t, NEW g, NEW p, NEW r, NEW v, Settled(t, g, p, r, v), NoWrite(t, p, r)
    PROVE  g[<<p, r>>] = v
  BY DEF Settled, LastWrite, NoWrite

\* A call that is a routine meets its pages from any page, and leaves the
\* registers it does not write.
LEMMA StartIs ==
    ASSUME NEW s, NEW q, NEW R, NEW O, Routine(s, q, R, O), q \in Pages
    PROVE  /\ \A p : Program(s, p)
           /\ \A o \in Ops \ O : NoOp(s, o)
           /\ \A x, r : <<x, r>> \in Registers \ R =>
                  /\ NoWrite(s, x, r)
                  /\ \A g, v : g[<<x, r>>] = v => Settled(s, g, x, r, v)
  <1>1. /\ s \in Seq(Transfers)
        /\ \A x, r : <<x, r>> \in Registers \ R => NoWrite(s, x, r)
        /\ \A o \in Ops \ O : NoOp(s, o)
      BY OnlyKeeps DEF Routine
  <1>2. \A p : Program(s, p) BY <1>1 DEF Program, Routine
  <1> QED BY <1>1, <1>2 DEF Settled

\* One transfer, and what it adds to the program: pages are still met, and
\* what was settled and is not written by the addition still is.
LEMMA StepIs ==
    ASSUME Program(todo, page), todo # << >>, NEW s, NEW R, NEW O, Routines(s, R, O),
           todo' = Tail(todo) \o s, regs' = Written(todo[1], regs),
           page' = IF todo[1].op = "page" THEN todo[1].page ELSE page
    PROVE  /\ Program(todo', page')
           /\ \A o \in Ops \ O : NoOp(todo, o) => NoOp(todo', o)
           /\ \A x, r : <<x, r>> \in Registers \ R =>
                  /\ NoWrite(todo, x, r) => NoWrite(todo', x, r)
                  /\ \A v : Settled(todo, regs, x, r, v) => Settled(todo', regs', x, r, v)
  <1> DEFINE u == Tail(todo)
             g == Written(todo[1], regs)
  <1>1. /\ Program(u, page')
        /\ \A o : NoOp(todo, o) => NoOp(u, o)
        /\ \A x, r : NoWrite(todo, x, r) => NoWrite(u, x, r)
        /\ \A x, r, v : <<x, r>> \in Registers /\ Settled(todo, regs, x, r, v)
               => Settled(u, g, x, r, v)
      BY LeftIs
  <1>2. todo' = u \o s /\ regs' = g OBVIOUS
  <1> HIDE DEF u, g
  <1>3. /\ Program(u \o s, page')
        /\ \A o \in Ops \ O : NoOp(u, o) => NoOp(u \o s, o)
        /\ \A x, r : <<x, r>> \in Registers \ R =>
               /\ NoWrite(u, x, r) => NoWrite(u \o s, x, r)
               /\ \A v : Settled(u, g, x, r, v) => Settled(u \o s, g, x, r, v)
      BY <1>1, AddedIs
  <1> QED BY <1>1, <1>2, <1>3

\* A transfer that adds to the program at most what readData does on a
\* status keeps the invariant of pages and tuning.
LEMMA KeepingStep ==
    ASSUME ProgramInv, TuningInv, todo # << >>, NEW s, NEW O \in SUBSET {"bulk"},
           Routines(s, {}, O), O # {} => call = "readData",
           todo' = Tail(todo) \o s, regs' = Written(todo[1], regs),
           page' = IF todo[1].op = "page" THEN todo[1].page ELSE page,
           UNCHANGED <<call, freq, sub, setOk>>
    PROVE  ProgramInv' /\ TuningInv'
  <1>1. /\ Program(todo', page')
        /\ \A o \in Ops \ O : NoOp(todo, o) => NoOp(todo', o)
        /\ \A x, r : <<x, r>> \in Registers \ {} =>
               /\ NoWrite(todo, x, r) => NoWrite(todo', x, r)
               /\ \A v : Settled(todo, regs, x, r, v) => Settled(todo', regs', x, r, v)
      BY StepIs DEF ProgramInv
  <1>2. \A x, r : <<x, r>> \in Registers =>
               /\ NoWrite(todo, x, r) => NoWrite(todo', x, r)
               /\ \A v : Settled(todo, regs, x, r, v) => Settled(todo', regs', x, r, v)
      BY <1>1
  <1>3. /\ <<"RF", "adc">> \in Registers /\ <<"RF", "pll">> \in Registers
        /\ <<"COMM", "6A">> \in Registers /\ <<"FM", "nco">> \in Registers
      BY DEF Registers
  <1>4. ProgramInv' BY <1>1 DEF ProgramInv, Ops
  <1>5. TuningSettled => TuningSettled'
      <2> HIDE DEF Settled
      <2> QED BY <1>2, <1>3 DEF TuningSettled
  <1>6. KeepsTuning => KeepsTuning' BY <1>2, <1>3 DEF KeepsTuning
  <1> QED BY <1>4, <1>5, <1>6 DEF TuningInv

\* The invariant holds before the first program starts.
LEMMA InitInv == Init => TunerInv
  <1> SUFFICES ASSUME Init PROVE TunerInv OBVIOUS
  <1>1. TypeOK BY DEF Init, TypeOK, Registers
  <1>2. ProgramInv BY EmptyIs DEF Init, ProgramInv
  <1>3. TuningInv BY DEF Init, TuningInv
  <1> QED BY <1>1, <1>2, <1>3 DEF TunerInv

\* The frequencies a program may be called with have an entry in the tables.
LEMMA TypeIs == TypeOK => Index(freq) \in 1..41 /\ AdcClkType[Index(freq)] \in {8000, 8192, 9600}
  BY FrequenciesAssumption DEF TypeOK, AdcClkType

\* initialize keeps the invariant, wherever the program before was killed.
LEMMA InitializeInv == TunerInv /\ Initialize => TunerInv'
  <1> SUFFICES ASSUME TunerInv, Initialize PROVE TunerInv' OBVIOUS
  <1>1. TypeOK' BY DEF Initialize, Call, TunerInv, TypeOK
  <1>2. "HOST" \in Pages BY DEF Pages
  <1> DEFINE s == <<switchPage("HOST"), Read("power", "HOST")>>
  <1>3. Routine(s, "HOST", {}, {"power"}) BY <1>2, PageRead
  <1>4. todo' = s /\ call' = "initialize" BY DEF Initialize, Call
  <1> HIDE DEF s
  <1>5. Program(s, page') /\ \A o \in Ops \ {"power"} : NoOp(s, o) BY <1>2, <1>3, StartIs
  <1>6. ProgramInv' BY <1>4, <1>5 DEF ProgramInv, Ops
  <1>7. TuningInv' BY <1>4 DEF TuningInv
  <1> QED BY <1>1, <1>6, <1>7 DEF TunerInv

\* tuneFrequency settles the clock and forgets the lock.
LEMMA TuneFrequencyInv == TunerInv /\ TuneFrequency => TunerInv'
  <1> SUFFICES ASSUME TunerInv, TuneFrequency PROVE TunerInv' OBVIOUS
  <1>1. TypeOK' BY DEF TuneFrequency, Call, TunerInv, TypeOK, chipVars
  <1> DEFINE type == AdcClkType[Index(freq)]
             s == changedAdcClock(type)
  <1>2. type \in {8000, 8192, 9600} BY TypeIs DEF TunerInv
  <1>3. todo' = s /\ call' = "tuneFrequency" /\ setOk' = FALSE /\ freq' = freq
      BY DEF TuneFrequency, Call
  <1>4. type' = type BY <1>3
  <1>5. /\ Routine(s, "FM", ClockRegisters, {"lock"})
        /\ LastWrite(s, "RF", "adc", <<type>>)
        /\ LastWrite(s, "COMM", "6A", Divider(type))
        /\ LastWrite(s, "FM", "nco", <<type>>)
      <2> HIDE DEF type
      <2> QED BY <1>2, changedAdcClockIs
  <1> HIDE DEF s
  <1>6. Program(s, page') /\ \A o \in Ops \ {"lock"} : NoOp(s, o) BY <1>5, StartIs DEF Pages
  <1>7. ProgramInv' BY <1>3, <1>6 DEF ProgramInv, Ops
  <1>8. TuningSettled' BY <1>3, <1>4, <1>5 DEF TuningSettled, Settled
  <1>9. TuningInv' BY <1>3, <1>8 DEF TuningInv
  <1> QED BY <1>1, <1>7, <1>9 DEF TunerInv

\* A call made once tuning is over keeps what it has settled.
LEMMA TunedCallInv ==
    ASSUME TunerInv, todo = << >>, NEW q \in Pages, NEW R, NEW O, Routine(todo', q, R, O),
           R \subseteq {<<"DD", "3A">>}, O \subseteq {"status"},
           call \in {"tuneFrequency", "openSubChannel", "readData"},
           call' \in {"openSubChannel", "readData"}, O # {} => call' = "readData",
           UNCHANGED <<freq, setOk, regs>>
    PROVE  ProgramInv' /\ TuningInv'
  <1>1. /\ Program(todo', page')
        /\ \A o \in Ops \ O : NoOp(todo', o)
        /\ \A x, r : <<x, r>> \in Registers \ R =>
               /\ NoWrite(todo', x, r)
               /\ \A g, v : g[<<x, r>>] = v => Settled(todo', g, x, r, v)
      BY StartIs
  <1>2. /\ <<"RF", "adc">> \in Registers \ R /\ <<"RF", "pll">> \in Registers \ R
        /\ <<"COMM", "6A">> \in Registers \ R /\ <<"FM", "nco">> \in Registers \ R
      BY DEF Registers
  <1>3. ProgramInv' BY <1>1 DEF ProgramInv, Ops
  <1>4. KeepsTuning' BY <1>1, <1>2 DEF KeepsTuning
  <1>5. TuningSettled BY DEF TunerInv, TuningInv
  <1>6. \A x, r : NoWrite(todo, x, r) BY EmptyIs
  <1> DEFINE type == AdcClkType[Index(freq)]
             pll == PllRegisters(PllNF(PllKHz[Index(freq)]))
  <1>7. /\ regs[<<"RF", "adc">>] = <<type>> /\ regs[<<"COMM", "6A">>] = Divider(type)
        /\ regs[<<"FM", "nco">>] = <<type>> /\ (setOk => regs[<<"RF", "pll">>] = pll)
      BY <1>5, <1>6, SettledIs DEF TuningSettled
  <1>8. type' = type /\ pll' = pll /\ regs' = regs /\ setOk' = setOk OBVIOUS
  <1>9. TuningSettled'
      <2> HIDE DEF type, pll
      <2>1. /\ Settled(todo', regs', "RF", "adc", <<type>>)
            /\ Settled(todo', regs', "COMM", "6A", Divider(type))
            /\ Settled(todo', regs', "FM", "nco", <<type>>)
            /\ setOk' => Settled(todo', regs', "RF", "pll", pll)
          BY <1>1, <1>2, <1>7, <1>8
      <2> USE DEF type, pll
      <2> QED BY <1>8, <2>1 DEF TuningSettled
  <1> QED BY <1>3, <1>4, <1>9 DEF TuningInv

\* openSubChannel keeps the tuning.
LEMMA OpenSubChannelInv == TunerInv /\ OpenSubChannel => TunerInv'
  <1> SUFFICES ASSUME TunerInv, OpenSubChannel PROVE TunerInv' OBVIOUS
  <1>1. TypeOK' BY DEF OpenSubChannel, Call, TunerInv, TypeOK, chipVars
  <1>2. /\ call = "tuneFrequency" /\ todo = << >> /\ call' = "openSubChannel"
        /\ todo' = openSubChannel(sub) /\ UNCHANGED <<freq, sub, setOk, regs>>
      BY DEF OpenSubChannel, Call, chipVars
  <1>3. Routine(todo', "DD", {<<"DD", "3A">>}, {})
      <2>1. sub \in SubChannels BY DEF TunerInv, TypeOK
      <2> QED BY <1>2, <2>1, openSubChannelIs
  <1>4. "DD" \in Pages BY DEF Pages
  <1>5. ProgramInv' /\ TuningInv' BY <1>2, <1>3, <1>4, TunedCallInv
  <1> QED BY <1>1, <1>5 DEF TunerInv

\* readData keeps the tuning.
LEMMA ReadDataInv == TunerInv /\ ReadData => TunerInv'
  <1> SUFFICES ASSUME TunerInv, ReadData PROVE TunerInv' OBVIOUS
  <1>1. TypeOK' BY DEF ReadData, Call, TunerInv, TypeOK, chipVars
  <1>2. /\ call \in {"openSubChannel", "readData"} /\ todo = << >> /\ call' = "readData"
        /\ todo' = <<switchPage("DD"), Read("status", "DD")>>
        /\ UNCHANGED <<freq, sub, setOk, regs>>
      BY DEF ReadData, Call, chipVars
  <1>3. "DD" \in Pages BY DEF Pages
  <1>4. Routine(todo', "DD", {}, {"status"}) BY <1>2, <1>3, PageRead
  <1>5. ProgramInv' /\ TuningInv' BY <1>2, <1>3, <1>4, TunedCallInv
  <1> QED BY <1>1, <1>5 DEF TunerInv

\* What every transfer finds: the page it is meant for, and a call it
\* belongs to.
LEMMA TransferIs ==
    ASSUME TunerInv, todo # << >>
    PROVE  /\ Head(todo) = todo[1] /\ todo[1] \in Transfers
           /\ todo[1].op # "page" => todo[1].page = page
           /\ \A o : NoOp(todo, o) => todo[1].op # o
           /\ Tail(todo) \in Seq(Transfers) /\ Tail(todo) \o << >> = Tail(todo)
           /\ \A O : Routines(<< >>, {}, O)
  <1>1. Program(todo, page) BY DEF TunerInv, ProgramInv
  <1>2. /\ Head(todo) = todo[1] /\ todo[1] \in Transfers
        /\ todo[1].op # "page" => todo[1].page = page
        /\ \A o : NoOp(todo, o) => todo[1].op # o
      BY <1>1, LeftIs
  <1>3. Tail(todo) \in Seq(Transfers) BY <1>1, TailIs DEF Program
  <1>4. Tail(todo) \o << >> = Tail(todo) BY <1>3
  <1>5. \A O : Routines(<< >>, {}, O) BY DEF Routines
  <1> QED BY <1>2, <1>3, <1>4, <1>5

\* A transfer that adds nothing to the program keeps the invariant of pages
\* and tuning.
LEMMA PlainStep ==
    ASSUME TunerInv, todo # << >>, todo' = Tail(todo), regs' = Written(todo[1], regs),
           page' = IF todo[1].op = "page" THEN todo[1].page ELSE page,
           UNCHANGED <<call, freq, sub, setOk>>
    PROVE  ProgramInv' /\ TuningInv'
  <1>1. todo' = Tail(todo) \o << >> /\ Routines(<< >>, {}, {}) BY TransferIs
  <1>2. {} \in SUBSET {"bulk"} OBVIOUS
  <1> QED BY <1>1, <1>2, KeepingStep DEF TunerInv

\* Selecting a page keeps the invariant.
LEMMA SwitchPageInv == TunerInv /\ SwitchPage => TunerInv'
  <1> SUFFICES ASSUME TunerInv, SwitchPage PROVE TunerInv' OBVIOUS
  <1>1. todo # << >> /\ todo[1].op = "page" /\ todo[1] \in Transfers /\ page' = todo[1].page
      BY TransferIs DEF SwitchPage, Transfer
  <1>2. todo[1].page \in Pages BY <1>1 DEF Transfers, Selections, Readings, Writings
  <1>3. TypeOK' BY <1>1, <1>2 DEF SwitchPage, Transfer, mainVars, TunerInv, TypeOK
  <1>4. ProgramInv' /\ TuningInv'
      BY <1>1, PlainStep DEF SwitchPage, Transfer, mainVars, Written
  <1> QED BY <1>3, <1>4 DEF TunerInv

\* Writing a register keeps the invariant: the write lands on its page, so
\* that no other register changes.
LEMMA SetRegisterInv == TunerInv /\ SetRegister => TunerInv'
  <1> SUFFICES ASSUME TunerInv, SetRegister PROVE TunerInv' OBVIOUS
  <1>1. /\ todo # << >> /\ todo[1].op = "set" /\ todo[1] \in Transfers /\ Head(todo) = todo[1]
        /\ todo[1].page = page
      BY TransferIs DEF SetRegister, Transfer
  <1>2. regs' = Written(todo[1], regs) BY <1>1 DEF SetRegister, Written
  <1>3. /\ regs'[<<"RF", "pll">>] \in PllBytes \cup {Half}
        /\ regs'[<<"RF", "adc">>] \in Clocks \cup {Half}
        /\ regs'[<<"FM", "nco">>] \in Clocks \cup {Half}
        /\ regs'[<<"COMM", "6A">>] \in {<<1>>, <<49>>, Half}
        /\ regs'[<<"DD", "3A">>] \in SubChannelValues \cup {Half}
      <2> DEFINE t == todo[1]
                 At(r) == IF r = <<t.page, t.reg>> THEN t.val ELSE regs[r]
      <2>1. /\ t.page = "RF" /\ t.reg = "pll" => t.val \in PllBytes \cup {Half}
            /\ t.page = "RF" /\ t.reg = "adc" => t.val \in Clocks \cup {Half}
            /\ t.page = "FM" /\ t.reg = "nco" => t.val \in Clocks \cup {Half}
            /\ t.page = "COMM" /\ t.reg = "6A" => t.val \in DividerValues
            /\ t.page = "DD" /\ t.reg = "3A" => t.val \in SubChannelValues
          BY <1>1, ValuesIs
      <2>2. \A r \in Registers : regs'[r] = At(r) BY <1>1, <1>2 DEF Written
      <2>3. /\ regs'[<<"RF", "pll">>] = At(<<"RF", "pll">>)
            /\ regs'[<<"RF", "adc">>] = At(<<"RF", "adc">>)
            /\ regs'[<<"FM", "nco">>] = At(<<"FM", "nco">>)
            /\ regs'[<<"COMM", "6A">>] = At(<<"COMM", "6A">>)
            /\ regs'[<<"DD", "3A">>] = At(<<"DD", "3A">>)
          BY <2>2 DEF Registers
      <2> HIDE DEF t
      <2> QED BY <2>1, <2>3 DEF TunerInv, TypeOK, SubChannelValues, DividerValues
  <1>4. memory' \subseteq {"requested", "other"}
      BY DEF SetRegister, TunerInv, TypeOK
  <1>5. TypeOK'
      BY <1>3, <1>4 DEF SetRegister, Transfer, mainVars, TunerInv, TypeOK, SubChannelValues
  <1>6. ProgramInv' /\ TuningInv'
      BY <1>1, <1>2, PlainStep DEF SetRegister, Transfer, mainVars
  <1> QED BY <1>5, <1>6 DEF TunerInv

\* Reading the FIC keeps the invariant.
LEMMA ReadFicMemoryInv == TunerInv /\ ReadFicMemory => TunerInv'
  <1> SUFFICES ASSUME TunerInv, ReadFicMemory PROVE TunerInv' OBVIOUS
  <1>1. todo # << >> /\ todo[1].op = "fic" BY TransferIs DEF ReadFicMemory, Transfer
  <1>2. TypeOK' BY DEF ReadFicMemory, Transfer, mainVars, chipVars, TunerInv, TypeOK
  <1>3. ProgramInv' /\ TuningInv'
      BY <1>1, PlainStep DEF ReadFicMemory, Transfer, mainVars, chipVars, Written
  <1> QED BY <1>2, <1>3 DEF TunerInv

\* Reading MSC1 keeps the invariant.
LEMMA ReadMemoryInv == TunerInv /\ ReadMemory => TunerInv'
  <1> SUFFICES ASSUME TunerInv, ReadMemory PROVE TunerInv' OBVIOUS
  <1>1. todo # << >> /\ todo[1].op = "bulk" BY TransferIs DEF ReadMemory, Transfer
  <1>2. memory' \in {memory, {}} /\ delivered' \in {memory, {}} BY DEF ReadMemory
  <1>3. TypeOK' BY <1>2 DEF ReadMemory, Transfer, mainVars, TunerInv, TypeOK
  <1>4. ProgramInv' /\ TuningInv'
      BY <1>1, PlainStep DEF ReadMemory, Transfer, mainVars, Written
  <1> QED BY <1>3, <1>4 DEF TunerInv

\* Killing the program between any two transfers keeps the invariant.
LEMMA KillInv == TunerInv /\ Kill => TunerInv'
  <1> SUFFICES ASSUME TunerInv, Kill PROVE TunerInv' OBVIOUS
  <1>1. TypeOK' BY DEF Kill, chipVars, TunerInv, TypeOK
  <1>2. todo' = << >> /\ call' = "none" /\ page' \in Pages
      BY <1>1 DEF Kill, TypeOK
  <1>3. ProgramInv' BY <1>2, EmptyIs DEF ProgramInv
  <1>4. TuningInv' BY <1>2 DEF TuningInv
  <1> QED BY <1>1, <1>3, <1>4 DEF TunerInv

\* What the chip receives does not touch its registers.
LEMMA ReceiveInv == TunerInv /\ Receive => TunerInv'
  <1> SUFFICES ASSUME TunerInv, Receive PROVE TunerInv' OBVIOUS
  <1>1. UNCHANGED <<call, freq, sub, todo, setOk, page, regs>> BY DEF Receive, mainVars
  <1>2. memory' \subseteq {"requested", "other"} /\ delivered' = {}
      BY DEF Receive, TunerInv, TypeOK
  <1>3. TypeOK' BY <1>1, <1>2 DEF TunerInv, TypeOK
  <1>4. ProgramInv' /\ TuningInv'
      BY <1>1 DEF TunerInv, ProgramInv, TuningInv, TuningSettled, KeepsTuning
  <1> QED BY <1>3, <1>4 DEF TunerInv

\* Polling the power keeps the invariant, whether the chip has powered up or
\* not.
LEMMA PowerUpInv == TunerInv /\ PowerUp => TunerInv'
  <1> SUFFICES ASSUME TunerInv, PowerUp PROVE TunerInv' OBVIOUS
  <1>1. /\ todo # << >> /\ todo[1].op = "power"
        /\ UNCHANGED <<call, freq, sub, setOk, page, regs, memory>> /\ delivered' = {}
      BY TransferIs DEF PowerUp, Transfer, mainVars, chipVars
  <1>2. PICK ok \in BOOLEAN : todo' = Tail(todo) \o (IF ok THEN AfterPowerUp ELSE << >>)
      BY DEF PowerUp
  <1> DEFINE s == IF ok THEN AfterPowerUp ELSE << >>
  <1>3. Routines(s, ClockRegisters, {}) BY AfterPowerUpIs DEF Routines, Pages
  <1>4. Program(todo, page) BY DEF TunerInv, ProgramInv
  <1>5. regs' = Written(todo[1], regs) /\ todo' = Tail(todo) \o s BY <1>1, <1>2 DEF Written
  <1>6. page' = IF todo[1].op = "page" THEN todo[1].page ELSE page BY <1>1
  <1> HIDE DEF s
  <1>7. Program(todo', page') /\ \A o \in Ops \ {} : NoOp(todo, o) => NoOp(todo', o)
      BY <1>1, <1>3, <1>4, <1>5, <1>6, StepIs
  <1>8. ProgramInv' BY <1>1, <1>7 DEF TunerInv, ProgramInv, Ops
  <1>9. call' = "initialize" BY <1>1, TransferIs DEF TunerInv, ProgramInv
  <1>10. TuningInv' BY <1>9 DEF TuningInv
  <1>11. TypeOK' BY <1>1 DEF TunerInv, TypeOK
  <1> QED BY <1>8, <1>10, <1>11 DEF TunerInv

\* If the ADC clock has locked, the PLL is settled at the channel's word.
LEMMA PollLockInv == TunerInv /\ PollLock => TunerInv'
  <1> SUFFICES ASSUME TunerInv, PollLock PROVE TunerInv' OBVIOUS
  <1> DEFINE i == Index(freq)
             pll == PllRegisters(PllNF(PllKHz[i]))
             s == IF setOk' THEN ProgramPll(i) ELSE << >>
             R == {<<"RF", "pll">>}
  <1>1. /\ todo # << >> /\ todo[1].op = "lock"
        /\ UNCHANGED <<call, freq, sub, page, regs, memory>> /\ delivered' = {}
        /\ todo' = Tail(todo) \o s
      BY TransferIs DEF PollLock, Transfer, mainVars, chipVars
  <1>2. setOk' \in BOOLEAN BY DEF PollLock
  <1>3. call = "tuneFrequency" BY <1>1, TransferIs DEF TunerInv, ProgramInv
  <1>4. i \in 1..41 /\ i' = i /\ pll' = pll BY <1>1, TypeIs DEF TunerInv
  <1>5. Routine(ProgramPll(i), "FM", R, {}) /\ LastWrite(ProgramPll(i), "RF", "pll", pll)
      <2> HIDE DEF i
      <2> QED BY <1>4, ProgramPllIs
  <1>6. Routines(s, R, {})
      <2> HIDE DEF R, i
      <2> QED BY <1>5 DEF Routines, Pages
  <1>7. setOk' => LastWrite(s, "RF", "pll", pll) /\ s \in Seq(Transfers)
      <2> HIDE DEF pll, i, R
      <2> QED BY <1>5, OnlyKeeps DEF Routine
  <1> HIDE DEF s, R
  <1>8. Program(todo, page) /\ Tail(todo) \in Seq(Transfers)
      BY <1>1, TransferIs DEF TunerInv, ProgramInv
  <1>9. regs' = Written(todo[1], regs) BY <1>1 DEF Written
  <1>10. page' = IF todo[1].op = "page" THEN todo[1].page ELSE page BY <1>1
  <1>11. /\ Program(todo', page')
         /\ \A o \in Ops \ {} : NoOp(todo, o) => NoOp(todo', o)
         /\ \A x, r : <<x, r>> \in Registers \ R =>
                \A v : Settled(todo, regs, x, r, v) => Settled(todo', regs', x, r, v)
      BY <1>1, <1>6, <1>8, <1>9, <1>10, StepIs
  <1>12. ProgramInv' BY <1>1, <1>3, <1>11 DEF TunerInv, ProgramInv, Ops
  <1>13. /\ <<"RF", "adc">> \in Registers \ R /\ <<"COMM", "6A">> \in Registers \ R
         /\ <<"FM", "nco">> \in Registers \ R
      BY DEF Registers, R
  <1>14. TuningSettled BY <1>3 DEF TunerInv, TuningInv
  <1>15. setOk' => Settled(todo', regs', "RF", "pll", pll)
      <2> HIDE DEF pll
      <2>1. setOk' => LastWrite(todo', "RF", "pll", pll) BY <1>1, <1>7, <1>8, ConcatKeeps
      <2> QED BY <2>1 DEF Settled
  <1>16. TuningSettled'
      <2> DEFINE type == AdcClkType[i]
      <2>1. type' = type BY <1>4
      <2>2. /\ Settled(todo, regs, "RF", "adc", <<type>>)
            /\ Settled(todo, regs, "COMM", "6A", Divider(type))
            /\ Settled(todo, regs, "FM", "nco", <<type>>)
          BY <1>14 DEF TuningSettled
      <2>3. /\ Settled(todo', regs', "RF", "adc", <<type>>)
            /\ Settled(todo', regs', "COMM", "6A", Divider(type))
            /\ Settled(todo', regs', "FM", "nco", <<type>>)
          <3> HIDE DEF type, pll, i
          <3> QED BY <1>11, <1>13, <2>2
      <2> QED BY <1>4, <1>15, <2>1, <2>3 DEF TuningSettled
  <1>17. TuningInv' BY <1>1, <1>3, <1>16 DEF TuningInv
  <1>18. TypeOK' BY <1>1, <1>2 DEF TunerInv, TypeOK
  <1> QED BY <1>12, <1>17, <1>18 DEF TunerInv

\* Whatever the status holds, readData adds routines that write no register
\* that is kept.
LEMMA AnswersIs ==
    ASSUME NEW fic \in {readFic, << >>}, NEW msc \in {clearAndSetupMscMemory, readMsc, << >>}
    PROVE  /\ Routines(fic \o msc, {}, {"bulk"})
           /\ fic \in Seq(Transfers) /\ msc \in Seq(Transfers)
  <1>1. Routines(fic, {}, {"bulk"})
      <2>1. Routine(readFic, "DD", {}, {"bulk"}) BY readFicIs, RoutineMore
      <2> QED BY <2>1 DEF Routines, Pages
  <1>2. Routines(msc, {}, {"bulk"})
      <2>1. Routine(clearAndSetupMscMemory, "DD", {}, {"bulk"}) BY clearIs, RoutineMore
      <2> QED BY <2>1, readMscIs DEF Routines, Pages
  <1>3. readFic \in Seq(Transfers) BY readFicIs, OnlyKeeps DEF Routine
  <1>4. clearAndSetupMscMemory \in Seq(Transfers) BY clearIs, OnlyKeeps DEF Routine
  <1>5. readMsc \in Seq(Transfers) BY readMscIs, OnlyKeeps DEF Routine
  <1>6. << >> \in Seq(Transfers) OBVIOUS
  <1>7. fic \in Seq(Transfers) /\ msc \in Seq(Transfers) BY <1>3, <1>4, <1>5, <1>6
  <1> QED BY <1>1, <1>2, <1>7, RoutinesThen

\* The program after the status has been read.
LEMMA ReadStatusIs ==
    ASSUME TunerInv, ReadStatus
    PROVE  \E s : Routines(s, {}, {"bulk"}) /\ todo' = Tail(todo) \o s
  <1>1. PICK fic \in {readFic, << >>}, msc \in {clearAndSetupMscMemory, readMsc, << >>} :
            todo' = Tail(todo) \o fic \o msc
      BY DEF ReadStatus
  <1>2. /\ Routines(fic \o msc, {}, {"bulk"})
        /\ fic \in Seq(Transfers) /\ msc \in Seq(Transfers)
      BY AnswersIs
  <1>3. Tail(todo) \in Seq(Transfers) BY TransferIs DEF ReadStatus, Transfer
  <1>4. Tail(todo) \o fic \o msc = Tail(todo) \o (fic \o msc)
      <2> DEFINE t == Tail(todo)
      <2> HIDE DEF t
      <2>1. \A a, b, c \in Seq(Transfers) : a \o b \o c = a \o (b \o c) OBVIOUS
      <2> USE DEF t
      <2> QED BY <1>2, <1>3, <2>1
  <1> QED BY <1>1, <1>2, <1>4

\* Reading the status keeps the invariant.
LEMMA ReadStatusInv == TunerInv /\ ReadStatus => TunerInv'
  <1> SUFFICES ASSUME TunerInv, ReadStatus PROVE TunerInv' OBVIOUS
  <1>1. /\ todo # << >> /\ todo[1].op = "status"
        /\ UNCHANGED <<call, freq, sub, setOk, page, regs, memory>> /\ delivered' = {}
      BY TransferIs DEF ReadStatus, Transfer, mainVars, chipVars
  <1>2. PICK s : Routines(s, {}, {"bulk"}) /\ todo' = Tail(todo) \o s BY ReadStatusIs
  <1>3. call = "readData" BY <1>1, TransferIs DEF TunerInv, ProgramInv
  <1>4. regs' = Written(todo[1], regs) BY <1>1 DEF Written
  <1>5. page' = IF todo[1].op = "page" THEN todo[1].page ELSE page BY <1>1
  <1>6. ProgramInv' /\ TuningInv' BY <1>1, <1>2, <1>3, <1>4, <1>5, KeepingStep DEF TunerInv
  <1>7. TypeOK' BY <1>1 DEF TunerInv, TypeOK
  <1> QED BY <1>6, <1>7 DEF TunerInv

\* The invariant is one of every behaviour of the tuner.
THEOREM Invariance == Spec => []TunerInv
  <1>1. ASSUME TunerInv, [Next]_vars PROVE TunerInv'
      <2>1. CASE Initialize BY <1>1, <2>1, InitializeInv
      <2>2. CASE TuneFrequency BY <1>1, <2>2, TuneFrequencyInv
      <2>3. CASE OpenSubChannel BY <1>1, <2>3, OpenSubChannelInv
      <2>4. CASE ReadData BY <1>1, <2>4, ReadDataInv
      <2>5. CASE SwitchPage BY <1>1, <2>5, SwitchPageInv
      <2>6. CASE SetRegister BY <1>1, <2>6, SetRegisterInv
      <2>7. CASE PowerUp BY <1>1, <2>7, PowerUpInv
      <2>8. CASE PollLock BY <1>1, <2>8, PollLockInv
      <2>9. CASE ReadStatus BY <1>1, <2>9, ReadStatusInv
      <2>10. CASE ReadFicMemory BY <1>1, <2>10, ReadFicMemoryInv
      <2>11. CASE ReadMemory BY <1>1, <2>11, ReadMemoryInv
      <2>12. CASE Kill BY <1>1, <2>12, KillInv
      <2>13. CASE Receive BY <1>1, <2>13, ReceiveInv
      <2>14. CASE UNCHANGED vars
          BY <1>1, <2>14 DEF vars, mainVars, chipVars, TunerInv, TypeOK, ProgramInv, TuningInv,
              TuningSettled, KeepsTuning
      <2> QED BY <1>1, <2>1, <2>2, <2>3, <2>4, <2>5, <2>6, <2>7, <2>8, <2>9, <2>10, <2>11,
                 <2>12, <2>13, <2>14 DEF Next, Execute
  <1> QED BY <1>1, InitInv, PTL DEF Spec

\* Every register holds a value of its own, the page is one of the chip's,
\* and a byte delivered is one of those received.
THEOREM TypeCorrect == Spec => []TypeOK
  <1>1. TunerInv => TypeOK BY DEF TunerInv
  <1> QED BY <1>1, Invariance, PTL

\* For all frequencies and sub-channels, every read and write meets the page
\* it was written for, whatever was selected when the program started (every
\* routine of RaonTunerInput calls switchPage before its first access).
THEOREM AccessesOnTheirPages == Spec => []EveryAccessOnItsPage
  <1>1. TunerInv => EveryAccessOnItsPage BY TransferIs DEF EveryAccessOnItsPage
  <1> QED BY <1>1, Invariance, PTL

\* Once setFrequency has returned, what it has settled is what the chip
\* holds.
LEMMA TunedIs == TunerInv => TuneIsComplete
  <1> SUFFICES ASSUME TunerInv, Returned, setOk PROVE Tuned(freq) BY DEF TuneIsComplete
  <1>1. TuningSettled BY DEF TunerInv, TuningInv, Returned
  <1>2. KeepsTuning BY EmptyIs DEF TunerInv, TuningInv, Returned, KeepsTuning
  <1> DEFINE type == AdcClkType[Index(freq)]
             pll == PllRegisters(PllNF(PllKHz[Index(freq)]))
  <1>3. /\ Settled(todo, regs, "RF", "adc", <<type>>)
        /\ Settled(todo, regs, "COMM", "6A", Divider(type))
        /\ Settled(todo, regs, "FM", "nco", <<type>>)
        /\ Settled(todo, regs, "RF", "pll", pll)
      BY <1>1 DEF TuningSettled
  <1>4. /\ regs[<<"RF", "adc">>] = <<type>> /\ regs[<<"COMM", "6A">>] = Divider(type)
        /\ regs[<<"FM", "nco">>] = <<type>> /\ regs[<<"RF", "pll">>] = pll
      <2> HIDE DEF type, pll
      <2> QED BY <1>2, <1>3, SettledIs DEF KeepsTuning
  <1> QED BY <1>4 DEF Tuned

\* For all frequencies and sub-channels, clock, divider, oscillators and PLL
\* are those of the frequency once setFrequency has returned and the clock
\* had locked, wherever programs were killed before.
THEOREM TuningIsComplete == Spec => []TuneIsComplete
  BY TunedIs, Invariance, PTL

\* What has been delivered, and what the memory may hold: before a program reads it,
\* it clears it with the sub-channel set and the chip tuned.
AudioInv ==
    /\ delivered \subseteq {"requested"}
    /\ call = "tuneFrequency" => setOk \/ ~NoOp(todo, "lock")
    /\ call \in {"openSubChannel", "readData"} =>
           setOk /\ Settled(todo, regs, "DD", "3A", <<128 + sub>>)
    /\ call = "openSubChannel" =>
           Clears(todo) \/ (memory \subseteq {"requested"} /\ NoWrite(todo, "DD", "3A"))
    /\ call = "readData" => memory \subseteq {"requested"} /\ NoWrite(todo, "DD", "3A")

\* A transfer that adds nothing which writes register 3A keeps the sub-
\* channel and, once the memory is cleared, what the memory may hold.
LEMMA AudioStep ==
    ASSUME TunerInv, AudioInv, todo # << >>, NEW s, NEW R, NEW O, Routines(s, R, O),
           <<"DD", "3A">> \in Registers \ R,
           todo' = Tail(todo) \o s, regs' = Written(todo[1], regs),
           memory' \in {memory, {}},
           Writes(todo[1], "DD", "48") /\ todo[1].val = << 0 >> => memory' = {},
           UNCHANGED <<call, sub>>, setOk' \/ (setOk' = setOk /\ todo[1].op # "lock"),
           delivered' \subseteq {"requested"}
    PROVE  AudioInv'
  <1>1. Program(todo, page) BY DEF TunerInv, ProgramInv
  <1> DEFINE u == Tail(todo)
             g == Written(todo[1], regs)
  <1>2. /\ Program(u, IF todo[1].op = "page" THEN todo[1].page ELSE page)
        /\ todo[1].op # "lock" /\ ~NoOp(todo, "lock") => ~NoOp(u, "lock")
        /\ NoWrite(todo, "DD", "3A") => NoWrite(u, "DD", "3A")
        /\ \A x, r, v : <<x, r>> \in Registers /\ Settled(todo, regs, x, r, v)
               => Settled(u, g, x, r, v)
      BY <1>1, LeftIs
  <1>3. Settled(todo, regs, "DD", "3A", <<128 + sub>>) => Settled(u, g, "DD", "3A", <<128 + sub>>)
      BY <1>2
  <1>4. Clears(todo) => \/ Clears(u)
                        \/ /\ Writes(todo[1], "DD", "48") /\ todo[1].val = << 0 >>
                           /\ NoWrite(u, "DD", "3A")
      BY <1>1, TailKeeps DEF Program
  <1>5. todo' = u \o s /\ regs' = g OBVIOUS
  <1>6. ~NoOp(u, "lock") => ~NoOp(u \o s, "lock")
      <2>1. CASE s = << >>
          <3>1. u \o s = u BY <1>2, <2>1 DEF Program
          <3> QED BY <3>1
      <2>2. CASE s # << >>
          <3>1. PICK q \in Pages : Routine(s, q, R, O) BY <2>2 DEF Routines
          <3>2. s \in Seq(Transfers) /\ u \in Seq(Transfers)
              BY <1>2, <3>1, OnlyKeeps DEF Routine, Program
          <3> HIDE DEF u
          <3>3. /\ Len(u \o s) = Len(u) + Len(s) /\ Len(u) \in Nat /\ Len(s) \in Nat
                /\ \A j \in 1..Len(u) : (u \o s)[j] = u[j]
              BY <3>2, ConcatIs
          <3>4. ASSUME NEW j \in 1..Len(u), u[j].op = "lock" PROVE ~NoOp(u \o s, "lock")
              <4>1. j \in 1..Len(u \o s) /\ (u \o s)[j] = u[j] BY <3>3
              <4> QED BY <3>4, <4>1 DEF NoOp
          <3> QED BY <3>4 DEF NoOp
      <2> QED BY <2>1, <2>2
  <1> HIDE DEF u, g
  <1>7. /\ NoWrite(u, "DD", "3A") => NoWrite(u \o s, "DD", "3A")
        /\ \A v : Settled(u, g, "DD", "3A", v) => Settled(u \o s, g, "DD", "3A", v)
        /\ Clears(u) => Clears(u \o s)
      BY <1>2, AddedIs
  <1>8. Settled(todo, regs, "DD", "3A", <<128 + sub>>)
            => Settled(todo', regs', "DD", "3A", <<128 + sub>>)
      BY <1>3, <1>5, <1>7
  <1>9. NoWrite(todo, "DD", "3A") => NoWrite(todo', "DD", "3A") BY <1>2, <1>5, <1>7
  <1>10. Clears(todo) => \/ Clears(todo')
                         \/ memory' = {} /\ NoWrite(todo', "DD", "3A")
      BY <1>4, <1>5, <1>7
  <1>11. setOk \/ ~NoOp(todo, "lock") => setOk' \/ ~NoOp(todo', "lock")
      BY <1>2, <1>5, <1>6
  <1>12. memory \subseteq {"requested"} => memory' \subseteq {"requested"} OBVIOUS
  <1>13. setOk => setOk' OBVIOUS
  <1> QED BY <1>8, <1>9, <1>10, <1>11, <1>12, <1>13 DEF AudioInv

\* So does a transfer that is neither a write nor the poll of the lock.
LEMMA AudioPlainStep ==
    ASSUME TunerInv, AudioInv, todo # << >>, todo[1].op \notin {"set", "lock"},
           todo' = Tail(todo), memory' \in {memory, {}},
           UNCHANGED <<call, sub, setOk, regs>>, delivered' \subseteq {"requested"}
    PROVE  AudioInv'
  <1>1. todo' = Tail(todo) \o << >> /\ Routines(<< >>, {}, {}) BY TransferIs
  <1>2. <<"DD", "3A">> \in Registers \ {} BY DEF Registers
  <1>3. regs' = Written(todo[1], regs) /\ ~Writes(todo[1], "DD", "48") BY DEF Written, Writes
  <1> QED BY <1>1, <1>2, <1>3, AudioStep

\* Nothing has been delivered before the first program starts.
LEMMA AudioInit == Init => AudioInv
  BY DEF Init, AudioInv

\* Nothing is delivered while a program starts, or once it is killed.
LEMMA AudioStart ==
    ASSUME call' \in {"none", "initialize"}, delivered' = {}
    PROVE  AudioInv'
  BY DEF AudioInv

\* The poll of the lock is still to come.
LEMMA AudioTuneFrequency == TunerInv /\ TuneFrequency => AudioInv'
  <1> SUFFICES ASSUME TunerInv, TuneFrequency PROVE AudioInv' OBVIOUS
  <1> DEFINE type == AdcClkType[Index(freq)]
  <1>1. type \in {8000, 8192, 9600} BY TypeIs DEF TunerInv
  <1>2. todo' = changedAdcClock(type) /\ call' = "tuneFrequency" /\ delivered' = {}
      BY DEF TuneFrequency, Call
  <1> HIDE DEF type
  <1>3. ~NoOp(todo', "lock") BY <1>1, <1>2, changedAdcClockIs
  <1> QED BY <1>2, <1>3 DEF AudioInv

\* openSubChannel is called once the clock has locked; it clears the memory
\* after its last write of register 3A.
LEMMA AudioOpenSubChannel == TunerInv /\ AudioInv /\ OpenSubChannel => AudioInv'
  <1> SUFFICES ASSUME TunerInv, AudioInv, OpenSubChannel PROVE AudioInv' OBVIOUS
  <1>1. /\ call = "tuneFrequency" /\ todo = << >> /\ call' = "openSubChannel"
        /\ todo' = openSubChannel(sub) /\ UNCHANGED <<sub, setOk, regs>> /\ delivered' = {}
      BY DEF OpenSubChannel, Call, chipVars
  <1>2. setOk BY <1>1, EmptyIs DEF AudioInv
  <1>3. sub \in SubChannels BY DEF TunerInv, TypeOK
  <1>4. LastWrite(todo', "DD", "3A", <<128 + sub>>) /\ Clears(todo')
      BY <1>1, <1>3, openSubChannelIs
  <1>5. Settled(todo', regs', "DD", "3A", <<128 + sub>>) BY <1>4 DEF Settled
  <1> QED BY <1>1, <1>2, <1>4, <1>5 DEF AudioInv

\* readData finds a memory that holds only what was asked for.
LEMMA AudioReadData == TunerInv /\ AudioInv /\ ReadData => AudioInv'
  <1> SUFFICES ASSUME TunerInv, AudioInv, ReadData PROVE AudioInv' OBVIOUS
  <1>1. /\ call \in {"openSubChannel", "readData"} /\ todo = << >> /\ call' = "readData"
        /\ todo' = <<switchPage("DD"), Read("status", "DD")>>
        /\ UNCHANGED <<sub, setOk, regs, memory>> /\ delivered' = {}
      BY DEF ReadData, Call, chipVars
  <1>2. "DD" \in Pages /\ <<"DD", "3A">> \in Registers \ {} BY DEF Pages, Registers
  <1>3. Routine(todo', "DD", {}, {"status"}) BY <1>1, <1>2, PageRead
  <1>4. /\ NoWrite(todo', "DD", "3A")
        /\ \A g, v : g[<<"DD", "3A">>] = v => Settled(todo', g, "DD", "3A", v)
      BY <1>2, <1>3, StartIs
  <1>5. memory \subseteq {"requested"} BY <1>1, EmptyIs DEF AudioInv
  <1>6. regs[<<"DD", "3A">>] = <<128 + sub>>
      <2>1. Settled(todo, regs, "DD", "3A", <<128 + sub>>) /\ NoWrite(todo, "DD", "3A")
          BY <1>1, EmptyIs DEF AudioInv
      <2> QED BY <2>1, SettledIs
  <1>7. Settled(todo', regs', "DD", "3A", <<128 + sub>>) BY <1>1, <1>4, <1>6
  <1> QED BY <1>1, <1>4, <1>5, <1>7 DEF AudioInv

\* Once the memory is cleared for good, register 3A is the one asked for.
LEMMA AudioSetRegister == TunerInv /\ AudioInv /\ SetRegister => AudioInv'
  <1> SUFFICES ASSUME TunerInv, AudioInv, SetRegister PROVE AudioInv' OBVIOUS
  <1>1. /\ todo # << >> /\ todo[1].op = "set" /\ Head(todo) = todo[1]
        /\ todo[1].page = page
      BY TransferIs DEF SetRegister, Transfer
  <1>2. regs' = Written(todo[1], regs) BY <1>1 DEF SetRegister, Written
  <1>3. /\ memory' \in {memory, {}}
        /\ Writes(todo[1], "DD", "48") /\ todo[1].val = << 0 >> => memory' = {}
      BY <1>1 DEF SetRegister, Writes
  <1>4. todo' = Tail(todo) /\ UNCHANGED <<call, sub, setOk>> /\ delivered' = {}
      BY DEF SetRegister, Transfer, mainVars
  <1>5. todo' = Tail(todo) \o << >> /\ Routines(<< >>, {}, {}) BY <1>1, <1>4, TransferIs
  <1>6. <<"DD", "3A">> \in Registers \ {} BY DEF Registers
  <1> QED BY <1>1, <1>2, <1>3, <1>4, <1>5, <1>6, AudioStep

\* Nothing is delivered while a program starts up.
LEMMA AudioPowerUp == TunerInv /\ PowerUp => AudioInv'
  <1> SUFFICES ASSUME TunerInv, PowerUp PROVE AudioInv' OBVIOUS
  <1>1. todo # << >> /\ todo[1].op = "power" BY TransferIs DEF PowerUp, Transfer
  <1>2. call' = "initialize" /\ delivered' = {}
      BY <1>1, TransferIs DEF PowerUp, Transfer, mainVars, TunerInv, ProgramInv
  <1> QED BY <1>2, AudioStart

\* Where the clock cannot fail to lock, the lock is known once it is polled.
LEMMA AudioPollLock == AdcMayFail = FALSE /\ TunerInv /\ AudioInv /\ PollLock => AudioInv'
  <1> SUFFICES ASSUME AdcMayFail = FALSE, TunerInv, AudioInv, PollLock PROVE AudioInv' OBVIOUS
  <1>1. todo # << >> /\ todo[1].op = "lock" BY TransferIs DEF PollLock, Transfer
  <1>2. setOk' /\ call = "tuneFrequency" /\ call' = call /\ delivered' = {}
      BY <1>1, TransferIs DEF PollLock, Transfer, mainVars, TunerInv, ProgramInv
  <1> QED BY <1>2 DEF AudioInv

\* What readData does on a status changes no sub-channel.
LEMMA AudioReadStatus == TunerInv /\ AudioInv /\ ReadStatus => AudioInv'
  <1> SUFFICES ASSUME TunerInv, AudioInv, ReadStatus PROVE AudioInv' OBVIOUS
  <1>1. /\ todo # << >> /\ todo[1].op = "status"
        /\ UNCHANGED <<call, sub, setOk, regs, memory>> /\ delivered' = {}
      BY TransferIs DEF ReadStatus, Transfer, mainVars, chipVars
  <1>2. PICK s : Routines(s, {}, {"bulk"}) /\ todo' = Tail(todo) \o s BY ReadStatusIs
  <1>3. <<"DD", "3A">> \in Registers \ {} BY DEF Registers
  <1>4. regs' = Written(todo[1], regs) /\ ~Writes(todo[1], "DD", "48") BY <1>1 DEF Written, Writes
  <1> QED BY <1>1, <1>2, <1>3, <1>4, AudioStep

\* What readData delivers is what the memory held.
LEMMA AudioReadMemory == TunerInv /\ AudioInv /\ ReadMemory => AudioInv'
  <1> SUFFICES ASSUME TunerInv, AudioInv, ReadMemory PROVE AudioInv' OBVIOUS
  <1>1. /\ todo # << >> /\ todo[1].op = "bulk" /\ todo' = Tail(todo)
        /\ UNCHANGED <<call, sub, setOk, regs>>
      BY TransferIs DEF ReadMemory, Transfer, mainVars
  <1>2. memory' \in {memory, {}} /\ delivered' \in {memory, {}} BY DEF ReadMemory
  <1>3. call = "readData" BY <1>1, TransferIs DEF TunerInv, ProgramInv
  <1>4. memory \subseteq {"requested"} BY <1>3 DEF AudioInv
  <1> QED BY <1>1, <1>2, <1>4, AudioPlainStep

\* What is received once the program writes register 3A no more is what was
\* asked for.
LEMMA AudioReceive == TunerInv /\ AudioInv /\ Receive => AudioInv'
  <1> SUFFICES ASSUME TunerInv, AudioInv, Receive PROVE AudioInv' OBVIOUS
  <1>1. UNCHANGED <<call, sub, todo, setOk, regs>> /\ delivered' = {} BY DEF Receive, mainVars
  <1>2. ASSUME call \in {"openSubChannel", "readData"}, NoWrite(todo, "DD", "3A"),
               memory \subseteq {"requested"}
        PROVE  memory' \subseteq {"requested"}
      <2>1. regs[<<"DD", "3A">>] = <<128 + sub>> BY <1>2, SettledIs DEF AudioInv
      <2>2. Tuned(freq) BY <1>2, TunedIs DEF AudioInv, TuneIsComplete, Returned
      <2>3. memory' = memory \cup {"requested"} BY <2>1, <2>2 DEF Receive
      <2> QED BY <1>2, <2>3
  <1> QED BY <1>1, <1>2 DEF AudioInv

\* If the ADC clock never fails to lock, the observer gets bytes of the sub-
\* channel and the frequency asked for only, for all of them: openSubChannel
\* clears the MSC memory after it has written the sub-channel
\* (src/raon_tuner.cpp, openSubChannel and clearAndSetupMscMemory).
THEOREM AudioOnlyRequested ==
    ASSUME AdcMayFail = FALSE
    PROVE  Spec => []AudioIsRequested
  <1>1. ASSUME TunerInv, AudioInv, [Next]_vars PROVE AudioInv'
      <2>1. CASE Initialize BY <2>1, AudioStart DEF Initialize, Call
      <2>2. CASE TuneFrequency BY <1>1, <2>2, AudioTuneFrequency
      <2>3. CASE OpenSubChannel BY <1>1, <2>3, AudioOpenSubChannel
      <2>4. CASE ReadData BY <1>1, <2>4, AudioReadData
      <2>5. CASE SwitchPage
          <3>1. todo # << >> /\ todo[1].op = "page"
              BY <1>1, <2>5, TransferIs DEF SwitchPage, Transfer
          <3> QED BY <1>1, <2>5, <3>1, AudioPlainStep DEF SwitchPage, Transfer, mainVars
      <2>6. CASE SetRegister BY <1>1, <2>6, AudioSetRegister
      <2>7. CASE PowerUp BY <1>1, <2>7, AudioPowerUp
      <2>8. CASE PollLock BY <1>1, <2>8, AudioPollLock
      <2>9. CASE ReadStatus BY <1>1, <2>9, AudioReadStatus
      <2>10. CASE ReadFicMemory
          <3>1. todo # << >> /\ todo[1].op = "fic"
              BY <1>1, <2>10, TransferIs DEF ReadFicMemory, Transfer
          <3> QED BY <1>1, <2>10, <3>1, AudioPlainStep
                  DEF ReadFicMemory, Transfer, mainVars, chipVars
      <2>11. CASE ReadMemory BY <1>1, <2>11, AudioReadMemory
      <2>12. CASE Kill BY <2>12, AudioStart DEF Kill
      <2>13. CASE Receive BY <1>1, <2>13, AudioReceive
      <2>14. CASE UNCHANGED vars BY <1>1, <2>14 DEF vars, mainVars, chipVars, AudioInv
      <2> QED BY <1>1, <2>1, <2>2, <2>3, <2>4, <2>5, <2>6, <2>7, <2>8, <2>9, <2>10, <2>11,
                 <2>12, <2>13, <2>14 DEF Next, Execute
  <1>2. AudioInv => AudioIsRequested BY DEF AudioInv, AudioIsRequested
  <1> QED BY <1>1, <1>2, AudioInit, Invariance, PTL DEF Spec

\* The scanner's frequency of each channel selects that channel in the
\* tables (setFrequency: the index is computed, the three extra channels are
\* counted in).
THEOREM EveryChannelFound == \A c \in 1..41 : Index(DAB_FREQUENCIES[c]) = c
  <1> SUFFICES ASSUME NEW c \in 1..41 PROVE Index(DAB_FREQUENCIES[c]) = c
      OBVIOUS
  <1>1. CASE c \in 1..10 BY <1>1, SMTT(60) DEF Index, DAB_FREQUENCIES, PllKHz
  <1>2. CASE c \in 11..20 BY <1>2, SMTT(60) DEF Index, DAB_FREQUENCIES, PllKHz
  <1>3. CASE c \in 21..30 BY <1>3, SMTT(60) DEF Index, DAB_FREQUENCIES, PllKHz
  <1>4. CASE c \in 31..41 BY <1>4, SMTT(60) DEF Index, DAB_FREQUENCIES, PllKHz
  <1> QED BY <1>1, <1>2, <1>3, <1>4

\* The scanner's frequency of a channel is nearest to the tables' one of
\* this channel.
LEMMA NearestIs ==
    \A c, d \in 1..41 :
        Distance(PllKHz[c], DAB_FREQUENCIES[c]) <= Distance(PllKHz[d], DAB_FREQUENCIES[c])
  <1> SUFFICES ASSUME NEW c \in 1..41, NEW d \in 1..41
               PROVE  Distance(PllKHz[c], DAB_FREQUENCIES[c])
                          <= Distance(PllKHz[d], DAB_FREQUENCIES[c])
      OBVIOUS
  <1>1. PllKHz[c] \in Nat /\ PllKHz[d] \in Nat BY DEF PllKHz
  <1>2. CASE c # 27
      <2>1. DAB_FREQUENCIES[c] = PllKHz[c] BY <1>2 DEF DAB_FREQUENCIES, PllKHz
      <2> QED BY <1>1, <2>1 DEF Distance
  <1>3. CASE c = 27
      <2>1. DAB_FREQUENCIES[27] = 217008 /\ PllKHz[27] = 217088 BY DEF DAB_FREQUENCIES, PllKHz
      <2>2. PllKHz[d] <= 216928 \/ PllKHz[d] >= 217088
          <3>1. CASE d \in 1..20 BY <3>1, SMTT(60) DEF PllKHz
          <3>2. CASE d \in 21..41 BY <3>2, SMTT(60) DEF PllKHz
          <3> QED BY <3>1, <3>2
      <2> QED BY <1>1, <1>3, <2>1, <2>2 DEF Distance
  <1> QED BY <1>2, <1>3

\* Called with a frequency of the scanner's table, as the playlist has it,
\* the tuner programs the PLL word of the channel nearest to it.
THEOREM NearestChannelSelected ==
    ASSUME Frequencies \subseteq {DAB_FREQUENCIES[c] : c \in 1..41}
    PROVE  Spec => []NearestChannel
  <1>1. ASSUME TunerInv, Returned, setOk
        PROVE  \E c \in 1..41 :
                   /\ regs[<<"RF", "pll">>] = PllRegisters(PllNF(PllKHz[c]))
                   /\ \A d \in 1..41 : Distance(PllKHz[c], freq) <= Distance(PllKHz[d], freq)
      <2>1. PICK c \in 1..41 : freq = DAB_FREQUENCIES[c] BY <1>1 DEF TunerInv, TypeOK
      <2>2. Index(freq) = c BY <2>1, EveryChannelFound
      <2>3. Tuned(freq) BY <1>1, TunedIs DEF TuneIsComplete
      <2>4. regs[<<"RF", "pll">>] = PllRegisters(PllNF(PllKHz[c])) BY <2>2, <2>3 DEF Tuned
      <2> QED BY <2>1, <2>4, NearestIs
  <1>2. TunerInv => NearestChannel BY <1>1 DEF NearestChannel
  <1> QED BY <1>2, Invariance, PTL

=============================================================================
