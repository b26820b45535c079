------------------------------- MODULE Tuner -------------------------------
(***************************************************************************)
(* RaonTunerInput (src/raon_tuner.cpp) and the programs that drive it: the *)
(* chip is programmed one USB transfer at a time, its registers lie in     *)
(* pages, and a program may be killed between any two transfers; what the  *)
(* chip holds then meets the next program.  A routine of the class is the  *)
(* sequence of its transfers; each action executes one of them.            *)
(*                                                                         *)
(* Registers no other routine reads or depends on are left out; those that *)
(* are always written together are one.  Of the chip is modelled what the  *)
(* code relies on: a write goes to the register in the page selected last, *)
(* and the MSC memory fills with what is received until it is cleared.     *)
(***************************************************************************)
EXTENDS Naturals, Sequences

CONSTANTS
    Frequencies, \* kHz: what dab_mp2 and dab_aac are called with
    SubChannels, \* the sub-channels they are called with
    AdcMayFail   \* whether the ADC clock may fail to lock

-----------------------------------------------------------------------------
(* The tables of raon_tuner.h, in the order of the channels 5A to 13F. *)

\* The frequencies of g_atPllNF_DAB_BAND3, in kHz.
PllKHz ==
    <<174928, 176640, 178352, 180064, 181936, 183648, 185360, 187072, 188928,
      190640, 192352, 194064, 195936, 197648, 199360, 201072, 202928, 204640,
      206352, 208064, 209936, 210096, 211648, 213360, 215072, 216928, 217088,
      218640, 220352, 222064, 223936, 224096, 225648, 227360, 229072, 230784,
      232496, 234208, 235776, 237488, 239200>>

\* DAB_FREQUENCIES of the scanner: the same, but for channel 11N.
DAB_FREQUENCIES == [PllKHz EXCEPT ![27] = 217008]

\* g_atPllNF_DAB_BAND3: every entry is this function of its frequency.
PllNF(kHz) == ((kHz + 30) * 1024) \div 3

\* g_aeAdcClkTypeTbl_DAB_B3, the sampling clock in kHz.
AdcClkType ==
    LET low == {9, 13, 16, 18, 24, 30, 32, 33, 35, 38, 40}
        high == {2, 4, 6, 20, 26}
    IN  [i \in 1..41 |-> IF i \in low THEN 8000 ELSE IF i \in high THEN 9600
                         ELSE 8192]

\* Broken on purpose (see the mutants of PROJECT.json): 12N is left out.
IndexWithout12N(kHz) ==
    1 + (kHz - 174928) \div 1712
      + (IF kHz >= 217008 THEN 2 ELSE IF kHz >= 210096 THEN 1 ELSE 0)

\* The table index (from 1) of setFrequency: channels are 1712 kHz apart, but for
\* 10N, 11N and 12N, which lie just above 10A, 11A and 12A.
Index(kHz) ==
    1 + (kHz - 174928) \div 1712
      + (IF kHz >= 224096 THEN 3 ELSE IF kHz >= 217008 THEN 2
         ELSE IF kHz >= 210096 THEN 1 ELSE 0)

ASSUME FrequenciesAssumption ==
    \A f \in Frequencies : f \in Nat /\ f >= 174928 /\ Index(f) \in 1..41

\* Broken on purpose: & 0xFF forgotten.
PllUnmasked(w) == <<w \div 2^22, w \div 2^14, w \div 2^5, 4 * (w % 2^6) + 1>>

\* The four registers the word is spread over, as setFrequency does it.
PllRegisters(w) ==
    <<(w \div 2^22) % 256, (w \div 2^14) % 256, (w \div 2^5) % 256,
      4 * (w % 2^6) + 1>>

-----------------------------------------------------------------------------
(* Transfers. *)

Pages == {"RF", "COMM", "FM", "HOST", "DD", "FIC", "MSC1"}

\* The registers kept: the ADC clock (RF E8-EE), the PLL (RF 23-26), the clock
\* divider (COMM 6A), the oscillators that depend on the clock (FM 3C-43) and the
\* sub-channel (DD 3A).
Registers ==
    {<<"RF", "adc">>, <<"RF", "pll">>, <<"COMM", "6A">>, <<"FM", "nco">>,
     <<"DD", "3A">>}

\* What a group of registers holds that is not written, or not all of it.
Half == << >>

switchPage(p) == [op |-> "page", page |-> p]
setRegister(p, r, v) == [op |-> "set", page |-> p, reg |-> r, val |-> v]
Read(what, p) == [op |-> what, page |-> p]
SetAll(p, r, v) == <<setRegister(p, r, Half), setRegister(p, r, v)>>

\* What depends on the clock, in initialize and in changedAdcClock.
Divider(type) == IF type = 9600 THEN <<49>> ELSE <<1>>

\* Broken on purpose: the divider is written for 9.6 MHz only.
KeepsDivider(type) ==
    (IF type = 9600 THEN <<switchPage("COMM"), setRegister("COMM", "6A", Divider(type))>>
     ELSE << >>)
        \o <<switchPage("FM")>> \o SetAll("FM", "nco", <<type>>)

Oscillators(type) ==
    <<switchPage("COMM"), setRegister("COMM", "6A", Divider(type)),
      switchPage("FM")>> \o SetAll("FM", "nco", <<type>>)

\* The lock of the ADC clock is polled and not acted upon.
configureAddClock == <<switchPage("RF")>> \o SetAll("RF", "adc", <<8000>>)

tdmbInitOfdm == Oscillators(8000)

\* Writes register E9 of the ADC clock again, the same value in the end.
rtvRFInitilize == <<switchPage("RF")>> \o SetAll("RF", "adc", <<8000>>)

setupMemoryFIC ==
    <<switchPage("DD"), setRegister("DD", "46", <<20>>), setRegister("DD", "46", <<22>>)>>

\* initialize, once the chip has powered up.
AfterPowerUp == configureAddClock \o tdmbInitOfdm \o rtvRFInitilize \o setupMemoryFIC

changedAdcClock(type) ==
    <<switchPage("RF")>> \o SetAll("RF", "adc", <<type>>)
        \o <<Read("lock", "RF")>> \o Oscillators(type)

\* Broken on purpose: the page selected by changedAdcClock is kept.
PllOnSamePage(i) ==
    SetAll("RF", "pll", PllRegisters(PllNF(PllKHz[i])))
        \o <<switchPage("FM"), setRegister("FM", "10", <<72>>),
             setRegister("FM", "10", <<201>>)>>

\* The rest of setFrequency, if the clock has locked.
ProgramPll(i) ==
    <<switchPage("RF")>> \o SetAll("RF", "pll", PllRegisters(PllNF(PllKHz[i])))
        \o <<switchPage("FM"), setRegister("FM", "10", <<72>>),
             setRegister("FM", "10", <<201>>)>>

clearAndSetupMscMemory ==
    <<switchPage("DD"), setRegister("DD", "48", <<0>>), setRegister("DD", "48", <<5>>)>>

\* Broken on purpose: the memory is cleared first.
OpenAfterClear(id) ==
    clearAndSetupMscMemory
        \o <<setRegister("DD", "35", <<112>>), switchPage("HOST"),
             setRegister("HOST", "62", <<0>>), switchPage("DD"),
             setRegister("DD", "3A", <<128 + id>>)>>

openSubChannel(id) ==
    <<switchPage("DD"), setRegister("DD", "35", <<112>>), switchPage("HOST"),
      setRegister("HOST", "62", <<0>>), switchPage("DD"),
      setRegister("DD", "3A", <<128 + id>>)>> \o clearAndSetupMscMemory

\* readData where the FIC has an interrupt: dab_mp2 and dab_aac have no observer for
\* it, what dab_scan does with it is in DabScanner.
readFic ==
    <<switchPage("FIC"), Read("fic", "FIC"), switchPage("DD"),
      setRegister("DD", "35", <<1>>)>>

\* Where MSC1 has one.
readMsc ==
    <<switchPage("MSC1"), Read("bulk", "MSC1"), switchPage("DD"),
      setRegister("DD", "35", <<4>>)>>

-----------------------------------------------------------------------------

VARIABLES
    call,      \* the last call main made; "none" if no program runs
    todo,      \* the transfers left of it
    freq, sub, \* what main was called with
    setOk,     \* whether the ADC clock has locked
    page,      \* the register page selected
    regs,      \* what the chip's registers hold
    memory,    \* whether MSC1 holds bytes "requested" by main, and "other" bytes
    delivered  \* what the last step gave to the observer, in the same terms

mainVars == <<call, freq, sub>>
chipVars == <<page, regs, memory>>
vars == <<mainVars, todo, setOk, chipVars, delivered>>

Init ==
    /\ call = "none"
    /\ todo = << >>
    /\ freq \in Frequencies
    /\ sub \in SubChannels
    /\ setOk = FALSE
    /\ page \in Pages
    /\ regs = [r \in Registers |-> Half]
    /\ memory = {}
    /\ delivered = {}

\* main makes its next call.
Call(before, next, transfers) ==
    /\ call \in before
    /\ todo = << >>
    /\ call' = next
    /\ todo' = transfers
    /\ delivered' = {}

\* A program starts; whatever is in the chip was not received for it.
Initialize ==
    /\ Call({"none"}, "initialize", <<switchPage("HOST"), Read("power", "HOST")>>)
    /\ freq' \in Frequencies
    /\ sub' \in SubChannels
    /\ memory' = IF memory = {} THEN {} ELSE {"other"}
    /\ UNCHANGED <<setOk, page, regs>>

TuneFrequency ==
    /\ Call({"initialize"}, "tuneFrequency", changedAdcClock(AdcClkType[Index(freq)]))
    /\ setOk' = FALSE
    /\ UNCHANGED <<freq, sub, chipVars>>

OpenSubChannel ==
    /\ Call({"tuneFrequency"}, "openSubChannel", openSubChannel(sub))
    /\ UNCHANGED <<freq, sub, setOk, chipVars>>

ReadData ==
    /\ Call({"openSubChannel", "readData"}, "readData",
            <<switchPage("DD"), Read("status", "DD")>>)
    /\ UNCHANGED <<freq, sub, setOk, chipVars>>

Transfer(op) ==
    /\ todo # << >>
    /\ Head(todo).op = op
    /\ UNCHANGED mainVars

SwitchPage ==
    /\ Transfer("page")
    /\ page' = Head(todo).page
    /\ todo' = Tail(todo)
    /\ delivered' = {}
    /\ UNCHANGED <<setOk, regs, memory>>

\* The write goes where the chip's page is, wherever it was meant to go.
SetRegister ==
    /\ Transfer("set")
    /\ LET written == <<page, Head(todo).reg>>
           val == Head(todo).val
       IN  /\ regs' = [r \in Registers |-> IF r = written THEN val ELSE regs[r]]
           /\ memory' = IF written = <<"DD", "48">> /\ val = <<0>> THEN {} ELSE memory
    /\ todo' = Tail(todo)
    /\ delivered' = {}
    /\ UNCHANGED <<setOk, page>>

\* tunerPowerUp gives up after 100 attempts; the program goes on all the same.
PowerUp ==
    /\ Transfer("power")
    /\ \E ok \in BOOLEAN :
           todo' = Tail(todo) \o (IF ok THEN AfterPowerUp ELSE << >>)
    /\ delivered' = {}
    /\ UNCHANGED <<setOk, chipVars>>

\* Ten attempts to read a locked ADC clock.
PollLock ==
    /\ Transfer("lock")
    /\ setOk' \in (IF AdcMayFail THEN BOOLEAN ELSE {TRUE})
    /\ todo' = Tail(todo) \o (IF setOk' THEN ProgramPll(Index(freq)) ELSE << >>)
    /\ delivered' = {}
    /\ UNCHANGED chipVars

\* The FIC comes first; of MSC1, overrun and underrun before the interrupt.
ReadStatus ==
    /\ Transfer("status")
    /\ \E fic \in {readFic, << >>}, msc \in {clearAndSetupMscMemory, readMsc, << >>} :
           todo' = Tail(todo) \o fic \o msc
    /\ delivered' = {}
    /\ UNCHANGED <<setOk, chipVars>>

ReadFicMemory ==
    /\ Transfer("fic")
    /\ todo' = Tail(todo)
    /\ delivered' = {}
    /\ UNCHANGED <<setOk, chipVars>>

\* A failed transfer delivers nothing; some bytes may stay in the memory.
ReadMemory ==
    /\ Transfer("bulk")
    /\ delivered' \in (IF page = "MSC1" THEN {memory, {}} ELSE {{}})
    /\ memory' \in {memory, {}}
    /\ todo' = Tail(todo)
    /\ UNCHANGED <<setOk, page, regs>>

Execute ==
    \/ SwitchPage \/ SetRegister \/ PowerUp \/ PollLock
    \/ ReadStatus \/ ReadFicMemory \/ ReadMemory

Kill ==
    /\ call # "none"
    /\ call' = "none"
    /\ todo' = << >>
    /\ delivered' = {}
    /\ UNCHANGED <<freq, sub, setOk, chipVars>>

\* What the chip must hold to receive on frequency f.
Tuned(f) ==
    LET i == Index(f)
    IN  /\ regs[<<"RF", "pll">>] = PllRegisters(PllNF(PllKHz[i]))
        /\ regs[<<"RF", "adc">>] = <<AdcClkType[i]>>
        /\ regs[<<"FM", "nco">>] = <<AdcClkType[i]>>
        /\ regs[<<"COMM", "6A">>] = Divider(AdcClkType[i])

\* Bytes arrive once a sub-channel has been set.
Receive ==
    /\ regs[<<"DD", "3A">>] # Half
    /\ memory' = memory \cup
           {IF Tuned(freq) /\ regs[<<"DD", "3A">>] = <<128 + sub>>
            THEN "requested" ELSE "other"}
    /\ delivered' = {}
    /\ UNCHANGED <<mainVars, todo, setOk, page, regs>>

Next ==
    \/ Initialize \/ TuneFrequency \/ OpenSubChannel \/ ReadData
    \/ Execute \/ Kill \/ Receive

Spec == Init /\ [][Next]_vars

-----------------------------------------------------------------------------

PllBytes == [1..4 -> 0..255]
Clocks == {<<8000>>, <<8192>>, <<9600>>}

TypeOK ==
    /\ call \in {"none", "initialize", "tuneFrequency", "openSubChannel", "readData"}
    /\ freq \in Frequencies /\ sub \in SubChannels
    /\ setOk \in BOOLEAN
    /\ page \in Pages
    /\ regs[<<"RF", "pll">>] \in PllBytes \cup {Half}
    /\ regs[<<"RF", "adc">>] \in Clocks \cup {Half}
    /\ regs[<<"FM", "nco">>] \in Clocks \cup {Half}
    /\ regs[<<"COMM", "6A">>] \in {<<1>>, <<49>>, Half}
    /\ regs[<<"DD", "3A">>] \in {<<128 + s>> : s \in SubChannels} \cup {Half}
    /\ memory \subseteq {"requested", "other"}
    /\ delivered \subseteq {"requested", "other"}

\* setFrequency has returned.
Returned ==
    \/ call = "tuneFrequency" /\ todo = << >>
    \/ call \in {"openSubChannel", "readData"}

Distance(a, b) == IF a < b THEN b - a ELSE a - b

\* Every access meets the page it was written for, whatever was selected when the
\* program started or the routine was called.
EveryAccessOnItsPage ==
    todo # << >> /\ Head(todo).op # "page" => page = Head(todo).page

\* Once tuned, the PLL holds the word of the channel nearest to the frequency that
\* was asked for, though the index is computed from a raster the channels past 10N,
\* 11N and 12N do not keep to.
NearestChannel ==
    Returned /\ setOk
        => \E c \in 1..41 :
               /\ regs[<<"RF", "pll">>] = PllRegisters(PllNF(PllKHz[c]))
               /\ \A d \in 1..41 : Distance(PllKHz[c], freq) <= Distance(PllKHz[d], freq)

\* Once setFrequency has returned and the ADC clock had locked, clock, divider,
\* oscillators and PLL are all those of the frequency, wherever the programs
\* before were killed and whether the chip has powered up or not.
TuneIsComplete == Returned /\ setOk => Tuned(freq)

\* The observer never gets a byte of another sub-channel or frequency, neither of
\* those a program before has left in the chip nor of those received while this
\* one was tuning.
AudioIsRequested == delivered \subseteq {"requested"}

\* The chip receives the very frequency asked for.
ReceivesRequested ==
    Returned /\ setOk => regs[<<"RF", "pll">>] = PllRegisters(PllNF(freq))

=============================================================================
