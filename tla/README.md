# dab-radio in TLA+

A verification project for dab-radio, a DAB and DAB+ receiver for Linux. It scans the DAB band with a
USB stick (a Raontech tuner), writes the stations it has found into a playlist, and plays a station by
tuning to it and writing its audio to standard output. The modules here are translated from the
sources in `src/`; `PROJECT.json` maps each definition to the lines it stands for.

## 1. The system

    dab_scan:                                             dab_mp2 / dab_aac:

      DabScanner --tuneFrequency, readData--> RaonTunerInput <--initialize, tuneFrequency,-- main
        |  ^  ^                                     |   |         openSubChannel, readData
        |  |  +------------- ficData ---------------+   |
        |  |                                            +--mscData--> stdout (dab_mp2)
     Process, Reset                                     |
        v  | FICChangeService, FICChangeEnsemble        +--mscData--> DabPlusServiceComponentDecoder
      FICDecoder                                                      (dab_aac) --> LATM on stdout
        
      DabScanner --serviceFound--> M3UWriter --> dab.m3u --> dab_mpegts --> dab_mp2 or dab_aac

Every program has one thread; callbacks run inside the call that causes them. What makes the system
hard is not parallelism but order: entries, bytes and programs come in whatever order the broadcaster,
the USB transfers and the user make, and state is spread over objects that copy it from each other.

| Component | State | Operations | What must be right |
|---|---|---|---|
| FIC decoder (`fic_decoder.*`) | services, sub-channels, ensemble, time of one ensemble | one handler for each of 13 kinds of FIG, `Reset` | the database does not depend on order or repetition of what is sent; observers learn every change and no repetition; `at()` never throws |
| Scanner (`dab_scanner.*`, `dab_scan.cpp`) | services as last reported, ensemble name, count of quiet reads | the scan loop, two observer callbacks, `ficData` | its copies agree with the decoder; nothing is carried over to another frequency; the scan ends |
| Playlist writer (`m3u_writer.*`) | the open file | `serviceFound` | a line is about a service of its frequency and says how to play it |
| Tuner (`raon_tuner.*`) | registers of the chip in pages, the MSC memory | `initialize`, `tuneFrequency`, `openSubChannel`, `readData` | registers are written in their pages; tuning is complete; only what was asked for is delivered |
| Playing programs (`dab_mp2.cpp`, `dab_aac.cpp`, `dab_mpegts`) | none of their own | calls in a fixed order, then reading for ever | may be killed at any point: the next one must not suffer |
| DAB+ super frames (`dabplus_decoder.*`) | bytes left over, two flags, two counts, the super frame collected | `componentDataInput`, `synchronizeData`, `processData` | both counting loops fall into step with the transmission and stay there |
| DAB+ access units, Reed-Solomon (`dabplus_decoder.*`, `fec/`) | AU starts and lengths, the bytes of one super frame | correct, split, check, cut off PAD, wrap into LATM | no access beyond the bytes received; only AUs that were sent are forwarded; none is lost that need not be |
| Tools (`tools.*`) | bits of a frame under way; indices of a buffer; a register | checksums, character sets, bit reader and writer, circular buffer | what is written is read back; a buffer is a queue; every implementation of a checksum computes the same |

The hazards that follow from this are listed in `PROJECT.json`, each at the line where it bites, with
the properties that would notice, or the reason why none does.

## 2. Modules

| Module | Models |
|---|---|
| `FicDatabase` | what a FIG entry carries, the decoder's records, the listing of a service derived from them |
| `FicDecoder` | `FICDecoder`: one action for each handler |
| `FicKnowledge` | `FicDecoder` with the set of entries received: what the database must be, as a function of that set |
| `Playlist` | abstract specification of a scan |
| `DabScanner` | the scan loop, extending `FicDecoder`; instantiates `Playlist`, which it implements |
| `DabPlusDecoder` | finding super frames |
| `SuperFrame` | the AU starts, the Reed-Solomon packets, the checks of the AUs and the removal of PAD |
| `LatmFrame` | `BitWriter`, `BitReader` and the frame `ProcessUntouchedStream` writes with them |
| `FicBlock` | how the bytes of a FIC transfer become FIBs and FIGs |
| `DateTime` | the date of FIG 0/10, beside a calendar |
| `Checksum`, `ChecksumTables` | `CalcCRC` with and without its table; the checks of fire codes and of AUs, with the two tables that are typed into the code |
| `CircularBuffer`, `ByteQueue` | the buffer of `tools.h`, and the bounded queue it implements |
| `Tuner` | programming the chip transfer by transfer, by programs that may be killed |
| `MCFicDecoder`, `MCFicKnowledge`, `MCDabScanner`, `MCSuperFrame`, `MCParts` | constants for TLC; `MCParts` also joins the modules that share nothing |
| `FicDecoderProofs`, `FicKnowledgeProofs`, `DabScannerProofs`, `DabPlusDecoderProofs`, `SuperFrameProofs`, `TunerProofs` | theorems about the module each is named after |
| `FicDataProofs` | theorems about `FicBlock` and `DateTime` |
| `ToolsProofs` | theorems about `LatmFrame`, `CircularBuffer` and `Checksum` |

### FicDatabase, FicDecoder

The maps of the code are total functions; `None` is an absent key and every `..._none` value. A FIG
entry is a record of the fields its handler reads: one iteration of a handler's inner loop. Whatever is
dropped unread (bad checksum, next configuration, data services, conditional access, unknown
extensions) is the entry `"none"`. All handlers have one of three shapes, and so have the actions:
fetch a record, compare it with what was received, store it, and call `UpdateService`,
`UpdateSubchannel` or `UpdateEnsemble`. `SetService`, `SetSubchannel` and `SetEnsemble` are these
shapes; `updated` and `ensembleUpdated` hold the observer calls the step has made. The calls for one
service within a step are `ServiceCalls`: secondary components first, the primary one last.
`disable_dyn_msgs` is false in this program, so FIG 0/10, 0/19 and dynamic programme types are always
processed. The announcement support of FIG 0/18 arrives with its cluster identifiers as a set.

### DabScanner, Playlist

`StartFrequency`, `EndRead` and `ReportServices` are the parts of `startFrequencyScan`; `ReceiveFig(e)`
is one entry processed within `readData`, with the callbacks it leads to. `OnAir` gives each frequency a
sequence of configurations of its multiplex, each a set of entries: `Reconfigure` moves to the next
one. `tuned` is the frequency the chip receives, which differs from the one asked for if the ADC clock
did not lock (`AdcMayFail`). `Playlist` knows neither the count nor the copies: a scan learns what is
on a frequency, forgets no service it knows completely, and on leaving writes a line for each. The
refinement maps `heard` to the decoder's database while the scan is on a frequency and to nothing
between frequencies.

### DabPlusDecoder

A byte of a transmitted super frame is its position in it; a byte of noise is what a frame beginning
with it would be taken for (a good fire code or one before wrong AU starts, either of them zero or not, or
other data). That is all the two loops can tell apart before Reed-Solomon decoding. `ReceiveNoise` and
`ReceiveClean` are calls of `componentDataInput` with chunks of any length up to `MaxChunk`; each other
action is one iteration of the loop of `synchronizeData` with the call of `processData` it makes.
`intact`, `next` and `heard` are history: whether what has been collected is one transmitted super
frame, what will be sent next, and how often super frames have ended since reception is clean. Within
clean reception, payload is not taken for a fire code; noise may hold any number of false ones.

`synchronizeData` skips frames that begin with two bytes of 0. Those bytes are the fire code, and one
header in 65536 has it: `ZeroCode` is the first byte of such a super frame, and any super frame of
clean reception may begin with it. Searching, `synchronizeData` passes it over byte by byte
(`passing` is the history of that), while `processData` takes it like any other. So `InStep` allows for
what is left of a super frame that is being passed over, `heard` counts from the last fire code of 0
on, and `Recovers` needs super frames with another fire code to keep coming.

### SuperFrame, LatmFrame

A byte of `superFrameData` is its position, an AU an interval of positions; of the values is kept which
are not as they were sent. Frames come in step, which is the business of `DabPlusDecoder`. The starts
are read from the bytes of the header as they are sent, half byte by half byte, and `leftFirst` is the
order in which the compiler evaluates the operands of two expressions that move an iterator on in one
operand and use it in the other (lines 204 and 206): C++ leaves it open, so all four combinations are
checked. `FirstFrame`, `NextFrame` and `LastFrame` are calls of
`processData`; `DecodeSuperframe` is part of the last, as in the code, and each `ExamineAu` is one iteration of
the loop over the AUs. All sizes keep their widths of 16 or 8 bits. `LatmFrame` goes on where
`forwarded` ends: an AU is put into a frame field by field, each action the bits that fall into one byte,
and is read back the same way by the `BitReader`, which no program of the repository uses and which
stands for the demultiplexer at the other end of the pipe. The length of the frame is filled in last, in
13 bits. They are not always enough: the starts of AUs have 12 bits, but the last AU ends with the super frame,
whose size is that of any bit rate `dab_aac` is called with, as far as 16 bits hold it. `ReadsBack` says
what is written then, the length modulo 2^13, and that the AU is read back all the same.

The length of a PAD of more than 255 bytes wraps in `padDataLen`, so that 256 of its bytes are taken
for audio. `OnlySentAus` says what the code does: `PadLeft` bytes of the PAD stand before the audio,
none of a shorter one.

If an iterator is moved on before it is used, starts are made of the wrong half bytes, and may by
chance enclose an AU that was sent, but not the one whose turn it is: at 264 kbit/s with the starts
3586 and 3598 sent, 6, 3598, 3630, 3630 is read, and the AU from 3598 on is forwarded as the second of
three. So `OnlySentAus` says that what is forwarded is one of the AUs as they were sent, and the one
whose turn it is only if operands are evaluated from left to right. An earlier form of it, that it always is the one
whose turn it is, held on all layouts then checked; the attempt to prove it led to this one, which is now
among them.

### FicBlock, DateTime

`FicBlock` follows a block from `readData` to the calls of `ProcessFIG0` and `ProcessFIG1`. A transfer
may be short, or fail to begin, in which case the uninitialised `actual` is any member of `Unset`. Less than
the header's 4 bytes, or a negative number, becomes a huge `size_t`, and so it is in the model. If a
negative number, or one above the 400 bytes of the buffer, leaves whole FIBs (-28 does), `Process` reads
beyond the buffer, which has no defined effect: `Tame` leaves these numbers out, one in 32. A FIB is
the offsets of its FIGs and whether its checksum is right. `DateTime` lets the days of a year go by.

### CircularBuffer, ByteQueue, Checksum

Every method of `CircularBuffer` is an action; the refinement maps the array and its two indices to the
sequence of the bytes held. No program of the repository creates one.

In `Checksum` a byte or a register is the set of its one bits, and a checksum is computed along a
message, beside its definition bit by bit. `CHECK_FIRECODE` and `CRC_CCITT_CHECK` look up `ChecksumTables`, which
holds the 512 numbers typed into the code, digit by digit. Of the objects of `CalcCRC`, the program uses
only `CalcCRC_CRC16_CCITT`; `CalcCRC_FIRE_CODE` is there to say what `CHECK_FIRECODE` should compute, and
`CalcCRC_CRC16_IBM` has no user.

### Tuner

A routine is the sequence of its transfers, with the definitions named after the routines of the
source; an action executes the transfer at the head of `todo`. A write goes to the register of that
number in the page selected last, wherever it was meant to go. A group of registers that is always
written together is one register with the value `Half` while it is written. Of the chip, `Receive`
models what the code relies on: once a sub-channel is set, bytes fill the MSC memory until it is
cleared. `Kill` ends a program anywhere, and another one starts with other arguments. Registers that
are written with the same value by every program are left out.

## 3. What the runs check

| Run | Instance | Checked |
|---|---|---|
| `fic_decoder` | 1 service, 2 sub-channels, 2 components; any entries, contradictory ones included | `FicTypeOK`; `PrimaryHasComponent`: `at()` never throws; `NoSilentChange`: every change of what a service would be listed as is forwarded |
| `fic_knowledge` | 17 entries of 13 kinds that do not contradict each other, any order, repetitions, resets | `DatabaseIsKnowledge`: the database is a function of the set of entries received; `RepeatIsSilent`: no repetition is forwarded |
| `scan_safety` | 2 frequencies that share a service, a reconfiguration that exchanges primary and secondary component, tuning failures | `TypeOK`; `ListedIsCurrent`, `EnsembleLabelIsCurrent`: the scanner's copies are what the decoder knows; `ImplementsPlaylist` |
| `scan_live` | 2 frequencies, a reconfiguration, tuning succeeds | `Attribution`: a line is about a service of its frequency; `ScanCompletes` |
| `dabplus_sync` | frames of 2 bytes, chunks of up to 3 | `TypeOK`; `CountsAgree`: flags and counts agree; `ResumesInStep`: between two calls, in step after four ends of super frames since the last fire code of 0, whatever came before; `StaysInStep`: no byte is lost but those of super frames with fire code 0; `Recovers`: clean reception gives whole super frames for ever, if not all have fire code 0 |
| `tuner` | 5 frequencies of all three ADC clocks, among them those past the irregular channels, 2 sub-channels | `TypeOK`; `EveryAccessOnItsPage`; `NearestChannel`; `TuneIsComplete`: no half of an old setting is left; `AudioIsRequested`: no byte of another sub-channel or frequency |
| `dabplus_output` | frames of 24, 36, 96, 792 and, wrapped, 3 * 43696 bytes, 16 layouts of AUs, PAD of up to 510 bytes, bursts of wrong bytes | `TypeOK`; `InBounds`: neither what is checked nor what is forwarded reaches beyond the bytes received; `StartsAreSent`; `OnlySentAus`: what is forwarded is an AU as sent, from the end of its PAD on, with 256 bytes of a PAD that has more than 255; `NothingLost`: an AU is lost only to a burst longer than the interleaving makes good, and only if it is hit |
| `parts` | see below | `SizeIsDistance`, `ImplementsQueue`: the buffer is a queue; `RestIsZero`, `ReadsBack`, `NeverShort`: a LATM frame is read back as the AU it was made of; `TableIsBitwise`: the table of `CalcCRC` does what its bits do; `FireCodeAgrees`, `AuChecksumAgrees`: the checks with typed tables take the checksum `CalcCRC` would compute, and none with a wrong bit; `OnlyTransferred`, `EveryFigOnce`: FIGs come of transferred bytes only, each once; `DateIsCalendar` |

Four runs show where code and documentation disagree (`findings` in `PROJECT.json`):

* `scan_demoted`: a primary component that has become a secondary one while the new primary component
  is dropped counts as a change each time its entry is repeated, so the scan stays on the frequency
  for ever, where the README promises a scan of two minutes.
* `scan_adc`: a failure of the ADC clock to lock goes unnoticed; the stations of the frequency before
  are written under the new one.
* `scan_bitrate`: a DAB+ service without sub-channel organisation is written with bit rate 65535.
* `tuner_11n`: the frequency the scanner has for channel 11N is not the one the tuner receives.

### Bounds

* `QuietReads` is 200 in the code, 2 or 3 here: long enough for a count to be reset in the middle, and
  the count is not compared with anything else. The theorems hold for 1..255.
* Two frequencies are enough for anything to be carried over from one to the next.
* `MCBound` of `MCFicDecoder` lets only one of the things aside from the listing (language, region,
  switching, cluster, date, ensemble label) be known at a time, and leaves component 0 unknown meanwhile;
  `fic_knowledge` has them all at once.
* Two sub-channels and two components give a primary and a secondary component that can change places.
* `FrameSize` is 24 bytes or more in the code. The loops look at the first two bytes of a frame and at
  its length, so 2 has every case: whole frames, single bytes left over, and, with chunks of 3, chunks
  that end anywhere in a frame or bring more than one. 3 bytes with chunks of 2 have been checked as well.
* `Enough` (4) bounds the count of super frames heard. With 3 `ResumesInStep` does not hold: a false
  fire code makes `processData` and `synchronizeData` lose one super frame each before they agree.
* `dabplus_output`: 8 and 32 kbit/s give one and four packets, the least with and without interleaving;
  264 has the starts read wrongly that enclose an AU (see above); 12 is no multiple of 8 and 43696 makes both sizes wrap, each differently, as `dab_aac` takes any number. The
  layouts have an AU at every boundary of the checks (a start equal to the size and one more, AUs of
  0 and 2 bytes, starts that do not rise). PAD of 254, 255 and 256 bytes is where its length goes over
  from one byte to two and wraps; 510 is the most that two bytes can say. Bursts are as long as can just be corrected, and one byte longer.
* `parts`: a buffer of three bytes with calls of up to four, so that every wrap and every refusal
  happens; AUs around 255 and 510 bytes, where the length field grows by a byte; messages of three bytes
  below 16 for checksums, of which `CHECK_FIRECODE` begins with two: they and their checksums look up each
  of the 256 entries of both typed tables; one single bit after them (`MaxOdd`; up to seven in the code); blocks of two FIBs, of twelve, with
  transfers that end in every part of one; all days from 1995 (the first DAB) to 2099.
  `BufferTypeOK` and `LatmTypeOK` are the type invariants. `SizeMax` is 4095 instead of the largest
  size_t: all that matters of it is that it is above any transfer, and leaves 31 to a FIB's 32. `Unset`
  has numbers of every kind: less than nothing, less than the header, of the request, of a whole
  block, of the buffer, beyond it. No AU of `parts` is long enough for the length of its
  frame to wrap: of that only the theorem speaks.
* `AdcMayFail` is FALSE in `tuner` and in `scan_live`: `AudioIsRequested` and `Attribution` do not hold
  otherwise, as `scan_adc` shows.

### Deadlock

The scan may stop, and so may the parts of `MCParts` that come to an end (a message, a year): these runs
have `CHECK_DEADLOCK FALSE`. All others are checked for deadlock.

### Fairness

* `DabScanner`: the loop of a single thread runs (`StartFrequency`, `EndRead`, `ReportServices`), and
  `readData` brings each entry again and again, as a multiplex repeats its entries for ever. Nothing is
  assumed of reconfigurations.
* `DabPlusDecoder`: the main loop of `dab_aac` goes on reading, and the loop in `synchronizeData` goes on
  while there are enough bytes. That reception becomes clean is a premise of `Recovers` itself.
* `Tuner` states no liveness: what makes the chip deliver is outside the repository. `SuperFrame` and the
  modules of `MCParts` are driven by their callers, so that nothing is assumed of them.

## 4. What is proved

The proofs hold for any sets of services, sub-channels, labels, frequencies and so on, from the named
assumptions of the modules (field widths, `None` in no other set, a frame of at least two bytes).

| Theorem | Says | Argument |
|---|---|---|
| `FicTypeCorrect`, `PrimaryNeverMissing`, `ObserverMissesNothing` | `FicDecoder` satisfies `[]FicTypeOK`, `[]PrimaryHasComponent`, `NoSilentChange` | A lemma for each handler shows it to be one of four kinds of change (a service, a sub-channel, the ensemble, nothing), with what the handler's comparison guarantees; each invariant is then proved once per kind. `FicTypeOK` is inductive, `PrimaryHasComponent` is inductive with it |
| `DabScannerProofs!TypeCorrect`, `ListingFollowsDatabase`, `EnsembleLabelFollows` | the scan satisfies `[]TypeOK`, `[]ListedIsCurrent`, `[]EnsembleLabelIsCurrent` | `CopiesInv`: types, `PrimaryHasComponent` and both copies. The listing can only be typed because it is current, and it stays current because the decoder forwards every change (`HandlerForwards`, the step behind `ObserverMissesNothing`) and the primary component is the last call (`LastCallIsPrimary`) |
| `ScanImplementsPlaylist` | the scan implements `Playlist` | `CopiesInv` again: at the moment of the report, the lines made from the copies are the lines made from the knowledge (`ReportedLines`); every other step learns or stutters |
| `DabPlusDecoderProofs!TypeCorrect`, `FlagsFollowCounts` | the buffer is bounded by a frame and a chunk, counts stay below five, flags agree with counts | `IInv == TypeOK /\ CountsAgree`; the counts are below five only because a flag that is set means a count that has begun |
| `LinesAreAttributed` | `[]Attribution` if `AdcMayFail = FALSE` | `SentInv`: every field of what is known of a service is based on an entry sent on the frequency being received, which is then the one the scan believes it is on; with `CopiesInv` the lines are too |
| `KnowledgeIsKept`, `RepeatsAreSilent` | `FicKnowledge` satisfies `[]DatabaseIsKnowledge` and `RepeatIsSilent` | `KnowledgeInv`: each field is what the set of entries received says, by a lemma per handler; as entries do not contradict each other, one more entry fixes one field. If the entry is in the set already the record it would store is the one there, so nothing is forwarded |
| `StepsStayInStep` | `StaysInStep`, for every frame size | `Follows`: the bytes left are those sent from frame c on. The rest is arithmetic modulo a super frame (`ModAdd`, `Remainder`) |
| `SyncIsResumed` | `[]ResumesInStep`, for every frame size and call length | `ResumingInv`. The first byte in the buffer is given its place P in what was sent, counted from the last super frame with fire code 0 or from where clean reception began. Until the loops are in step, either the frames to be taken before the next search end by the beginning of the third super frame, or `synchronizeData` takes the right frames and `processData` is ahead of it, or waits for a fire code. Each kind of iteration keeps this or reaches `InStep`; after four ends of super frames P is past both, if no more than a frame is left in the buffer |
| `SuperFrameProofs!TypeCorrect`, `SuperFrameSafe` | `[]TypeOK`, `[]InBounds`, for every bit rate and any starts sent | `SuperFrameInv`: starts that passed the checks rise and lie within `m_superFrameSize`; cutting off a PAD keeps the end of an AU |
| `StartsCorrect`, `ForwardingCorrect`, `BurstsCorrected` | `[]StartsAreSent`, `[]OnlySentAus`, `[]NothingLost`, for every bit rate, layout, burst and order of evaluation | `AirInv` with `SuperFrameInv`: each AU yet to be examined ends where the next begins, starts are those the half bytes were made of, and what is wrong is what the correction has left of the burst. That a burst of five bytes for each packet leaves nothing wrong is arithmetic on the interleaving |
| `FibsTransferred`, `FigsHandedOn` | `FicBlock` satisfies `[]OnlyTransferred`, `[]EveryFigOnce`, for blocks of any length and any transfer | `FicInv`: `ProcessFIB` is at a FIG's start or at the end of a whole FIB, and the handlers have got exactly the FIGs before that place, in order (`InOrder`, from which each comes once). The next start is the least one after the last: `Least` |
| `DatesDecoded` | `[]DateIsCalendar`, for any years from 1901 to 2099 | `DateInv`: the day sent is the calendar's. The formula for the month, (10000 days - 1000) / 306001, is shown to be right for each month counted from March (`MarchOn`, `BeforeMarch`), the one for the year, of years that begin with March in eras of four (`FromMarch`) |
| `LatmTypeCorrect`, `LatmRestIsZero`, `LatmNeverShort`, `LatmReadsBack` | `LatmFrame` satisfies `[]LatmTypeOK`, `[]RestIsZero`, `[]NeverShort`, `[]ReadsBack`, for any AUs of less than 2^16 bytes | `LatmInv`. While a frame is written, the bytes up to a position are those it will have and what is left to do starts there; while it is read, the values are those put in, and of the field under way the bits above that position. Positions are divided the same way by `AddBits` and `GetBits` (`IsChunk`): 25 places of the header, each checked by evaluation, and two for each octet after it |
| `BufferTypeCorrect`, `BufferSafe`, `BufferIsQueue` | `[]BufferTypeOK`, `[]SizeIsDistance`; `CircularBuffer` implements `ByteQueue`, for any capacity | the indices are the same modulo the capacity as the size says; a write or read changes only the cells that leave or enter the sequence held |
| `TunerProofs!TypeCorrect`, `AccessesOnTheirPages`, `TuningIsComplete` | `[]TypeOK`, `[]EveryAccessOnItsPage`, `[]TuneIsComplete`, programs being killed anywhere | `TunerInv`: types; `ProgramInv`: what is left of a program selects the page of each of its transfers before it comes, whatever page is selected now; `TuningInv`: each register has its value already or will be written with it. For each routine is proved once which pages and registers it touches |
| `ChecksumsRight`, `FireCodeChecked`, `AuChecksumsChecked` | `Checksum` satisfies `[]TableIsBitwise`, `[]FireCodeAgrees`, `[]AuChecksumAgrees`, for any message | Each typed entry is what its eight bits give (`FireCodeRows`, `CcittRows`): those of the powers of two are shifted, the others are sums, so that a digit typed wrong makes the proof fail. Then `CrcInv`: the register of `CalcCRC` is that of `CHECK_FIRECODE` two bytes on. Eight shifts are linear (`EightXor`), so that a byte may be added before them or after them, which is what the table and the two implementations differ in |
| `AudioOnlyRequested` | `[]AudioIsRequested` if `AdcMayFail = FALSE` | `AudioInv`: the memory holds bytes of the sub-channel asked for only, or will be cleared after the sub-channel is set |
| `EveryChannelFound`, `NearestChannelSelected` | the scanner's frequency of each of the 41 channels selects that channel in the tuner's tables; `[]NearestChannel` for such frequencies | by cases over the channels, with `TuningIsComplete` |

Four theorems are about the condition under which the property is meant: `LinesAreAttributed` and
`AudioOnlyRequested` that the ADC clock locks (`scan_adc` shows that it is needed),
`NearestChannelSelected` that frequencies are those of the scanner's table, and `KnowledgeIsKept` that a
multiplex does not contradict itself (an assumption of `FicKnowledge`; `fic_decoder` runs without it).

Every invariant and every action property that a passing run checks is stated by one of these
theorems, and so are both refinements. Only model-checked is liveness (`ScanCompletes`, `Recovers`),
which TLAPS does not handle.

The induction theorems of the library cannot be used with these provers. Where a proof needs induction
it takes a least counterexample: a set of naturals that is not empty has a least element (`Least` in
`FicDataProofs`). Recursive functions are unfolded one step at a time, once it is
shown that they exist.

## 5. What is not modelled

* The bit layout of the fields within a FIG (but for the date) and the protection tables: pure
  functions. A label is a member of a set with a printed text, so that two labels may print alike.
* The conversion of labels to UTF-8 and `StringTools`: text.
* The text of the playlist, quoting included.
* Opening the USB device, registers that always get the same value, transfers that fail while
  programming, the antenna level and lock status (not called).
* `fec/`, a copy of libfec: only what `DecodeSuperframe` relies on, that up to five wrong bytes of a
  packet are corrected. That a packet with more is left alone is an idealisation: a decoder
  may also take it for another code word, and the checksums of the AUs are what is left then.
* The contents of an AU, and the format flags in the LATM header, which are constants in the code.
* A negative `actual`, or one of more than the 400 bytes of the buffer, that leaves whole FIBs: `Process`
  reads beyond the buffer then, to no defined effect.
* `ConvertLanguageToString` and the functions after it, and `DeriveShortLabelUTF8`: the handlers call them
  for the text they print. One of them has another effect, which is left out: where `mktime` cannot
  represent a received time, `ConvertDateTimeToString` throws, and ends the scan.
* `dab_channels` has no user. `CircularBuffer`, `BitReader`, `CalcCRC_FIRE_CODE` and `CalcCRC_CRC16_IBM` have none
  either, but are modelled.
* What the chip does with FIC data buffered before a retuning: not to be learnt from the repository.

## 6. Plan

The order of work was: what the scan depends on (FIC decoder, scanner, playlist), playing (super
frames, tuner), then access units, the division of the FIC, and the tools. Left, in this order:

1. `FicBlock` composed with `FicDecoder`, as the source of its entries: so far the two meet in the calls
   of `ProcessFIG0` and `ProcessFIG1`, which `FicBlock` records and `FicDecoder` makes for any entry.
2. `SuperFrame` composed with `DabPlusDecoder`: a delivered super frame of the one is the five frames of
   the other.
3. An abstract specification of what `SuperFrame` and `LatmFrame` promise together, a channel that loses
   AUs but neither changes nor reorders them, and the proof that they implement it; the invariants it needs are
   `AirInv` and `LatmInv`.

## 7. Running

    tlc -config MCDabScanner.cfg MCDabScanner      # and so on for the other runs
    tlapm DabScannerProofs.tla

All runs end within about a minute, each proof module within four.
