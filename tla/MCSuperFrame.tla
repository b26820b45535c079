---------------------------- MODULE MCSuperFrame ----------------------------
(***************************************************************************)
(* Super frames of one, of four and of 33 packets.                         *)
(***************************************************************************)
EXTENDS SuperFrame

\* Frames of 24 and 96 bytes, of super frames of 110 and 440; 12 is no bit rate of a
\* DAB+ service, nor is 43696, where both sizes wrap, nor 264, but dab_aac takes them.
MCBitrates == {8, 12, 32, 264, 43696}

\* AUs of the sizes that matter: room for a PAD of 256 bytes, a last AU that is
\* empty or has two bytes, and starts that do not rise or lie behind the end.  At
\* 264 kbit/s <<3586, 3598>> is read as <<3598, 3630>> by another order of
\* evaluation: the third AU is found in the place of the second.
MCLayouts ==
    { <<60>>, <<109>>, <<300>>, <<5>>, <<440>>, <<441>>,
      <<50, 108>>, <<30, 433>>, <<50, 50>>, <<3586, 3598>>,
      <<20, 60, 100>>, <<100, 130, 400>>, <<9, 8, 20>>,
      <<31, 50, 51, 70, 90>>, <<61, 131, 401, 411, 440>>, <<61, 131, 401, 400, 430>> }

MCPadSizes == {0, 4, 254, 255, 256, 510}

\* In a super frame of four packets, 20 bytes are corrected and 21 are not, whether
\* they hit AUs or the bytes the code has added; 96 bytes are a frame.
MCBursts ==
    {NoBurst} \cup ({11, 50, 113} \X {5, 6}) \cup ({11, 120, 419, 455} \X {20, 21, 25})
        \cup {<<96, 96>>}
=============================================================================
