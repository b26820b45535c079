--------------------------- MODULE ChecksumTables ---------------------------
(***************************************************************************)
(* The two tables of checksums that are typed into the code, eight entries *)
(* to a row, as they stand there.                                          *)
(***************************************************************************)
EXTENDS Naturals

FIRECODE_TABLE ==
    <<<<\h0000, \h782f, \hf05e, \h8871, \h9893, \he0bc, \h68cd, \h10e2>>,
      <<\h4909, \h3126, \hb957, \hc178, \hd19a, \ha9b5, \h21c4, \h59eb>>,
      <<\h9212, \hea3d, \h624c, \h1a63, \h0a81, \h72ae, \hfadf, \h82f0>>,
      <<\hdb1b, \ha334, \h2b45, \h536a, \h4388, \h3ba7, \hb3d6, \hcbf9>>,
      <<\h5c0b, \h2424, \hac55, \hd47a, \hc498, \hbcb7, \h34c6, \h4ce9>>,
      <<\h1502, \h6d2d, \he55c, \h9d73, \h8d91, \hf5be, \h7dcf, \h05e0>>,
      <<\hce19, \hb636, \h3e47, \h4668, \h568a, \h2ea5, \ha6d4, \hdefb>>,
      <<\h8710, \hff3f, \h774e, \h0f61, \h1f83, \h67ac, \hefdd, \h97f2>>,
      <<\hb816, \hc039, \h4848, \h3067, \h2085, \h58aa, \hd0db, \ha8f4>>,
      <<\hf11f, \h8930, \h0141, \h796e, \h698c, \h11a3, \h99d2, \he1fd>>,
      <<\h2a04, \h522b, \hda5a, \ha275, \hb297, \hcab8, \h42c9, \h3ae6>>,
      <<\h630d, \h1b22, \h9353, \heb7c, \hfb9e, \h83b1, \h0bc0, \h73ef>>,
      <<\he41d, \h9c32, \h1443, \h6c6c, \h7c8e, \h04a1, \h8cd0, \hf4ff>>,
      <<\had14, \hd53b, \h5d4a, \h2565, \h3587, \h4da8, \hc5d9, \hbdf6>>,
      <<\h760f, \h0e20, \h8651, \hfe7e, \hee9c, \h96b3, \h1ec2, \h66ed>>,
      <<\h3f06, \h4729, \hcf58, \hb777, \ha795, \hdfba, \h57cb, \h2fe4>>,
      <<\h0803, \h702c, \hf85d, \h8072, \h9090, \he8bf, \h60ce, \h18e1>>,
      <<\h410a, \h3925, \hb154, \hc97b, \hd999, \ha1b6, \h29c7, \h51e8>>,
      <<\h9a11, \he23e, \h6a4f, \h1260, \h0282, \h7aad, \hf2dc, \h8af3>>,
      <<\hd318, \hab37, \h2346, \h5b69, \h4b8b, \h33a4, \hbbd5, \hc3fa>>,
      <<\h5408, \h2c27, \ha456, \hdc79, \hcc9b, \hb4b4, \h3cc5, \h44ea>>,
      <<\h1d01, \h652e, \hed5f, \h9570, \h8592, \hfdbd, \h75cc, \h0de3>>,
      <<\hc61a, \hbe35, \h3644, \h4e6b, \h5e89, \h26a6, \haed7, \hd6f8>>,
      <<\h8f13, \hf73c, \h7f4d, \h0762, \h1780, \h6faf, \he7de, \h9ff1>>,
      <<\hb015, \hc83a, \h404b, \h3864, \h2886, \h50a9, \hd8d8, \ha0f7>>,
      <<\hf91c, \h8133, \h0942, \h716d, \h618f, \h19a0, \h91d1, \he9fe>>,
      <<\h2207, \h5a28, \hd259, \haa76, \hba94, \hc2bb, \h4aca, \h32e5>>,
      <<\h6b0e, \h1321, \h9b50, \he37f, \hf39d, \h8bb2, \h03c3, \h7bec>>,
      <<\hec1e, \h9431, \h1c40, \h646f, \h748d, \h0ca2, \h84d3, \hfcfc>>,
      <<\ha517, \hdd38, \h5549, \h2d66, \h3d84, \h45ab, \hcdda, \hb5f5>>,
      <<\h7e0c, \h0623, \h8e52, \hf67d, \he69f, \h9eb0, \h16c1, \h6eee>>,
      <<\h3705, \h4f2a, \hc75b, \hbf74, \haf96, \hd7b9, \h5fc8, \h27e7>>>>

CRC_CCITT_TABLE ==
    <<<<\h0000, \h1021, \h2042, \h3063, \h4084, \h50a5, \h60c6, \h70e7>>,
      <<\h8108, \h9129, \ha14a, \hb16b, \hc18c, \hd1ad, \he1ce, \hf1ef>>,
      <<\h1231, \h0210, \h3273, \h2252, \h52b5, \h4294, \h72f7, \h62d6>>,
      <<\h9339, \h8318, \hb37b, \ha35a, \hd3bd, \hc39c, \hf3ff, \he3de>>,
      <<\h2462, \h3443, \h0420, \h1401, \h64e6, \h74c7, \h44a4, \h5485>>,
      <<\ha56a, \hb54b, \h8528, \h9509, \he5ee, \hf5cf, \hc5ac, \hd58d>>,
      <<\h3653, \h2672, \h1611, \h0630, \h76d7, \h66f6, \h5695, \h46b4>>,
      <<\hb75b, \ha77a, \h9719, \h8738, \hf7df, \he7fe, \hd79d, \hc7bc>>,
      <<\h48c4, \h58e5, \h6886, \h78a7, \h0840, \h1861, \h2802, \h3823>>,
      <<\hc9cc, \hd9ed, \he98e, \hf9af, \h8948, \h9969, \ha90a, \hb92b>>,
      <<\h5af5, \h4ad4, \h7ab7, \h6a96, \h1a71, \h0a50, \h3a33, \h2a12>>,
      <<\hdbfd, \hcbdc, \hfbbf, \heb9e, \h9b79, \h8b58, \hbb3b, \hab1a>>,
      <<\h6ca6, \h7c87, \h4ce4, \h5cc5, \h2c22, \h3c03, \h0c60, \h1c41>>,
      <<\hedae, \hfd8f, \hcdec, \hddcd, \had2a, \hbd0b, \h8d68, \h9d49>>,
      <<\h7e97, \h6eb6, \h5ed5, \h4ef4, \h3e13, \h2e32, \h1e51, \h0e70>>,
      <<\hff9f, \hefbe, \hdfdd, \hcffc, \hbf1b, \haf3a, \h9f59, \h8f78>>,
      <<\h9188, \h81a9, \hb1ca, \ha1eb, \hd10c, \hc12d, \hf14e, \he16f>>,
      <<\h1080, \h00a1, \h30c2, \h20e3, \h5004, \h4025, \h7046, \h6067>>,
      <<\h83b9, \h9398, \ha3fb, \hb3da, \hc33d, \hd31c, \he37f, \hf35e>>,
      <<\h02b1, \h1290, \h22f3, \h32d2, \h4235, \h5214, \h6277, \h7256>>,
      <<\hb5ea, \ha5cb, \h95a8, \h8589, \hf56e, \he54f, \hd52c, \hc50d>>,
      <<\h34e2, \h24c3, \h14a0, \h0481, \h7466, \h6447, \h5424, \h4405>>,
      <<\ha7db, \hb7fa, \h8799, \h97b8, \he75f, \hf77e, \hc71d, \hd73c>>,
      <<\h26d3, \h36f2, \h0691, \h16b0, \h6657, \h7676, \h4615, \h5634>>,
      <<\hd94c, \hc96d, \hf90e, \he92f, \h99c8, \h89e9, \hb98a, \ha9ab>>,
      <<\h5844, \h4865, \h7806, \h6827, \h18c0, \h08e1, \h3882, \h28a3>>,
      <<\hcb7d, \hdb5c, \heb3f, \hfb1e, \h8bf9, \h9bd8, \habbb, \hbb9a>>,
      <<\h4a75, \h5a54, \h6a37, \h7a16, \h0af1, \h1ad0, \h2ab3, \h3a92>>,
      <<\hfd2e, \hed0f, \hdd6c, \hcd4d, \hbdaa, \had8b, \h9de8, \h8dc9>>,
      <<\h7c26, \h6c07, \h5c64, \h4c45, \h3ca2, \h2c83, \h1ce0, \h0cc1>>,
      <<\hef1f, \hff3e, \hcf5d, \hdf7c, \haf9b, \hbfba, \h8fd9, \h9ff8>>,
      <<\h6e17, \h7e36, \h4e55, \h5e74, \h2e93, \h3eb2, \h0ed1, \h1ef0>>>>

=============================================================================
