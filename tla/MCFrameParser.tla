--------------------------- MODULE MCFrameParser ---------------------------
(***************************************************************************)
(* A small instance of FrameParser for TLC.                                *)
(***************************************************************************)
EXTENDS FrameParser

\* Chained words, both namespace bits, TLVs, and fields of each alignment.
MCWords ==
    {{}, {0, 1}, {1, 3}, {1, 3, 31}, {2, 29, 31}, {30, 31}, {1, 30, 31},
     {28}, {1, 28, 31}, {29, 30}}
MCTlvs == {<<1, 0>>, <<1, 1>>, <<29, 0>>, <<40, 5>>}

Mac(type, subtype, toDs, fromDs, order, opaque) ==
    [type |-> type, subtype |-> subtype, toDs |-> toDs, fromDs |-> fromDs,
     order |-> order, opaque |-> opaque, nullData |-> FALSE, amsdu |-> FALSE]
Plain(type, subtype) == Mac(type, subtype, FALSE, FALSE, FALSE, FALSE)

MCMacHeaders ==
    {Plain("management", s) : s \in {4, 8, 11, 13}}
      \cup {Mac("management", 4, FALSE, TRUE, FALSE, FALSE),
            Mac("management", 4, FALSE, FALSE, TRUE, FALSE),
            Mac("management", 8, FALSE, FALSE, FALSE, TRUE)}
      \cup {Plain("control", s) : s \in {6, 7, 12}} \cup {Plain("reserved", 0)}
      \cup {Mac("data", s, d, TRUE, o, FALSE) :
              s \in {0, 8}, d \in BOOLEAN, o \in BOOLEAN}
      \cup {[Plain("data", 12) EXCEPT !.nullData = TRUE],
            [Plain("data", 8) EXCEPT !.amsdu = TRUE]}

MCElements == {<<0, 0>>, <<0, 1>>, <<3, 1>>, <<3, 2>>, <<48, 2>>, <<221, 3>>}

Key(isKey, bodyLen, descriptor, dataLen, info) ==
    [isKey |-> isKey, bodyLen |-> bodyLen, descriptor |-> descriptor,
     dataLen |-> dataLen, info |-> info]
MCEapolKeys ==
    {Key(FALSE, 0, 0, 0, {}), Key(TRUE, 0, 0, 0, {}), Key(TRUE, 1, 1, 0, {}),
     Key(TRUE, 1, 2, 0, {}), Key(TRUE, 95, 2, 1, {}), Key(TRUE, 96, 2, 0, {})}
      \cup {Key(TRUE, 95, d, 0, i \cup {"pairwise"}) : d \in {2, 254},
              i \in {{"ack"}, {"mic"}, {"install", "ack", "mic"},
                     {"mic", "secure"}, {"mic", "special"}}}

\* Radiotap alone; headers, bodies and lists that fit exactly or by a byte not.
MCCapturedLens ==
    {1, 7, 8, 14, 16, 18, 20, 24, 28, 29, 32, 34, 36, 40, 41, 45, 54, 58, 61, 140, 145}
MCRtLens == {7, 8, 12, 16, 20, 24}
=============================================================================
