---------------------------- MODULE FrameParser ----------------------------
(***************************************************************************)
(* The capture decoder of src/src: pcap.c hands out one record at a time,  *)
(* airtrace.c decodes it -- radiotap presence maps, radiotap fields and    *)
(* TLVs, the 802.11 MAC header, then a management body's information       *)
(* elements or an EAPOL key frame.                                         *)
(*                                                                         *)
(* Offsets and lengths are numbers, and the tables of field sizes and      *)
(* alignments are the code's.  What a byte holds is chosen when the code   *)
(* reads it, from the small sets below.  A presence word is the set of its *)
(* bits; words are kept, because the code reads each one twice.            *)
(***************************************************************************)
EXTENDS Integers, Sequences, FiniteSets

CONSTANTS
    Capacity,      \* bytes of the caller's buffer
    SnapLens,      \* snap lengths a file may declare
    CapturedLens,  \* captured lengths a record header may declare
    RtLens,        \* lengths a radiotap header may declare
    Words,         \* presence words, as sets of bits 0..31
    VendorLens,    \* skip lengths of a vendor namespace
    Tlvs,          \* <<type, size>> of radiotap TLVs
    MacHeaders,    \* what an 802.11 header may say
    Elements,      \* <<id, size>> of information elements
    EapolKeys,     \* what an EAPOL packet may say
    MaxIes         \* AIRTRACE_MAX_IES

ASSUME LengthAssumption ==
    /\ Capacity \in Nat /\ MaxIes \in Nat
    /\ SnapLens \subseteq Nat /\ CapturedLens \subseteq Nat
    /\ RtLens \subseteq Nat /\ VendorLens \subseteq Nat
    /\ Tlvs \subseteq Nat \X Nat /\ Elements \subseteq Nat \X Nat
    /\ \A w \in Words : w \subseteq 0..31
    /\ \A k \in EapolKeys : k.bodyLen \in Nat

VARIABLES
    reader,   \* airtrace_pcap: open (file is not NULL), snaplen, radiotap
    inStep,   \* the file position is a record boundary (history)
    status,   \* what the last call of the reader or of the parser returned
    phase,    \* which loop or function of the decoder is running
    len,      \* length of the captured record
    origin,   \* where in the record the region being decoded starts
    limit,    \* length of that region
    off,      \* offset into it
    reach,    \* end of the furthest byte read of it (history)
    words,    \* the presence words
    cur,      \* number of the word being decoded
    bits,     \* its bits not yet handled
    base,     \* index of its bit 0
    std,      \* standard_namespace
    turn,     \* parity of the decoder's steps, so that a turn of a loop that
              \* changes nothing is a step and not a stutter (history)
    fields,   \* where the standard fields were found (history)
    frame     \* the caller's airtrace_frame

local == <<limit, off, reach, words, cur, bits, base, std, fields, turn>>
vars == <<reader, inStep, status, phase, len, origin, frame, local>>

Decoding == {"radiotap", "maps", "fields", "tlvs", "control", "header",
             "fixed", "elements", "eapol"}
Errors == {"INVALID", "TRUNCATED", "MALFORMED", "UNSUPPORTED", "CAPACITY",
           "IO", "EOF"}

\* Elements of which the frame keeps a first copy.
KeptIds == {0, 1, 3, 45, 48, 191}

NoMac == [type |-> "none"]
EmptyFrame == [has |-> {}, flags |-> {}, mac |-> NoMac, headerLen |-> 0,
               ies |-> <<>>, first |-> [i \in KeptIds |-> 0], key |-> FALSE,
               msg |-> 0]

---------------------------------------------------------------------------
(* Helpers of airtrace.c.                                                  *)

(* Variant: one byte too many. *)
AvailableButOne(l, o, need) == o + need <= l + 1
Available(l, o, need) == o + need <= l

Align(o, a) == o + ((a - (o % a)) % a)

FieldAlign == <<8, 1, 1, 2, 2, 1, 1, 2, 2, 2, 1, 1, 1, 1,
                2, 2, 1, 1, 4, 1, 4, 2, 8, 2, 2, 2, 1, 2>>
FieldSize  == <<8, 1, 1, 4, 2, 1, 1, 2, 2, 2, 1, 1, 1, 1,
                2, 2, 1, 1, 8, 3, 8, 12, 12, 12, 12, 6, 1, 4>>

\* radiotap_value: the frames it may leave; an absent byte reads as zero.
WithValue(index, size) ==
    LET seen == [frame EXCEPT !.has = @ \cup ({index} \cap {0, 1, 2, 3, 5, 19})]
    IN  IF index # 1 THEN {seen}
        ELSE {[seen EXCEPT !.flags = f] :
                f \in IF size = 0 THEN {{}} ELSE SUBSET {"fcs", "pad"}}

MacLen(m) ==
    IF m.type = "control" THEN IF m.subtype \in {12, 13} THEN 10 ELSE 16
    ELSE IF m.toDs /\ m.fromDs THEN 30 ELSE 24

HasQos(m) == m.type = "data" /\ m.subtype >= 8

FixedLens == [s \in {0, 1, 2, 3, 4, 5, 8, 10, 11, 12} |->
                CASE s = 0 -> 4 [] s \in {1, 3, 11} -> 6 [] s = 2 -> 10
                  [] s = 4 -> 0 [] s \in {5, 8} -> 12 [] OTHER -> 2]

SizeAllowed(id, size) ==
    CASE id = 0 -> size <= 32 [] id = 1 -> size \in 1..8 [] id = 3 -> size = 1
      [] id = 45 -> size = 26 [] id = 48 -> size >= 2 [] id = 191 -> size = 12
      [] OTHER -> TRUE

\* Which message of the four-way handshake a key frame is, 0 for none.
Message(k) ==
    LET step == k.info \cap {"install", "ack", "mic", "secure"}
    IN  IF "pairwise" \notin k.info \/ "special" \in k.info THEN 0
        ELSE CASE step = {"ack"} -> 1
               [] step = {"mic"} -> IF k.descriptor = 254 /\ k.dataLen = 0 THEN 4 ELSE 2
               [] step \ {"secure"} = {"install", "ack", "mic"} -> 3
               [] step = {"mic", "secure"} -> 4
               [] OTHER -> 0

---------------------------------------------------------------------------
(* How the decoder moves on, fails and returns.                            *)

Enter(p) == phase' = p /\ turn' = ~turn /\ UNCHANGED <<reader, inStep, status, len>>

ClearLocals ==
    /\ off' = 0 /\ reach' = 0 /\ cur' = 0 /\ base' = 0
    /\ words' = <<>> /\ fields' = <<>> /\ bits' = {} /\ std' = TRUE

\* airtrace_parse_frame returns, having read up to r: an error leaves a zeroed
\* frame.
Return(e, f, r) ==
    /\ phase' = "parsed" /\ status' = e /\ reach' = r /\ turn' = FALSE
    /\ frame' = IF e = "OK" THEN f ELSE EmptyFrame
    /\ UNCHANGED <<reader, inStep, len, origin, limit, off, words, cur, bits,
                   base, std, fields>>

Fail(e, r) == Return(e, EmptyFrame, r)

(* Variant: the check sequence is left in the frame. *)
NoFcsLen(f) == 0
FcsLen(f) == IF "fcs" \in f.flags THEN 4 ELSE 0

\* parse_radiotap returned, or there was none: cut the trailing FCS.
EnterMac(start, f) ==
    LET fcs == FcsLen(f)
    IN  IF ~Available(len, start, fcs) THEN Fail("TRUNCATED", reach)
        ELSE /\ Enter("control") /\ frame' = f
             /\ origin' = start /\ limit' = len - start - fcs
             /\ ClearLocals

---------------------------------------------------------------------------
(* The pcap reader.                                                        *)

Init ==
    /\ reader = [open |-> FALSE, snaplen |-> 0, radiotap |-> FALSE]
    /\ inStep = TRUE /\ status = "none" /\ phase = "idle"
    /\ len = 0 /\ origin = 0 /\ limit = 0 /\ off = 0 /\ reach = 0
    /\ words = <<>> /\ cur = 0 /\ bits = {} /\ base = 0 /\ std = TRUE
    /\ fields = <<>> /\ frame = EmptyFrame /\ turn = FALSE

\* airtrace_pcap_open: the file header is good, or the reader stays closed.
Open ==
    /\ status = "none"
    /\ \/ \E s \in SnapLens, r \in BOOLEAN :
            IF s = 0 THEN status' = "MALFORMED" /\ UNCHANGED reader
            ELSE /\ reader' = [open |-> TRUE, snaplen |-> s, radiotap |-> r]
                 /\ status' = "OK"
       \/ \E e \in {"IO", "TRUNCATED", "UNSUPPORTED"} :
            status' = e /\ UNCHANGED reader
    /\ UNCHANGED <<inStep, phase, len, origin, frame, local>>

\* airtrace_pcap_next without a file: after a failed open, or after an error.
NextRefused ==
    /\ phase = "idle" /\ status # "none" /\ ~reader.open
    /\ status' = "INVALID"
    /\ UNCHANGED <<reader, inStep, phase, len, origin, frame, local>>

\* The record header cannot be read in full.  Only an end of file between two
\* records leaves the reader usable, and C's end-of-file indicator is sticky.
NextShort ==
    /\ phase = "idle" /\ reader.open
    /\ \E e \in IF status = "EOF" THEN {"EOF"} ELSE {"IO", "TRUNCATED", "EOF"} :
         /\ status' = e
         /\ reader' = [reader EXCEPT !.open = (e = "EOF")]
         /\ inStep' = (inStep /\ e = "EOF")
    /\ UNCHANGED <<phase, len, origin, frame, local>>

\* What airtrace_pcap_next makes of a record header; `body' says how reading
\* the captured bytes would end.
RecordVerdict(fractionOk, captured, original, body) ==
    IF ~fractionOk \/ captured > reader.snaplen \/ captured > original THEN "MALFORMED"
    ELSE IF captured > Capacity THEN "CAPACITY" ELSE body

(* Variant: a record that does not fit is skipped. *)
ReaderAfterSkip(e) == [reader EXCEPT !.open = (e \in {"OK", "CAPACITY"})]
\* The reader after a call that ended with e.
ReaderAfter(e) == [reader EXCEPT !.open = (e = "OK")]

\* A record is handed to airtrace_parse_frame, or the reader gives the file up
\* in the middle of the record.
NextRecord ==
    /\ phase = "idle" /\ reader.open /\ status # "EOF"
    /\ \E fractionOk \in BOOLEAN, captured, original \in CapturedLens,
          body \in {"OK", "IO", "TRUNCATED"} :
         LET e == RecordVerdict(fractionOk, captured, original, body)
         IN  /\ status' = e /\ reader' = ReaderAfter(e)
             /\ inStep' = (inStep /\ e = "OK")
             /\ IF e # "OK" THEN UNCHANGED <<phase, len, origin, frame, local>>
                ELSE /\ phase' = IF reader.radiotap THEN "radiotap" ELSE "control"
                     /\ len' = captured /\ limit' = captured
                     /\ UNCHANGED <<origin, frame, off, reach, words, cur, bits,
                                    base, std, fields, turn>>

\* The caller has used the frame and comes back for the next record.
Consume ==
    /\ phase = "parsed" /\ phase' = "idle"
    /\ len' = 0 /\ origin' = 0 /\ limit' = 0 /\ frame' = EmptyFrame
    /\ ClearLocals
    /\ UNCHANGED <<reader, inStep, status, turn>>

---------------------------------------------------------------------------
(* Radiotap.                                                               *)

RadiotapHeader ==
    /\ phase = "radiotap"
    /\ IF len < 8 THEN Fail("TRUNCATED", reach)
       ELSE \/ Fail("UNSUPPORTED", 1)                     \* another version
            \/ \E rtLen \in RtLens :
                 CASE rtLen < 8 -> Fail("MALFORMED", 4)
                   [] rtLen >= 8 /\ rtLen > len -> Fail("TRUNCATED", 4)
                   [] OTHER -> /\ Enter("maps")
                               /\ limit' = rtLen /\ off' = 4 /\ reach' = 4
                               /\ UNCHANGED <<origin, frame, words, cur, bits,
                                              base, std, fields>>

\* One chained presence word; bit 31 announces another.
PresenceWord ==
    /\ phase = "maps"
    /\ IF ~Available(limit, off, 4) THEN Fail("TRUNCATED", reach)
       ELSE \E word \in Words :
              /\ words' = Append(words, word)
              /\ off' = off + 4 /\ reach' = off + 4
              /\ IF 31 \in word THEN Enter("maps") /\ UNCHANGED <<cur, bits>>
                 ELSE /\ Enter("fields") /\ cur' = 1
                      /\ bits' = words'[1] \ {31}
              /\ UNCHANGED <<limit, origin, frame, base, std, fields>>

\* The scan of the current word has come to bit b.
Scan(b) ==
    /\ phase = "fields" /\ ~({29, 30} \subseteq words[cur])
    /\ b \in bits /\ \A c \in bits : b <= c

BothNamespaces ==
    /\ phase = "fields" /\ {29, 30} \subseteq words[cur]
    /\ Fail("MALFORMED", reach)

StandardNamespace ==
    /\ Scan(29)
    /\ std' = TRUE /\ bits' = bits \ {29}
    /\ Enter("fields")
    /\ UNCHANGED <<origin, frame, limit, off, reach, words, cur, base, fields>>

VendorNamespace ==
    /\ Scan(30)
    /\ LET start == Align(off, 2)
       IN  IF ~Available(limit, start, 6) THEN Fail("TRUNCATED", reach)
           ELSE \E skip \in VendorLens :
                  IF ~Available(limit, start + 6, skip) THEN Fail("TRUNCATED", start + 6)
                  ELSE /\ off' = start + 6 + skip /\ reach' = start + 6
                       /\ std' = FALSE /\ bits' = bits \ {30}
                       /\ Enter("fields")
                       /\ UNCHANGED <<origin, frame, limit, words, cur, base, fields>>

\* A field of a vendor namespace: its skip length has accounted for it.
VendorField ==
    \E b \in bits \cap 0..28 :
      /\ Scan(b) /\ ~std
      /\ bits' = bits \ {b}
      /\ Enter("fields")
      /\ UNCHANGED <<origin, frame, limit, off, reach, words, cur, base, std, fields>>

\* Index 28: the rest of the header is TLVs, so no further presence bit exists.
StartTlvs ==
    \E b \in bits \cap 0..28 :
      /\ Scan(b) /\ std /\ base + b = 28
      /\ IF words[cur] \cap {29, 30, 31} # {} \/ cur # Len(words) THEN Fail("MALFORMED", reach)
         ELSE IF ~Available(limit, Align(off, 4), 0) THEN Fail("TRUNCATED", reach)
         ELSE /\ Enter("tlvs") /\ off' = Align(off, 4)
              /\ UNCHANGED <<origin, frame, limit, reach, words, cur, bits, base,
                             std, fields>>

\* A field of the standard namespace: aligned to the start of the header.
StandardField ==
    \E b \in bits \cap 0..28 :
      /\ Scan(b) /\ std /\ base + b # 28
      /\ LET index == base + b
             start == Align(off, FieldAlign[index + 1])
             size == FieldSize[index + 1]
         IN  IF index > 28 THEN Fail("UNSUPPORTED", reach)
             ELSE IF ~Available(limit, start, size) THEN Fail("TRUNCATED", reach)
             ELSE /\ off' = start + size /\ reach' = start + size
                  /\ fields' = Append(fields, [index |-> index, from |-> start,
                                               to |-> start + size])
                  /\ frame' \in WithValue(index, size)
                  /\ bits' = bits \ {b}
                  /\ Enter("fields")
                  /\ UNCHANGED <<origin, limit, words, cur, base, std>>

(* Variant: only a vendor namespace restarts the numbering. *)
NextBaseAfterVendor == IF 30 \in words[cur] THEN 0 ELSE base + 32
NextBase == IF words[cur] \cap {29, 30} # {} THEN 0 ELSE base + 32

\* The scan of a word is over; a namespace bit restarts the numbering.
EndOfWord ==
    /\ phase = "fields" /\ bits = {}
    /\ IF cur = Len(words) THEN EnterMac(limit, frame)
       ELSE /\ cur' = cur + 1 /\ bits' = words[cur + 1] \ {31}
            /\ base' = NextBase
            /\ Enter("fields")
            /\ UNCHANGED <<origin, frame, limit, off, reach, words, std, fields>>

(* Variant: the size counts the TLV's own header. *)
TlvEndOfAll(tlv) == off + tlv[2]
TlvEnd(tlv) == off + 4 + tlv[2]

Tlv ==
    /\ phase = "tlvs"
    /\ CASE off >= limit -> EnterMac(limit, frame)
         [] off < limit /\ ~Available(limit, off, 4) -> Fail("TRUNCATED", reach)
         [] OTHER ->
              \E tlv \in Tlvs :
                LET end == TlvEnd(tlv)
                IN  CASE tlv[1] \in {29, 31} -> Fail("MALFORMED", off + 4)
                      [] tlv[1] \notin {29, 31} /\ ~Available(limit, Align(end, 4), 0) ->
                           Fail("TRUNCATED", off + 4)
                      [] OTHER -> /\ off' = Align(end, 4) /\ reach' = end
                                  /\ frame' \in WithValue(tlv[1], tlv[2])
                                  /\ Enter("tlvs")
                                  /\ UNCHANGED <<origin, limit, words, cur, bits,
                                                 base, std, fields>>

---------------------------------------------------------------------------
(* The 802.11 header and what follows it.                                  *)

\* parse_mac up to the length of the fixed header.
FrameControl ==
    /\ phase = "control"
    /\ IF limit < 2 THEN Fail("TRUNCATED", reach)
       ELSE \E m \in MacHeaders :
              CASE m.type = "reserved" \/ (m.type = "control" /\ m.subtype < 7) ->
                     Fail("UNSUPPORTED", 2)
                [] m.type = "management" /\ (m.toDs \/ m.fromDs) -> Fail("MALFORMED", 2)
                [] OTHER -> /\ Enter("header") /\ reach' = 2
                            /\ frame' = [frame EXCEPT !.mac = m]
                            /\ UNCHANGED <<origin, limit, off, words, cur, bits,
                                           base, std, fields>>

\* The rest of parse_mac: addresses, QoS and HT control, and where to go on.
MacHeader ==
    /\ phase = "header"
    /\ LET m == frame.mac
           qos == MacLen(m) + (IF HasQos(m) THEN 2 ELSE 0)
           ht == m.order /\ (HasQos(m) \/ m.type = "management")
           end == qos + (IF ht THEN 4 ELSE 0)
           body == IF "pad" \in frame.flags THEN Align(end, 4) ELSE end
           read == [frame EXCEPT !.headerLen = end]
           headerOnly == \/ m.opaque \/ m.type = "control"
                         \/ m.type = "data" /\ (m.nullData \/ (HasQos(m) /\ m.amsdu))
           Go(p, o) == /\ Enter(p) /\ frame' = read
                       /\ off' = o /\ reach' = qos
                       /\ UNCHANGED <<origin, limit, words, cur, bits, base, std, fields>>
       IN  IF ~Available(limit, 0, end) THEN Fail("TRUNCATED", reach)
           ELSE IF headerOnly THEN Return("OK", read, qos)
           ELSE IF m.type = "management" THEN Go("fixed", end)
           ELSE IF ~Available(limit, body, 0) THEN Fail("TRUNCATED", qos)
           ELSE Go("eapol", body)

\* parse_management: the fixed fields.  Only subtypes with a list of elements
\* go on, and of authentication frames only those with an old algorithm.
FixedFields ==
    /\ phase = "fixed"
    /\ LET s == frame.mac.subtype
       IN  IF s \notin DOMAIN FixedLens THEN Return("OK", frame, reach)
           ELSE IF ~Available(limit, off, FixedLens[s]) THEN Fail("TRUNCATED", reach)
           ELSE \/ s = 11 /\ Return("OK", frame, off + 6)
                \/ /\ Enter("elements")
                   /\ off' = off + FixedLens[s] /\ reach' = off + FixedLens[s]
                   /\ UNCHANGED <<origin, frame, limit, words, cur, bits, base, std, fields>>

(* Variant: the last of its kind is kept. *)
WithLastElement(id, size) ==
    LET n == Len(frame.ies) + 1
    IN  [frame EXCEPT
           !.ies = Append(@, [id |-> id, size |-> size, at |-> origin + off + 2]),
           !.first = [i \in KeptIds |-> IF i = id THEN n ELSE @[i]]]
\* The frame with one more element, the first of its kind being kept.
WithElement(id, size) ==
    LET n == Len(frame.ies) + 1
    IN  [frame EXCEPT
           !.ies = Append(@, [id |-> id, size |-> size, at |-> origin + off + 2]),
           !.first = [i \in KeptIds |-> IF i = id /\ @[i] = 0 THEN n ELSE @[i]]]

(* Variant: the capacity is found exceeded when the table is overrun. *)
IesFullLate == Len(frame.ies) > MaxIes
IesFull == Len(frame.ies) = MaxIes

\* One turn of the loop of parse_ies.
Element ==
    /\ phase = "elements"
    /\ CASE off >= limit -> Return("OK", frame, reach)
         [] off < limit /\ ~Available(limit, off, 2) -> Fail("TRUNCATED", reach)
         [] OTHER ->
              \E ie \in Elements :
                IF ~Available(limit, off + 2, ie[2]) THEN Fail("TRUNCATED", off + 2)
                ELSE IF IesFull THEN Fail("CAPACITY", off + 2)
                ELSE IF ~SizeAllowed(ie[1], ie[2]) THEN Fail("MALFORMED", off + 2)
                ELSE /\ frame' = WithElement(ie[1], ie[2])
                     /\ off' = off + 2 + ie[2] /\ reach' = off + 2 + ie[2]
                     /\ Enter("elements")
                     /\ UNCHANGED <<origin, limit, words, cur, bits, base, std, fields>>

\* parse_eapol: the outcome of a packet k behind a matching LLC/SNAP header,
\* as <<verdict, frame, end of what was read>>.
KeyVerdict(k) ==
    LET body == off + 12
    IN  IF ~Available(limit, off + 8, 4) THEN <<"TRUNCATED", frame, off + 8>>
        ELSE IF ~Available(limit, body, k.bodyLen) THEN <<"TRUNCATED", frame, body>>
        ELSE IF ~k.isKey THEN <<"OK", frame, body>>
        ELSE IF k.bodyLen = 0 THEN <<"MALFORMED", frame, body>>
        ELSE IF k.descriptor \notin {2, 254} THEN <<"OK", frame, body + 1>>
        ELSE IF k.bodyLen < 95 THEN <<"TRUNCATED", frame, body + 1>>
        ELSE IF k.dataLen # k.bodyLen - 95 THEN <<"MALFORMED", frame, body + 95>>
        ELSE <<"OK", [frame EXCEPT !.key = TRUE, !.msg = Message(k)], body + 95>>

Eapol ==
    /\ phase = "eapol"
    /\ IF ~Available(limit, off, 8) THEN Return("OK", frame, reach)
       ELSE \/ Return("OK", frame, off + 8)            \* another protocol
            \/ \E k \in EapolKeys :
                 LET v == KeyVerdict(k) IN Return(v[1], v[2], v[3])

Decode ==
    \/ RadiotapHeader \/ PresenceWord \/ BothNamespaces \/ StandardNamespace
    \/ VendorNamespace \/ VendorField \/ StartTlvs \/ StandardField \/ EndOfWord
    \/ Tlv \/ FrameControl \/ MacHeader \/ FixedFields \/ Element \/ Eapol

Next == Open \/ NextRefused \/ NextShort \/ NextRecord \/ Consume \/ Decode

\* One thread runs the decoder: it does not stop in the middle of a frame.
Spec == Init /\ [][Next]_vars /\ WF_vars(Decode)

---------------------------------------------------------------------------
(* Properties.                                                             *)

\* Type correctness.
TypeOK ==
    /\ reader \in [open : BOOLEAN, snaplen : Nat, radiotap : BOOLEAN]
    /\ {inStep, std, turn} \subseteq BOOLEAN
    /\ status \in {"none", "OK"} \cup Errors
    /\ phase \in {"idle", "parsed"} \cup Decoding
    /\ {len, origin, limit, off, reach, cur, base} \subseteq Nat
    /\ words \in Seq(Words) /\ bits \subseteq 0..30
    /\ \A n \in DOMAIN fields : fields[n].index \in 0..27
    /\ frame.has \subseteq {0, 1, 2, 3, 5, 19} /\ frame.flags \subseteq {"fcs", "pad"}
    /\ frame.mac \in MacHeaders \cup {NoMac}
    /\ frame.headerLen \in 0..36 /\ Len(frame.ies) <= MaxIes
    /\ \A i \in KeptIds : frame.first[i] \in 0..Len(frame.ies)
    /\ frame.key \in BOOLEAN /\ frame.msg \in 0..4

\* No byte is read outside the region that is being decoded, and the region
\* lies in the captured record: radiotap stays in the header it declares, the
\* rest behind it and before a frame check sequence.
ReadsInBounds ==
    /\ reach <= limit
    /\ origin + limit <= len
    /\ len <= Capacity

\* What the presence words up to the scan's position announce, stated without
\* the scan: the last namespace bit of an earlier word says whether a word
\* lists standard fields, and the word after it starts again at index 0.
Resets(k) == {j \in 1..(k - 1) : words[j] \cap {29, 30} # {}}
LastReset(k) == IF Resets(k) = {} THEN 0
                ELSE CHOOSE j \in Resets(k) : \A i \in Resets(k) : i <= j
ListsStandard(k) == LastReset(k) = 0 \/ 29 \in words[LastReset(k)]
Announced ==
    {p \in (1..cur) \X (0..28) :
        /\ p[2] \in words[p[1]] /\ ListsStandard(p[1])
        /\ p[1] = cur => p[2] \notin bits}
AnnouncedIndex(p) == 32 * (p[1] - 1 - LastReset(p[1])) + p[2]
Before(p, q) == p[1] < q[1] \/ (p[1] = q[1] /\ p[2] <= q[2])

\* The standard fields found are those the presence words announce, in their
\* order, each at its own index, aligned to the start of the header, behind the
\* words and behind the field before it; and a header is refused for a field
\* without a known size only when the words announce one.
RadiotapFieldsPlaced ==
    /\ phase = "fields" =>
      /\ \A p \in Announced :
           LET n == Cardinality({q \in Announced : Before(q, p)})
           IN  n \in DOMAIN fields /\ fields[n].index = AnnouncedIndex(p)
      /\ Len(fields) = Cardinality(Announced)
      /\ \A n \in DOMAIN fields :
           LET f == fields[n]
           IN  /\ f.from % FieldAlign[f.index + 1] = 0
               /\ f.to = f.from + FieldSize[f.index + 1]
               /\ f.from >= IF n = 1 THEN 4 + 4 * Len(words) ELSE fields[n - 1].to
               /\ f.to <= limit
    /\ (phase = "parsed" /\ status = "UNSUPPORTED" /\ cur > 0) =>
         /\ ListsStandard(cur)
         /\ \E b \in bits : AnnouncedIndex(<<cur, b>>) > 28 /\ \A c \in bits : b <= c

\* Does parse_management read a list of elements in this frame?
ListsElements(m) ==
    m.type = "management" /\ m.subtype \in DOMAIN FixedLens /\ ~m.opaque

\* The elements of an accepted management frame tile its body: the first starts
\* behind the fixed fields, each starts where the one before it ends, and the
\* last ends where the frame ends, before any frame check sequence.  Only an
\* authentication frame of a newer algorithm is accepted without a list.
ElementsTileBody ==
    (phase = "parsed" /\ status = "OK" /\ ListsElements(frame.mac)) =>
      LET n == Len(frame.ies)
          start(k) == frame.ies[k].at - 2
          end(k) == frame.ies[k].at + frame.ies[k].size
          body == origin + frame.headerLen + FixedLens[frame.mac.subtype]
          fcs == IF "fcs" \in frame.flags THEN 4 ELSE 0
      IN  IF n = 0 THEN frame.mac.subtype = 11 \/ body = len - fcs
          ELSE /\ start(1) = body /\ end(n) = len - fcs
               /\ \A k \in 2..n : start(k) = end(k - 1)

\* Of the elements the frame keeps a copy of, the first of the list is kept,
\* whatever repetitions follow.
FirstElementWins ==
    \A i \in KeptIds :
      LET same == {k \in DOMAIN frame.ies : frame.ies[k].id = i}
      IN  IF same = {} THEN frame.first[i] = 0
          ELSE frame.first[i] \in same /\ \A k \in same : frame.first[i] <= k

\* A record is handed out only when the file position was a record boundary:
\* after an error in the middle of a record no call reads on.
RecordsFromBoundaries == phase # "idle" => inStep

\* The order in which a frame goes through the phases.
Place == [radiotap |-> 1, maps |-> 2, fields |-> 3, tlvs |-> 4, control |-> 5,
          header |-> 6, fixed |-> 7, elements |-> 8, eapol |-> 8]

\* Every turn of a loop comes closer to its end: a loop over bytes moves its
\* offset on, up to the end of its region, also over an empty TLV or element,
\* and the scan of the presence words goes on to a later word or has one bit
\* less to do.  No phase comes back.
TurnsAdvance ==
    [][(phase \in Decoding /\ phase' \in Decoding) =>
         \/ Place[phase] < Place[phase']
         \/ /\ phase' = phase /\ phase # "fields" /\ limit' = limit
            /\ off' \in (off + 1)..limit
         \/ /\ phase' = phase /\ phase = "fields" /\ words' = words
            /\ \/ cur' \in (cur + 1)..Len(words)
               \/ cur' = cur /\ bits' \subseteq bits /\ bits' # bits]_vars

\* Every frame is parsed to its end.
FramesEnd == phase \in Decoding ~> phase = "parsed"

=============================================================================
