------------------------- MODULE FrameParserProofs --------------------------
(***************************************************************************)
(* Theorems of FrameParser, for every length a file or a header may hold:  *)
(* no byte is read outside the region being decoded, a record is handed    *)
(* out only from a record boundary, elements fill the body of their frame, *)
(* radiotap fields lie where the presence words put them, and every turn   *)
(* of a loop comes closer to its end.                                      *)
(***************************************************************************)
EXTENDS FrameParser, FiniteSetTheorems, TLAPS

RadiotapPhases == {"idle", "radiotap", "maps", "fields", "tlvs"}

Numbers ==
    /\ len \in Nat /\ origin \in Nat /\ limit \in Nat
    /\ off \in Nat /\ reach \in Nat /\ base \in Nat

Scanning ==
    /\ words \in Seq(Words) /\ bits \subseteq 0..30
    /\ phase = "fields" => cur \in 1..Len(words)

Regions ==
    /\ phase \in RadiotapPhases => origin = 0
    /\ phase = "radiotap" => limit = len
    /\ phase = "idle" => reach = 0

(* Every region lies in the record and every read in its region: the       *)
(* numbers behind ReadsInBounds, with where each phase finds them.         *)
BoundsInv == Numbers /\ Scanning /\ Regions /\ ReadsInBounds

(* Aligning moves an offset forward, by less than the alignment. *)
LEMMA AlignForward ==
  ASSUME NEW o \in Nat, NEW a \in 1..8
  PROVE  Align(o, a) \in Nat /\ Align(o, a) >= o
<1>1. o % a \in 0..(a - 1)
  OBVIOUS
<1>2. (a - (o % a)) % a \in 0..(a - 1)
  <2> DEFINE d == a - (o % a)
  <2>1. d \in 1..a
    BY <1>1
  <2> HIDE DEF d
  <2>2. d % a \in 0..(a - 1)
    BY <2>1
  <2> QED
    BY <2>2 DEF d
<1> QED
  BY <1>2 DEF Align

(* The tables give every standard field an alignment and a size. *)
LEMMA FieldTables ==
  ASSUME NEW i \in 0..27
  PROVE  FieldAlign[i + 1] \in 1..8 /\ FieldSize[i + 1] \in Nat
  BY DEF FieldAlign, FieldSize

(* Returning keeps the regions, if what was read lies in the region. *)
LEMMA ReturnKeepsBounds ==
  ASSUME BoundsInv, NEW e, NEW f, NEW r \in Nat, r <= limit, Return(e, f, r)
  PROVE  BoundsInv'
  BY DEF BoundsInv, Numbers, Scanning, Regions, ReadsInBounds, Return, RadiotapPhases

(* Failing returns. *)
LEMMA FailKeepsBounds ==
  ASSUME BoundsInv, NEW e, NEW r \in Nat, r <= limit, Fail(e, r)
  PROVE  BoundsInv'
  BY ReturnKeepsBounds DEF Fail

(* Failing without a further read returns. *)
LEMMA FailHereKeepsBounds ==
  ASSUME BoundsInv, NEW e, Fail(e, reach)
  PROVE  BoundsInv'
  BY FailKeepsBounds DEF BoundsInv, Numbers, ReadsInBounds

(* What follows the radiotap header lies in the record, the check sequence *)
(* behind it.                                                              *)
LEMMA EnterMacKeepsBounds ==
  ASSUME BoundsInv, NEW start \in Nat, start <= len, NEW f, EnterMac(start, f)
  PROVE  BoundsInv'
<1>1. FcsLen(f) \in {0, 4}
  BY DEF FcsLen
<1>2. CASE ~Available(len, start, FcsLen(f))
  BY <1>2, FailHereKeepsBounds DEF EnterMac
<1>3. CASE Available(len, start, FcsLen(f))
  <2>1. /\ phase' = "control" /\ len' = len /\ origin' = start
        /\ limit' = len - start - FcsLen(f)
        /\ off' = 0 /\ reach' = 0 /\ base' = 0 /\ words' = <<>> /\ bits' = {}
    BY <1>3 DEF EnterMac, Enter, ClearLocals
  <2>2. start + FcsLen(f) <= len
    BY <1>3 DEF Available
  <2>3. /\ Numbers' /\ Regions' /\ ReadsInBounds'
    BY <1>1, <2>1, <2>2 DEF BoundsInv, Numbers, Regions, ReadsInBounds, RadiotapPhases
  <2>4. Scanning'
    BY <2>1 DEF Scanning
  <2> QED
    BY <2>3, <2>4 DEF BoundsInv
<1> QED
  BY <1>2, <1>3

(* The reader's actions keep the regions. *)
LEMMA ReaderKeepsBounds ==
  ASSUME BoundsInv, Open \/ NextRefused \/ NextShort \/ NextRecord \/ Consume
  PROVE  BoundsInv'
<1>1. CASE Open \/ NextRefused \/ NextShort
  BY <1>1 DEF BoundsInv, Numbers, Scanning, Regions, ReadsInBounds, Open, NextRefused,
              NextShort, local, RadiotapPhases
<1>2. CASE NextRecord
  <2>1. /\ phase = "idle"
        /\ UNCHANGED <<origin, off, reach, words, cur, bits, base>>
        /\ \/ UNCHANGED <<phase, len, limit>>
           \/ \E captured \in CapturedLens :
                /\ captured <= Capacity /\ len' = captured /\ limit' = captured
                /\ phase' \in {"radiotap", "control"}
    <3>1. PICK fractionOk \in BOOLEAN, captured \in CapturedLens,
               original \in CapturedLens, body \in {"OK", "IO", "TRUNCATED"} :
            LET e == RecordVerdict(fractionOk, captured, original, body)
            IN  IF e # "OK" THEN UNCHANGED <<phase, len, origin, frame, local>>
                ELSE /\ phase' = IF reader.radiotap THEN "radiotap" ELSE "control"
                     /\ len' = captured /\ limit' = captured
                     /\ UNCHANGED <<origin, frame, off, reach, words, cur, bits,
                                    base, std, fields, turn>>
      BY <1>2 DEF NextRecord
    <3>2. captured > Capacity => RecordVerdict(fractionOk, captured, original, body) # "OK"
      BY DEF RecordVerdict
    <3>3. captured \in Nat /\ Capacity \in Nat
      BY LengthAssumption
    <3> QED
      BY <1>2, <3>1, <3>2, <3>3 DEF NextRecord, local
  <2> QED
    BY <2>1, LengthAssumption DEF BoundsInv, Numbers, Scanning, Regions, ReadsInBounds,
                                  RadiotapPhases
<1>3. CASE Consume
  BY <1>3, LengthAssumption DEF Consume, ClearLocals, BoundsInv, Numbers, Scanning, Regions,
              ReadsInBounds, RadiotapPhases
<1> QED
  BY <1>1, <1>2, <1>3

(* Without the chain bit a presence word has bits 0..30. *)
LEMMA WordBits ==
  ASSUME NEW w \in Words
  PROVE  w \ {31} \subseteq 0..30
<1>1. w \subseteq 0..31
  BY LengthAssumption
<1> QED
  BY <1>1

(* The presence words and the scan over them keep the regions. *)
LEMMA WordsKeepBounds ==
  ASSUME BoundsInv,
         PresenceWord \/ BothNamespaces \/ StandardNamespace \/ VendorField \/ EndOfWord
  PROVE  BoundsInv'
<1>1. CASE PresenceWord
  <2>1. CASE ~Available(limit, off, 4)
    BY <1>1, <2>1, FailHereKeepsBounds DEF PresenceWord
  <2>2. CASE Available(limit, off, 4)
    <3>1. PICK word \in Words :
            /\ words' = Append(words, word)
            /\ off' = off + 4 /\ reach' = off + 4
            /\ IF 31 \in word THEN Enter("maps") /\ UNCHANGED <<cur, bits>>
               ELSE /\ Enter("fields") /\ cur' = 1
                    /\ bits' = words'[1] \ {31}
            /\ UNCHANGED <<limit, origin, frame, base, std, fields>>
      BY <1>1, <2>2 DEF PresenceWord
    <3>2. /\ words' \in Seq(Words) /\ 1 \in 1..Len(words') /\ words'[1] \in Words
      BY <3>1 DEF BoundsInv, Scanning
    <3>3. /\ phase = "maps" /\ phase' \in {"maps", "fields"} /\ len' = len
          /\ (phase' = "fields") => cur' = 1
      BY <1>1, <3>1 DEF PresenceWord, Enter
    <3>4. bits' \subseteq 0..30
      <4>1. bits' = bits \/ bits' = words'[1] \ {31}
        BY <3>1
      <4> QED
        BY <3>2, <4>1, WordBits DEF BoundsInv, Scanning
    <3>5. Scanning'
      BY <3>2, <3>3, <3>4 DEF Scanning
    <3> QED
      BY <2>2, <3>1, <3>3, <3>5 DEF BoundsInv, Numbers, Regions, ReadsInBounds, Available,
                                    RadiotapPhases
  <2> QED
    BY <2>1, <2>2
<1>2. CASE BothNamespaces
  BY <1>2, FailHereKeepsBounds DEF BothNamespaces
<1>3. CASE StandardNamespace \/ VendorField
  <2>1. /\ bits' \subseteq bits /\ phase = "fields" /\ phase' = "fields" /\ len' = len
        /\ UNCHANGED <<origin, limit, off, reach, words, cur, base>>
    BY <1>3 DEF StandardNamespace, VendorField, Scan, Enter
  <2> QED
    BY <2>1 DEF BoundsInv, Numbers, Scanning, Regions, ReadsInBounds, RadiotapPhases
<1>4. CASE EndOfWord
  <2>1. CASE cur = Len(words)
    BY <1>4, <2>1, EnterMacKeepsBounds DEF EndOfWord, BoundsInv, Numbers, Regions,
                                           ReadsInBounds, RadiotapPhases
  <2>2. CASE cur # Len(words)
    <3>1. /\ phase = "fields" /\ phase' = "fields" /\ len' = len /\ cur' = cur + 1
          /\ bits' = words[cur + 1] \ {31} /\ base' \in Nat
          /\ UNCHANGED <<origin, limit, off, reach, words>>
      BY <1>4, <2>2 DEF EndOfWord, Enter, NextBase, BoundsInv, Numbers
    <3>2. cur + 1 \in 1..Len(words) /\ words[cur + 1] \in Words
      BY <2>2, <3>1 DEF BoundsInv, Scanning
    <3>3. Scanning'
      <4>1. bits' \subseteq 0..30
        BY <3>1, <3>2, WordBits
      <4> QED
        BY <3>1, <3>2, <4>1 DEF BoundsInv, Scanning
    <3> QED
      BY <3>1, <3>3 DEF BoundsInv, Numbers, Regions, ReadsInBounds, RadiotapPhases
  <2> QED
    BY <2>1, <2>2
<1> QED
  BY <1>1, <1>2, <1>3, <1>4

(* The reads of the radiotap header stay in the length it declares. *)
LEMMA RadiotapKeepsBounds ==
  ASSUME BoundsInv,
         RadiotapHeader \/ VendorNamespace \/ StartTlvs \/ StandardField \/ Tlv
  PROVE  BoundsInv'
<1>1. CASE RadiotapHeader
  <2>1. CASE len < 8
    BY <1>1, <2>1, FailHereKeepsBounds DEF RadiotapHeader
  <2>2. CASE ~(len < 8)
    <3>1. phase = "radiotap" /\ limit = len /\ origin = 0 /\ len \in Nat
      BY <1>1 DEF RadiotapHeader, BoundsInv, Regions, Numbers, RadiotapPhases
    <3>2. CASE Fail("UNSUPPORTED", 1) \/ Fail("MALFORMED", 4) \/ Fail("TRUNCATED", 4)
      <4>1. 1 \in Nat /\ 1 <= limit /\ 4 \in Nat /\ 4 <= limit
        BY <2>2, <3>1
      <4> QED
        BY <3>2, <4>1, FailKeepsBounds
    <3>3. CASE \E rtLen \in RtLens :
                 /\ rtLen >= 8 /\ ~(rtLen > len) /\ Enter("maps")
                 /\ limit' = rtLen /\ off' = 4 /\ reach' = 4
                 /\ UNCHANGED <<origin, frame, words, cur, bits, base, std, fields>>
      BY <3>1, <3>3, LengthAssumption DEF Enter, BoundsInv, Numbers, Scanning, Regions,
                                    ReadsInBounds, RadiotapPhases
    <3>4. \/ Fail("UNSUPPORTED", 1) \/ Fail("MALFORMED", 4) \/ Fail("TRUNCATED", 4)
          \/ \E rtLen \in RtLens :
                 /\ rtLen >= 8 /\ ~(rtLen > len) /\ Enter("maps")
                 /\ limit' = rtLen /\ off' = 4 /\ reach' = 4
                 /\ UNCHANGED <<origin, frame, words, cur, bits, base, std, fields>>
      BY <1>1, <2>2, <3>1, LengthAssumption DEF RadiotapHeader
    <3> QED
      BY <3>2, <3>3, <3>4
  <2> QED
    BY <2>1, <2>2
<1>2. CASE VendorNamespace
  <2> DEFINE start == Align(off, 2)
  <2>1. start \in Nat /\ off \in Nat /\ limit \in Nat
    BY AlignForward DEF BoundsInv, Numbers
  <2>2. CASE ~Available(limit, start, 6)
    BY <1>2, <2>2, FailHereKeepsBounds DEF VendorNamespace
  <2>3. CASE Available(limit, start, 6)
    <3>1. PICK skip \in VendorLens :
            IF ~Available(limit, start + 6, skip) THEN Fail("TRUNCATED", start + 6)
            ELSE /\ off' = start + 6 + skip /\ reach' = start + 6
                 /\ std' = FALSE /\ bits' = bits \ {30}
                 /\ Enter("fields")
                 /\ UNCHANGED <<origin, frame, limit, words, cur, base, fields>>
      BY <1>2, <2>3 DEF VendorNamespace
    <3>2. skip \in Nat /\ start + 6 \in Nat /\ start + 6 <= limit /\ phase = "fields"
      BY <1>2, <2>1, <2>3, LengthAssumption DEF VendorNamespace, Scan, Available
    <3> HIDE DEF start
    <3>3. CASE ~Available(limit, start + 6, skip)
      BY <3>1, <3>2, <3>3, FailKeepsBounds
    <3>4. CASE Available(limit, start + 6, skip)
      <4>1. /\ off' = start + 6 + skip /\ reach' = start + 6 /\ bits' \subseteq bits
            /\ phase' = "fields" /\ len' = len
            /\ UNCHANGED <<origin, limit, words, cur, base>>
        BY <3>1, <3>4 DEF Enter
      <4>2. Numbers'
        BY <2>1, <3>2, <4>1 DEF BoundsInv, Numbers
      <4>3. Scanning'
        BY <3>2, <4>1 DEF BoundsInv, Scanning
      <4>4. Regions' /\ ReadsInBounds'
        BY <2>1, <3>2, <4>1 DEF BoundsInv, Regions, ReadsInBounds, RadiotapPhases
      <4> QED
        BY <4>2, <4>3, <4>4 DEF BoundsInv
    <3> QED
      BY <3>3, <3>4
  <2> QED
    BY <2>2, <2>3
<1>3. CASE StartTlvs
  <2>1. Align(off, 4) \in Nat
    BY AlignForward DEF BoundsInv, Numbers
  <2>2. \/ \E e : Fail(e, reach)
        \/ /\ phase = "fields" /\ phase' = "tlvs" /\ len' = len /\ off' = Align(off, 4)
           /\ UNCHANGED <<origin, limit, reach, words, bits, base>>
    BY <1>3 DEF StartTlvs, Scan, Enter
  <2> QED
    BY <2>1, <2>2, FailHereKeepsBounds DEF BoundsInv, Numbers, Scanning, Regions,
                                           ReadsInBounds, RadiotapPhases
<1>4. CASE StandardField
  <2>1. CASE \E e : Fail(e, reach)
    BY <2>1, FailHereKeepsBounds
  <2>2. CASE ~\E e : Fail(e, reach)
    <3>1. PICK b \in bits \cap 0..28 :
            LET start == Align(off, FieldAlign[base + b + 1])
                size == FieldSize[base + b + 1]
            IN  /\ base + b # 28 /\ ~(base + b > 28) /\ phase = "fields"
                /\ Available(limit, start, size)
                /\ off' = start + size /\ reach' = start + size
                /\ bits' = bits \ {b} /\ Enter("fields")
                /\ UNCHANGED <<origin, limit, words, cur, base>>
      BY <1>4, <2>2 DEF StandardField, Scan
    <3> DEFINE start == Align(off, FieldAlign[base + b + 1])
               size == FieldSize[base + b + 1]
    <3>2. base + b \in 0..27
      BY <3>1 DEF BoundsInv, Numbers
    <3>3. start \in Nat /\ size \in Nat
      BY <3>2, FieldTables, AlignForward DEF BoundsInv, Numbers
    <3>4. /\ off' = start + size /\ reach' = start + size /\ start + size <= limit
          /\ phase = "fields" /\ phase' = "fields" /\ len' = len /\ bits' \subseteq bits
          /\ UNCHANGED <<origin, limit, words, cur, base>>
      BY <3>1 DEF Available, Enter
    <3> HIDE DEF start, size
    <3> QED
      BY <3>3, <3>4 DEF BoundsInv, Numbers, Scanning, Regions, ReadsInBounds,
                        RadiotapPhases
  <2> QED
    BY <2>1, <2>2
<1>5. CASE Tlv
  <2>1. CASE off >= limit
    BY <1>5, <2>1, EnterMacKeepsBounds DEF Tlv, BoundsInv, Numbers, Regions, ReadsInBounds,
                                           RadiotapPhases
  <2>2. CASE off < limit /\ ~Available(limit, off, 4)
    BY <1>5, <2>2, FailHereKeepsBounds DEF Tlv, BoundsInv, Numbers
  <2>3. CASE off < limit /\ Available(limit, off, 4)
    <3>1. off + 4 \in Nat /\ off + 4 <= limit /\ phase = "tlvs"
      BY <1>5, <2>3 DEF Tlv, Available, BoundsInv, Numbers
    <3>2. PICK tlv \in Tlvs :
            \/ \E e : Fail(e, off + 4)
            \/ /\ Available(limit, Align(TlvEnd(tlv), 4), 0)
               /\ off' = Align(TlvEnd(tlv), 4) /\ reach' = TlvEnd(tlv)
               /\ Enter("tlvs")
               /\ UNCHANGED <<origin, limit, words, cur, bits, base, std, fields>>
      BY <1>5, <2>3, <3>1 DEF Tlv, BoundsInv, Numbers
    <3>3. TlvEnd(tlv) \in Nat
      BY LengthAssumption DEF TlvEnd, BoundsInv, Numbers
    <3>4. Align(TlvEnd(tlv), 4) \in Nat /\ TlvEnd(tlv) <= Align(TlvEnd(tlv), 4)
      BY <3>3, AlignForward
    <3>5. CASE \E e : Fail(e, off + 4)
      BY <3>1, <3>5, FailKeepsBounds
    <3>6. CASE ~\E e : Fail(e, off + 4)
      <4>1. /\ reach' <= limit /\ reach' \in Nat /\ off' \in Nat /\ phase' = "tlvs"
            /\ UNCHANGED <<len, origin, limit, words, bits, base>>
        BY <3>2, <3>3, <3>4, <3>6 DEF Available, Enter, BoundsInv, Numbers
      <4> QED
        BY <3>1, <4>1 DEF BoundsInv, Numbers, Scanning, Regions, ReadsInBounds,
                          RadiotapPhases
    <3> QED
      BY <3>5, <3>6
  <2> QED
    BY <2>1, <2>2, <2>3 DEF BoundsInv, Numbers
<1> QED
  BY <1>1, <1>2, <1>3, <1>4, <1>5

(* The reads of the 802.11 header and of what follows it stay before the   *)
(* frame check sequence.                                                   *)
LEMMA MacKeepsBounds ==
  ASSUME BoundsInv, FrameControl \/ MacHeader \/ FixedFields \/ Element
  PROVE  BoundsInv'
<1> USE DEF RadiotapPhases
<1>1. CASE FrameControl
  <2>1. CASE limit < 2
    BY <1>1, <2>1, FailHereKeepsBounds DEF FrameControl
  <2>2. CASE ~(limit < 2)
    <3>1. 2 \in Nat /\ 2 <= limit
      BY <2>2 DEF BoundsInv, Numbers
    <3>2. \/ Fail("UNSUPPORTED", 2) \/ Fail("MALFORMED", 2)
          \/ /\ phase = "control" /\ phase' = "header" /\ len' = len /\ reach' = 2
             /\ UNCHANGED <<origin, limit, off, words, cur, bits, base>>
      BY <1>1, <2>2 DEF FrameControl, Enter
    <3> QED
      BY <3>1, <3>2, FailKeepsBounds DEF BoundsInv, Numbers, Scanning, Regions,
                                         ReadsInBounds
  <2> QED
    BY <2>1, <2>2
<1>2. CASE MacHeader
  <2> DEFINE m == frame.mac
             qos == MacLen(m) + (IF HasQos(m) THEN 2 ELSE 0)
             ht == m.order /\ (HasQos(m) \/ m.type = "management")
             end == qos + (IF ht THEN 4 ELSE 0)
             body == IF "pad" \in frame.flags THEN Align(end, 4) ELSE end
  <2>1. qos \in Nat /\ end \in Nat /\ qos <= end
    <3>1. MacLen(m) \in Nat
      BY DEF MacLen
    <3> QED
      BY <3>1
  <2>2. body \in Nat
    BY <2>1, AlignForward
  <2>3. CASE ~Available(limit, 0, end)
    BY <1>2, <2>3, FailHereKeepsBounds DEF MacHeader
  <2>4. CASE Available(limit, 0, end)
    <3>1. qos <= limit
      BY <2>1, <2>4 DEF Available, BoundsInv, Numbers
    <3>2. \/ \E e, f : Return(e, f, qos)
          \/ Fail("TRUNCATED", qos)
          \/ /\ phase = "header" /\ phase' \in {"fixed", "eapol"} /\ len' = len
             /\ reach' = qos /\ (off' = end \/ off' = body)
             /\ UNCHANGED <<origin, limit, words, cur, bits, base>>
      BY <1>2, <2>4 DEF MacHeader, Enter
    <3> HIDE DEF qos, end, body
    <3>3. CASE \E e, f : Return(e, f, qos)
      BY <2>1, <3>1, <3>3, ReturnKeepsBounds
    <3>4. CASE Fail("TRUNCATED", qos)
      BY <2>1, <3>1, <3>4, FailKeepsBounds
    <3>5. CASE /\ phase = "header" /\ phase' \in {"fixed", "eapol"} /\ len' = len
               /\ reach' = qos /\ (off' = end \/ off' = body)
               /\ UNCHANGED <<origin, limit, words, cur, bits, base>>
      BY <2>1, <2>2, <3>1, <3>5 DEF BoundsInv, Numbers, Scanning, Regions, ReadsInBounds
    <3> QED
      BY <3>2, <3>3, <3>4, <3>5
  <2> QED
    BY <2>3, <2>4
<1>3. CASE FixedFields
  <2> DEFINE s == frame.mac.subtype
  <2>1. CASE s \notin DOMAIN FixedLens
    BY <1>3, <2>1, ReturnKeepsBounds DEF FixedFields, BoundsInv, Numbers, ReadsInBounds
  <2>2. CASE s \in DOMAIN FixedLens /\ ~Available(limit, off, FixedLens[s])
    BY <1>3, <2>2, FailHereKeepsBounds DEF FixedFields
  <2>3. CASE s \in DOMAIN FixedLens /\ Available(limit, off, FixedLens[s])
    <3>1. FixedLens[s] \in Nat /\ (s = 11 => FixedLens[s] = 6)
      BY <2>3 DEF FixedLens
    <3>2. off + FixedLens[s] \in Nat /\ off + FixedLens[s] <= limit
      BY <2>3, <3>1 DEF Available, BoundsInv, Numbers
    <3>3. CASE s = 11 /\ Return("OK", frame, off + 6)
      BY <3>1, <3>2, <3>3, ReturnKeepsBounds
    <3>4. CASE /\ phase = "fixed" /\ phase' = "elements" /\ len' = len
               /\ off' = off + FixedLens[s] /\ reach' = off + FixedLens[s]
               /\ UNCHANGED <<origin, limit, words, cur, bits, base>>
      BY <3>2, <3>4 DEF BoundsInv, Numbers, Scanning, Regions, ReadsInBounds
    <3> QED
      BY <1>3, <2>3, <3>3, <3>4 DEF FixedFields, Enter
  <2> QED
    BY <2>1, <2>2, <2>3
<1>4. CASE Element
  <2>1. CASE off >= limit
    BY <1>4, <2>1, ReturnKeepsBounds DEF Element, BoundsInv, Numbers, ReadsInBounds
  <2>2. CASE off < limit /\ ~Available(limit, off, 2)
    BY <1>4, <2>2, FailHereKeepsBounds DEF Element, BoundsInv, Numbers
  <2>3. CASE off < limit /\ Available(limit, off, 2)
    <3>1. off + 2 \in Nat /\ off + 2 <= limit /\ phase = "elements"
      BY <1>4, <2>3 DEF Element, Available, BoundsInv, Numbers
    <3>2. PICK ie \in Elements :
            \/ \E e : Fail(e, off + 2)
            \/ /\ Available(limit, off + 2, ie[2])
               /\ off' = off + 2 + ie[2] /\ reach' = off + 2 + ie[2]
               /\ phase' = "elements" /\ len' = len
               /\ UNCHANGED <<origin, limit, words, cur, bits, base>>
      BY <1>4, <2>3 DEF Element, Enter, BoundsInv, Numbers
    <3>3. ie[2] \in Nat
      BY LengthAssumption
    <3>4. CASE \E e : Fail(e, off + 2)
      BY <3>1, <3>4, FailKeepsBounds
    <3>5. CASE ~\E e : Fail(e, off + 2)
      <4>1. /\ reach' = off + 2 + ie[2] /\ off' = off + 2 + ie[2] /\ off' <= limit
            /\ phase' = "elements" /\ len' = len
            /\ UNCHANGED <<origin, limit, words, cur, bits, base>>
        BY <3>2, <3>5 DEF Available
      <4>2. off' \in Nat
        BY <3>1, <3>3, <4>1
      <4> QED
        BY <3>1, <4>1, <4>2 DEF BoundsInv, Numbers, Scanning, Regions, ReadsInBounds
    <3> QED
      BY <3>4, <3>5
  <2> QED
    BY <2>1, <2>2, <2>3 DEF BoundsInv, Numbers
<1> QED
  BY <1>1, <1>2, <1>3, <1>4

(* An EAPOL packet is read as far as its body length and the frame allow.  *)
LEMMA EapolKeepsBounds ==
  ASSUME BoundsInv, Eapol
  PROVE  BoundsInv'
<1>1. /\ off \in Nat /\ limit \in Nat /\ reach \in Nat /\ reach <= limit
  BY DEF BoundsInv, Numbers, ReadsInBounds
<1>2. CASE ~Available(limit, off, 8)
  BY <1>1, <1>2, ReturnKeepsBounds DEF Eapol
<1>3. CASE Available(limit, off, 8)
  <2>1. off + 8 \in Nat /\ off + 8 <= limit
    BY <1>1, <1>3 DEF Available
  <2>2. CASE Return("OK", frame, off + 8)
    BY <2>1, <2>2, ReturnKeepsBounds
  <2>3. CASE \E k \in EapolKeys : LET v == KeyVerdict(k) IN Return(v[1], v[2], v[3])
    <3>1. PICK k \in EapolKeys :
            Return(KeyVerdict(k)[1], KeyVerdict(k)[2], KeyVerdict(k)[3])
      BY <2>3
    <3>2. k.bodyLen \in Nat
      BY LengthAssumption
    <3>3. KeyVerdict(k)[3] \in Nat /\ KeyVerdict(k)[3] <= limit
      BY <1>1, <2>1, <3>2 DEF KeyVerdict, Available
    <3> QED
      BY <3>1, <3>3, ReturnKeepsBounds
  <2> QED
    BY <1>3, <2>2, <2>3 DEF Eapol
<1> QED
  BY <1>2, <1>3

(* Every step keeps the regions.                                           *)
LEMMA BoundsKept ==
  ASSUME BoundsInv, [Next]_vars
  PROVE  BoundsInv'
<1>1. CASE Open \/ NextRefused \/ NextShort \/ NextRecord \/ Consume
  BY <1>1, ReaderKeepsBounds
<1>2. CASE PresenceWord \/ BothNamespaces \/ StandardNamespace \/ VendorField \/ EndOfWord
  BY <1>2, WordsKeepBounds
<1>3. CASE RadiotapHeader \/ VendorNamespace \/ StartTlvs \/ StandardField \/ Tlv
  BY <1>3, RadiotapKeepsBounds
<1>4. CASE FrameControl \/ MacHeader \/ FixedFields \/ Element
  BY <1>4, MacKeepsBounds
<1>5. CASE Eapol
  BY <1>5, EapolKeepsBounds
<1>6. CASE UNCHANGED vars
  BY <1>6 DEF vars, local, BoundsInv, Numbers, Scanning, Regions, ReadsInBounds
<1> QED
  BY <1>1, <1>2, <1>3, <1>4, <1>5, <1>6 DEF Next, Decode

(* No byte is read outside the region being decoded, whatever the file and *)
(* the headers in it say.                                                  *)
THEOREM ReadsAreBounded == Spec => []ReadsInBounds
<1>1. Init => BoundsInv
  BY LengthAssumption DEF Init, BoundsInv, Numbers, Scanning, Regions, ReadsInBounds,
                          RadiotapPhases
<1>2. BoundsInv /\ [Next]_vars => BoundsInv'
  BY BoundsKept
<1>3. BoundsInv => ReadsInBounds
  BY DEF BoundsInv
<1> QED
  BY <1>1, <1>2, <1>3, PTL DEF Spec

(* The reader is in step whenever it could be read on or handed a record   *)
(* out: what makes RecordsFromBoundaries inductive.                        *)
StepInv ==
    /\ reader \in [open : BOOLEAN, snaplen : Nat, radiotap : BOOLEAN]
    /\ status = "none" => inStep /\ phase = "idle"
    /\ reader.open => inStep
    /\ phase # "idle" => inStep

(* Decoding leaves the reader alone and returns a verdict.                 *)
LEMMA DecodeKeepsReader ==
  ASSUME Decode
  PROVE  /\ reader' = reader /\ inStep' = inStep /\ phase # "idle"
         /\ status' = status \/ status' # "none"
<1> USE DEF Enter, Return, Fail
<1>1. \A start, f : EnterMac(start, f) =>
        reader' = reader /\ inStep' = inStep /\ (status' = status \/ status' # "none")
  BY DEF EnterMac
<1>2. CASE RadiotapHeader \/ PresenceWord \/ BothNamespaces
  BY <1>2 DEF RadiotapHeader, PresenceWord, BothNamespaces
<1>3. CASE StandardNamespace \/ VendorNamespace \/ VendorField \/ StartTlvs
  BY <1>3 DEF StandardNamespace, VendorNamespace, VendorField, StartTlvs, Scan
<1>4. CASE StandardField
  BY <1>4 DEF StandardField, Scan
<1>5. CASE EndOfWord
  BY <1>1, <1>5 DEF EndOfWord
<1>6. CASE Tlv
  BY <1>1, <1>6 DEF Tlv
<1>7. CASE FrameControl \/ FixedFields
  BY <1>7 DEF FrameControl, FixedFields
<1>8. CASE MacHeader
  BY <1>8 DEF MacHeader
<1>9. CASE Element
  BY <1>9 DEF Element
<1>10. CASE Eapol
  <2>1. \A k : KeyVerdict(k)[1] # "none"
    BY DEF KeyVerdict
  <2> QED
    BY <1>10, <2>1 DEF Eapol
<1> QED
  BY <1>2, <1>3, <1>4, <1>5, <1>6, <1>7, <1>8, <1>9, <1>10 DEF Decode

(* Every step keeps the reader in step.                                    *)
LEMMA StepKept ==
  ASSUME StepInv, [Next]_vars
  PROVE  StepInv'
<1>1. CASE Open
  <2>1. /\ reader' = reader \/ \E s \in SnapLens, r \in BOOLEAN :
             reader' = [open |-> TRUE, snaplen |-> s, radiotap |-> r]
        /\ inStep' = inStep /\ phase' = phase /\ status' # "none"
    BY <1>1 DEF Open
  <2>2. inStep /\ phase = "idle"
    BY <1>1 DEF Open, StepInv
  <2>3. reader' \in [open : BOOLEAN, snaplen : Nat, radiotap : BOOLEAN]
    <3>1. \A s \in SnapLens : s \in Nat
      BY LengthAssumption
    <3>2. CASE reader' = reader
      BY <3>2 DEF StepInv
    <3>3. CASE reader' # reader
      <4>1. PICK s \in SnapLens, r \in BOOLEAN :
              reader' = [open |-> TRUE, snaplen |-> s, radiotap |-> r]
        BY <2>1, <3>3
      <4> QED
        BY <3>1, <4>1
    <3> QED
      BY <3>2, <3>3
  <2>4. inStep' /\ phase' = "idle" /\ status' # "none"
    BY <2>1, <2>2
  <2> QED
    BY <2>3, <2>4 DEF StepInv
<1>2. CASE NextRefused \/ Consume
  BY <1>2 DEF NextRefused, Consume, StepInv
<1>3. CASE NextShort
  <2>1. PICK e \in {"IO", "TRUNCATED", "EOF"} :
          /\ status' = e /\ reader' = [reader EXCEPT !.open = (e = "EOF")]
          /\ inStep' = (inStep /\ e = "EOF")
    BY <1>3 DEF NextShort
  <2>2. reader.open /\ inStep /\ phase = "idle" /\ phase' = phase
    BY <1>3 DEF NextShort, StepInv
  <2>3. CASE e = "EOF"
    BY <2>1, <2>2, <2>3 DEF StepInv
  <2>4. CASE e # "EOF"
    BY <2>1, <2>2, <2>4 DEF StepInv
  <2> QED
    BY <2>3, <2>4
<1>4. CASE NextRecord
  <2>1. PICK e : /\ status' = e /\ reader' = [reader EXCEPT !.open = (e = "OK")]
                 /\ inStep' = (inStep /\ e = "OK") /\ phase = "idle"
                 /\ (e # "OK" => phase' = phase) /\ e # "none"
    BY <1>4 DEF NextRecord, ReaderAfter, RecordVerdict
  <2>2. reader.open /\ inStep
    BY <1>4 DEF NextRecord, StepInv
  <2> QED
    BY <2>1, <2>2 DEF StepInv
<1>5. CASE Decode
  <2>1. /\ reader' = reader /\ inStep' = inStep /\ phase # "idle"
        /\ status' = status \/ status' # "none"
    BY <1>5, DecodeKeepsReader
  <2> QED
    BY <2>1 DEF StepInv
<1>6. CASE UNCHANGED vars
  BY <1>6 DEF vars, StepInv
<1> QED
  BY <1>1, <1>2, <1>3, <1>4, <1>5, <1>6 DEF Next

(* A record is handed out only from a record boundary: after an error      *)
(* within a record the reader has no file, whatever the caller does.       *)
THEOREM RecordsStayInStep == Spec => []RecordsFromBoundaries
<1>1. Init => StepInv
  BY DEF Init, StepInv
<1>2. StepInv /\ [Next]_vars => StepInv'
  BY StepKept
<1>3. StepInv => RecordsFromBoundaries
  BY DEF StepInv, RecordsFromBoundaries
<1> QED
  BY <1>1, <1>2, <1>3, PTL DEF Spec

---------------------------------------------------------------------------
(* The frame the caller gets.                                              *)

Ies == [id : Nat, size : Nat, at : Nat]

Frames == [has : SUBSET {0, 1, 2, 3, 5, 19}, flags : SUBSET {"fcs", "pad"},
           mac : MacHeaders \cup {NoMac}, headerLen : 0..36, ies : Seq(Ies),
           first : [KeptIds -> Nat], key : BOOLEAN, msg : 0..4]

\* The elements of a frame that have an identifier.
SameId(f, i) == {k \in DOMAIN f.ies : f.ies[k].id = i}

\* The first element with an identifier is the one that is kept, if there is one.
FirstKept(f, i) ==
    IF SameId(f, i) = {} THEN f.first[i] = 0
    ELSE f.first[i] \in SameId(f, i) /\ \A k \in SameId(f, i) : f.first[i] <= k

\* The frame is one the decoder may build, and has the first of each kept element.
FrameInv ==
    /\ frame \in Frames /\ Len(frame.ies) <= MaxIes
    /\ \A i \in KeptIds : FirstKept(frame, i)

\* How a step may change the frame.
Valued == \E index, size : frame' \in WithValue(index, size)
Listed == \E ie \in Elements : ~IesFull /\ frame' = WithElement(ie[1], ie[2])
Measured ==
    \/ \E m \in MacHeaders : frame' = [frame EXCEPT !.mac = m]
    \/ \E e \in 0..36 : frame' = [frame EXCEPT !.headerLen = e]
    \/ \E m \in 0..4 : frame' = [frame EXCEPT !.key = TRUE, !.msg = m]

(* The fixed part of a header has one of a few lengths.                    *)
LEMMA HeaderLengths ==
  ASSUME NEW m
  PROVE  MacLen(m) \in {10, 16, 24, 30}
  BY DEF MacLen

(* The number of a handshake message.                                      *)
LEMMA MessageNumbers ==
  ASSUME NEW k
  PROVE  Message(k) \in 0..4
  BY DEF Message

(* Every step leaves the frame, empties it, or adds one thing to it.       *)
LEMMA FrameStep ==
  ASSUME [Next]_vars
  PROVE  frame' = frame \/ frame' = EmptyFrame \/ Valued \/ Listed \/ Measured
<1> USE DEF Enter, Return, Fail
<1>1. \A start, f : EnterMac(start, f) => frame' = f \/ frame' = EmptyFrame
  BY DEF EnterMac
<1>2. CASE Open \/ NextRefused \/ NextShort \/ NextRecord \/ Consume
  BY <1>2 DEF Open, NextRefused, NextShort, NextRecord, Consume
<1>3. CASE RadiotapHeader \/ PresenceWord \/ BothNamespaces
  BY <1>3 DEF RadiotapHeader, PresenceWord, BothNamespaces
<1>4. CASE StandardNamespace \/ VendorNamespace \/ VendorField \/ StartTlvs
  BY <1>4 DEF StandardNamespace, VendorNamespace, VendorField, StartTlvs
<1>5. CASE StandardField
  BY <1>5 DEF StandardField, Valued
<1>6. CASE EndOfWord
  BY <1>1, <1>6 DEF EndOfWord
<1>7. CASE Tlv
  <2>1. CASE off >= limit
    BY <1>1, <1>7, <2>1 DEF Tlv
  <2>2. CASE ~(off >= limit)
    BY <1>7, <2>2 DEF Tlv, Valued
  <2> QED
    BY <2>1, <2>2
<1>8. CASE FrameControl
  BY <1>8 DEF FrameControl, Measured
<1>9. CASE MacHeader
  <2> DEFINE m == frame.mac
             qos == MacLen(m) + (IF HasQos(m) THEN 2 ELSE 0)
             ht == m.order /\ (HasQos(m) \/ m.type = "management")
             end == qos + (IF ht THEN 4 ELSE 0)
  <2>1. end \in 0..36
    BY HeaderLengths
  <2>2. frame' = EmptyFrame \/ frame' = [frame EXCEPT !.headerLen = end]
    BY <1>9 DEF MacHeader
  <2> HIDE DEF end
  <2> QED
    BY <2>1, <2>2 DEF Measured
<1>10. CASE FixedFields
  BY <1>10 DEF FixedFields
<1>11. CASE Element
  BY <1>11 DEF Element, Listed
<1>12. CASE Eapol
  <2>1. \A k : \/ KeyVerdict(k)[2] = frame
               \/ KeyVerdict(k)[2] = [frame EXCEPT !.key = TRUE, !.msg = Message(k)]
    BY DEF KeyVerdict
  <2>2. \/ frame' = frame \/ frame' = EmptyFrame
        \/ \E k \in EapolKeys : frame' = KeyVerdict(k)[2]
    BY <1>12 DEF Eapol
  <2>3. \/ frame' = frame \/ frame' = EmptyFrame
        \/ \E k : frame' = [frame EXCEPT !.key = TRUE, !.msg = Message(k)]
    BY <2>1, <2>2
  <2> QED
    BY <2>3, MessageNumbers DEF Measured
<1>13. CASE UNCHANGED vars
  BY <1>13 DEF vars
<1> QED
  BY <1>2, <1>3, <1>4, <1>5, <1>6, <1>7, <1>8, <1>9, <1>10, <1>11, <1>12, <1>13
     DEF Next, Decode

(* A frame with other values has the same elements.                        *)
LEMMA SameElements ==
  ASSUME NEW f, NEW g, f.ies = g.ies, f.first = g.first, \A i \in KeptIds : FirstKept(f, i)
  PROVE  \A i \in KeptIds : FirstKept(g, i)
  BY DEF FirstKept, SameId

(* A radiotap value is a frame with the same elements.                     *)
LEMMA ValueKeepsFrame ==
  ASSUME frame \in Frames, NEW index, NEW size, NEW f \in WithValue(index, size)
  PROVE  /\ f \in Frames /\ f.ies = frame.ies /\ f.first = frame.first
         /\ f.mac = frame.mac /\ f.headerLen = frame.headerLen
<1> DEFINE seen == [frame EXCEPT !.has = @ \cup ({index} \cap {0, 1, 2, 3, 5, 19})]
<1>1. /\ seen \in Frames /\ seen.ies = frame.ies /\ seen.first = frame.first
      /\ seen.mac = frame.mac /\ seen.headerLen = frame.headerLen
  BY DEF Frames
<1>2. f = seen \/ \E fl \in SUBSET {"fcs", "pad"} : f = [seen EXCEPT !.flags = fl]
  BY DEF WithValue
<1> HIDE DEF seen
<1> QED
  BY <1>1, <1>2 DEF Frames

(* The parts of a frame with one more element.                             *)
LEMMA ElementParts ==
  ASSUME frame \in Frames, origin \in Nat, off \in Nat, NEW id \in Nat, NEW size \in Nat
  PROVE  /\ WithElement(id, size) \in Frames
         /\ WithElement(id, size).mac = frame.mac
         /\ WithElement(id, size).flags = frame.flags
         /\ WithElement(id, size).headerLen = frame.headerLen
         /\ WithElement(id, size).ies =
              Append(frame.ies, [id |-> id, size |-> size, at |-> origin + off + 2])
         /\ \A i \in KeptIds : WithElement(id, size).first[i] =
              IF i = id /\ frame.first[i] = 0 THEN Len(frame.ies) + 1 ELSE frame.first[i]
<1> DEFINE e == [id |-> id, size |-> size, at |-> origin + off + 2]
           n == Len(frame.ies) + 1
           longer == Append(frame.ies, e)
           kept == [i \in KeptIds |-> IF i = id /\ frame.first[i] = 0 THEN n ELSE frame.first[i]]
<1>1. e \in Ies
  BY DEF Ies
<1>2. longer \in Seq(Ies) /\ n \in Nat
  BY <1>1 DEF Frames
<1>3. kept \in [KeptIds -> Nat]
  BY <1>2 DEF Frames
<1>4. WithElement(id, size) = [frame EXCEPT !.ies = longer, !.first = kept]
  BY DEF WithElement
<1> HIDE DEF e, n, longer, kept
<1>5. /\ WithElement(id, size) \in Frames
      /\ WithElement(id, size).mac = frame.mac
      /\ WithElement(id, size).flags = frame.flags
      /\ WithElement(id, size).headerLen = frame.headerLen
      /\ WithElement(id, size).ies = longer
      /\ WithElement(id, size).first = kept
  BY <1>2, <1>3, <1>4 DEF Frames
<1> QED
  BY <1>5 DEF e, n, longer, kept

(* One more element keeps the first of each kind, and the list bounded.    *)
LEMMA ElementKeepsFirst ==
  ASSUME FrameInv, origin \in Nat, off \in Nat, NEW id \in Nat, NEW size \in Nat, ~IesFull
  PROVE  /\ Len(WithElement(id, size).ies) <= MaxIes
         /\ \A i \in KeptIds : FirstKept(WithElement(id, size), i)
<1> DEFINE e == [id |-> id, size |-> size, at |-> origin + off + 2]
           n == Len(frame.ies)
           g == WithElement(id, size)
<1>1. /\ g.ies = Append(frame.ies, e) /\ frame.ies \in Seq(Ies) /\ n \in Nat
      /\ \A i \in KeptIds : g.first[i] =
            IF i = id /\ frame.first[i] = 0 THEN n + 1 ELSE frame.first[i]
  BY ElementParts DEF FrameInv, Frames
<1>2. e \in Ies /\ e.id = id
  BY DEF Ies
<1> HIDE DEF e, g
<1>3. /\ Len(g.ies) = n + 1 /\ DOMAIN g.ies = 1..(n + 1) /\ g.ies[n + 1] = e
      /\ DOMAIN frame.ies = 1..n /\ \A k \in 1..n : g.ies[k] = frame.ies[k]
  BY <1>1, <1>2
<1>4. Len(g.ies) <= MaxIes
  BY <1>1, <1>3, LengthAssumption DEF FrameInv, IesFull
<1>5. ASSUME NEW i \in KeptIds PROVE FirstKept(g, i)
  <2>1. SameId(frame, i) \subseteq 1..n
    BY <1>3 DEF SameId
  <2>2. CASE i # id
    <3>1. SameId(g, i) = SameId(frame, i)
      BY <1>2, <1>3, <2>2 DEF SameId
    <3>2. g.first[i] = frame.first[i]
      BY <1>1, <2>2
    <3> QED
      BY <3>1, <3>2 DEF FirstKept, FrameInv
  <2>3. CASE i = id /\ SameId(frame, i) = {}
    <3>1. SameId(g, i) = {n + 1}
      BY <1>1, <1>2, <1>3, <2>3 DEF SameId
    <3>2. g.first[i] = n + 1
      BY <1>1, <2>3 DEF FirstKept, FrameInv
    <3>3. n + 1 \in Nat
      BY <1>1
    <3>4. g.first[i] \in SameId(g, i) /\ \A k \in SameId(g, i) : g.first[i] <= k
      BY <3>1, <3>2, <3>3
    <3> QED
      BY <3>4 DEF FirstKept
  <2>4. CASE i = id /\ SameId(frame, i) # {}
    <3>1. SameId(g, i) = SameId(frame, i) \cup {n + 1}
      BY <1>1, <1>2, <1>3, <2>4 DEF SameId
    <3>2. frame.first[i] \in SameId(frame, i) /\ \A k \in SameId(frame, i) : frame.first[i] <= k
      BY <2>4 DEF FirstKept, FrameInv
    <3>3. frame.first[i] \in 1..n
      BY <2>1, <3>2
    <3>4. g.first[i] = frame.first[i]
      BY <1>1, <3>3
    <3>5. g.first[i] <= n + 1
      BY <1>1, <3>3, <3>4
    <3> QED
      BY <3>1, <3>2, <3>4, <3>5 DEF FirstKept
  <2> QED
    BY <2>2, <2>3, <2>4
<1> QED
  BY <1>4, <1>5 DEF g

(* A frame the decoder has not begun to fill.                              *)
LEMMA EmptyFrameKept ==
  /\ EmptyFrame \in Frames /\ EmptyFrame.ies = <<>> /\ Len(EmptyFrame.ies) <= MaxIes
  /\ \A i \in KeptIds : FirstKept(EmptyFrame, i)
<1>1. EmptyFrame \in Frames
  <2>1. <<>> \in Seq(Ies) /\ [i \in KeptIds |-> 0] \in [KeptIds -> Nat]
    OBVIOUS
  <2> QED
    BY <2>1 DEF EmptyFrame, Frames
<1>2. EmptyFrame.ies = <<>> /\ EmptyFrame.first = [i \in KeptIds |-> 0]
  BY DEF EmptyFrame
<1>3. \A i \in KeptIds : SameId(EmptyFrame, i) = {}
  BY <1>2 DEF SameId
<1>4. \A i \in KeptIds : EmptyFrame.first[i] = 0
  BY <1>2
<1> QED
  BY <1>1, <1>2, <1>3, <1>4, LengthAssumption DEF FirstKept

(* Every step keeps the frame.                                             *)
LEMMA FrameKept ==
  ASSUME FrameInv, Numbers, [Next]_vars
  PROVE  FrameInv'
<1>0. \A i \in KeptIds : FirstKept(frame, i)
  BY DEF FrameInv
<1>1. CASE frame' = frame
  BY <1>1 DEF FrameInv, FirstKept, SameId
<1>2. CASE frame' = EmptyFrame
  <2>1. frame' \in Frames /\ Len(frame'.ies) <= MaxIes
    BY <1>2, EmptyFrameKept
  <2>2. \A i \in KeptIds : FirstKept(frame', i)
    BY <1>2, EmptyFrameKept
  <2> QED
    BY <2>1, <2>2 DEF FrameInv, FirstKept, SameId
<1>3. ASSUME frame' \in Frames, frame'.ies = frame.ies, frame'.first = frame.first
      PROVE  FrameInv'
  <2>1. \A i \in KeptIds : FirstKept(frame', i)
    BY <1>0, <1>3, SameElements
  <2> QED
    BY <1>3, <2>1 DEF FrameInv, FirstKept, SameId
<1>4. CASE Valued
  BY <1>3, <1>4, ValueKeepsFrame DEF Valued, FrameInv
<1>5. CASE Measured
  <2>1. frame' \in Frames /\ frame'.ies = frame.ies /\ frame'.first = frame.first
    BY <1>5, ZenonT(30) DEF Measured, FrameInv, Frames
  <2> QED
    BY <1>3, <2>1
<1>6. CASE Listed
  <2>1. PICK ie \in Elements : ~IesFull /\ frame' = WithElement(ie[1], ie[2])
    BY <1>6 DEF Listed
  <2>2. ie[1] \in Nat /\ ie[2] \in Nat /\ origin \in Nat /\ off \in Nat
    BY LengthAssumption DEF Numbers
  <2>3. frame' \in Frames
    BY <2>1, <2>2, ElementParts DEF FrameInv
  <2>4. Len(frame'.ies) <= MaxIes /\ \A i \in KeptIds : FirstKept(frame', i)
    BY <2>1, <2>2, ElementKeepsFirst
  <2> QED
    BY <2>3, <2>4 DEF FrameInv, FirstKept, SameId
<1> QED
  BY <1>1, <1>2, <1>4, <1>5, <1>6, FrameStep

---------------------------------------------------------------------------
(* Types.                                                                  *)

Statuses == {"none", "OK"} \cup Errors
Phases   == {"idle", "parsed"} \cup Decoding
FieldAt  == [index : 0..27, from : Nat, to : Nat]

\* What the regions, the frame and the reader leave to say about types.
Choices ==
    /\ inStep \in BOOLEAN /\ std \in BOOLEAN /\ turn \in BOOLEAN
    /\ status \in Statuses /\ phase \in Phases
    /\ cur \in Nat /\ fields \in Seq(FieldAt)

\* Every variable has its type, and every region and frame is well formed.
TypesInv == BoundsInv /\ StepInv /\ FrameInv /\ Choices

(* An EAPOL packet ends with a verdict.                                    *)
LEMMA KeyStatuses ==
  ASSUME NEW k
  PROVE  KeyVerdict(k)[1] \in Statuses
  BY DEF KeyVerdict, Statuses, Errors

(* A field has the index its presence bit and word give it, and lies where *)
(* the scan comes to.                                                      *)
LEMMA FieldStep ==
  ASSUME Numbers, Choices, StandardField
  PROVE  fields' \in Seq(FieldAt)
<1>0. fields \in Seq(FieldAt)
  BY DEF Choices
<1>1. CASE fields' # fields
  <2>1. PICK b \in bits \cap 0..28 :
          LET start == Align(off, FieldAlign[base + b + 1])
              size == FieldSize[base + b + 1]
          IN  /\ base + b # 28 /\ ~(base + b > 28)
              /\ fields' = Append(fields, [index |-> base + b, from |-> start,
                                           to |-> start + size])
    BY <1>1 DEF StandardField, Scan, Fail, Return
  <2> DEFINE start == Align(off, FieldAlign[base + b + 1])
             size == FieldSize[base + b + 1]
  <2>2. base + b \in 0..27
    <3>1. b \in 0..28 /\ base + b # 28 /\ ~(base + b > 28)
      BY <2>1
    <3> QED
      BY <3>1 DEF Numbers
  <2>3. start \in Nat /\ size \in Nat
    BY <2>2, FieldTables, AlignForward DEF Numbers
  <2> DEFINE f == [index |-> base + b, from |-> start, to |-> start + size]
  <2>4. fields' = Append(fields, f)
    BY <2>1
  <2> HIDE DEF start, size
  <2>5. f \in FieldAt
    BY <2>2, <2>3 DEF FieldAt
  <2> HIDE DEF f
  <2> QED
    BY <1>0, <2>4, <2>5
<1> QED
  BY <1>0, <1>1

(* The decoder's flags stay flags.                                         *)
LEMMA DecodeFlags ==
  ASSUME Choices, Numbers, Scanning, Decode
  PROVE  std' \in BOOLEAN /\ turn' \in BOOLEAN
<1> USE DEF Choices, Enter, Return, Fail
<1>1. ASSUME NEW start, NEW f, EnterMac(start, f)
      PROVE  std' \in BOOLEAN /\ turn' \in BOOLEAN
  BY <1>1 DEF EnterMac, ClearLocals
<1>2. CASE RadiotapHeader
  BY <1>2 DEF RadiotapHeader
<1>3. CASE PresenceWord
  BY <1>3 DEF PresenceWord
<1>4. CASE BothNamespaces
  BY <1>4 DEF BothNamespaces
<1>5. CASE StandardNamespace
  BY <1>5 DEF StandardNamespace, Scan
<1>6. CASE VendorNamespace
  BY <1>6 DEF VendorNamespace, Scan
<1>7. CASE VendorField
  BY <1>7 DEF VendorField, Scan
<1>8. CASE StartTlvs
  BY <1>8 DEF StartTlvs, Scan
<1>9. CASE StandardField
  BY <1>9 DEF StandardField, Scan
<1>10. CASE EndOfWord
  BY <1>1, <1>10 DEF EndOfWord
<1>11. CASE Tlv
  BY <1>1, <1>11 DEF Tlv
<1>12. CASE FrameControl
  BY <1>12 DEF FrameControl
<1>13. CASE MacHeader
  BY <1>13 DEF MacHeader
<1>14. CASE FixedFields
  BY <1>14 DEF FixedFields
<1>15. CASE Element
  BY <1>15 DEF Element
<1>16. CASE Eapol
  BY <1>16 DEF Eapol
<1> QED
  BY <1>2, <1>3, <1>4, <1>5, <1>6, <1>7, <1>8, <1>9, <1>10, <1>11, <1>12, <1>13, <1>14, <1>15, <1>16
     DEF Decode

(* The decoder returns a verdict.                                          *)
LEMMA DecodeStatus ==
  ASSUME Choices, Numbers, Scanning, Decode
  PROVE  status' \in Statuses
<1> USE DEF Choices, Enter, Return, Fail, Statuses, Errors
<1>1. ASSUME NEW start, NEW f, EnterMac(start, f)
      PROVE  status' \in Statuses
  BY <1>1 DEF EnterMac, ClearLocals
<1>2. CASE RadiotapHeader
  BY <1>2 DEF RadiotapHeader
<1>3. CASE PresenceWord
  BY <1>3 DEF PresenceWord
<1>4. CASE BothNamespaces
  BY <1>4 DEF BothNamespaces
<1>5. CASE StandardNamespace
  BY <1>5 DEF StandardNamespace, Scan
<1>6. CASE VendorNamespace
  BY <1>6 DEF VendorNamespace, Scan
<1>7. CASE VendorField
  BY <1>7 DEF VendorField, Scan
<1>8. CASE StartTlvs
  BY <1>8 DEF StartTlvs, Scan
<1>9. CASE StandardField
  BY <1>9 DEF StandardField, Scan
<1>10. CASE EndOfWord
  BY <1>1, <1>10 DEF EndOfWord
<1>11. CASE Tlv
  BY <1>1, <1>11 DEF Tlv
<1>12. CASE FrameControl
  BY <1>12 DEF FrameControl
<1>13. CASE MacHeader
  BY <1>13 DEF MacHeader
<1>14. CASE FixedFields
  BY <1>14 DEF FixedFields
<1>15. CASE Element
  BY <1>15 DEF Element
<1>16. CASE Eapol
  BY <1>16, KeyStatuses DEF Eapol
<1> QED
  BY <1>2, <1>3, <1>4, <1>5, <1>6, <1>7, <1>8, <1>9, <1>10, <1>11, <1>12, <1>13, <1>14, <1>15, <1>16
     DEF Decode

(* The decoder goes from phase to phase.                                   *)
LEMMA DecodePhase ==
  ASSUME Choices, Numbers, Scanning, Decode
  PROVE  phase' \in Phases /\ cur' \in Nat
<1> USE DEF Choices, Enter, Return, Fail, Phases, Decoding
<1>1. ASSUME NEW start, NEW f, EnterMac(start, f)
      PROVE  phase' \in Phases /\ cur' \in Nat
  BY <1>1 DEF EnterMac, ClearLocals
<1>2. CASE RadiotapHeader
  BY <1>2 DEF RadiotapHeader
<1>3. CASE PresenceWord
  BY <1>3 DEF PresenceWord
<1>4. CASE BothNamespaces
  BY <1>4 DEF BothNamespaces
<1>5. CASE StandardNamespace
  BY <1>5 DEF StandardNamespace, Scan
<1>6. CASE VendorNamespace
  BY <1>6 DEF VendorNamespace, Scan
<1>7. CASE VendorField
  BY <1>7 DEF VendorField, Scan
<1>8. CASE StartTlvs
  BY <1>8 DEF StartTlvs, Scan
<1>9. CASE StandardField
  BY <1>9 DEF StandardField, Scan
<1>10. CASE EndOfWord
  BY <1>1, <1>10 DEF EndOfWord
<1>11. CASE Tlv
  BY <1>1, <1>11 DEF Tlv
<1>12. CASE FrameControl
  BY <1>12 DEF FrameControl
<1>13. CASE MacHeader
  BY <1>13 DEF MacHeader
<1>14. CASE FixedFields
  BY <1>14 DEF FixedFields
<1>15. CASE Element
  BY <1>15 DEF Element
<1>16. CASE Eapol
  BY <1>16 DEF Eapol
<1> QED
  BY <1>2, <1>3, <1>4, <1>5, <1>6, <1>7, <1>8, <1>9, <1>10, <1>11, <1>12, <1>13, <1>14, <1>15, <1>16
     DEF Decode

(* The decoder's fields are fields.                                        *)
LEMMA DecodeFields ==
  ASSUME Choices, Numbers, Scanning, Decode
  PROVE  fields' \in Seq(FieldAt)
<1> USE DEF Choices, Enter, Return, Fail
<1>1. ASSUME NEW start, NEW f, EnterMac(start, f)
      PROVE  fields' \in Seq(FieldAt)
  <2>1. fields' = fields \/ fields' = <<>>
    BY <1>1 DEF EnterMac, ClearLocals
  <2>2. fields \in Seq(FieldAt) /\ <<>> \in Seq(FieldAt)
    OBVIOUS
  <2> HIDE DEF Choices, Enter, Return, Fail
  <2> QED
    BY <2>1, <2>2
<1>2. CASE RadiotapHeader
  BY <1>2 DEF RadiotapHeader
<1>3. CASE PresenceWord
  BY <1>3 DEF PresenceWord
<1>4. CASE BothNamespaces
  BY <1>4 DEF BothNamespaces
<1>5. CASE StandardNamespace
  BY <1>5 DEF StandardNamespace, Scan
<1>6. CASE VendorNamespace
  BY <1>6 DEF VendorNamespace, Scan
<1>7. CASE VendorField
  BY <1>7 DEF VendorField, Scan
<1>8. CASE StartTlvs
  BY <1>8 DEF StartTlvs, Scan
<1>9. CASE StandardField
  BY <1>9, FieldStep
<1>10. CASE EndOfWord
  BY <1>1, <1>10 DEF EndOfWord
<1>11. CASE Tlv
  BY <1>1, <1>11 DEF Tlv
<1>12. CASE FrameControl
  BY <1>12 DEF FrameControl
<1>13. CASE MacHeader
  BY <1>13 DEF MacHeader
<1>14. CASE FixedFields
  BY <1>14 DEF FixedFields
<1>15. CASE Element
  BY <1>15 DEF Element
<1>16. CASE Eapol
  BY <1>16 DEF Eapol
<1> QED
  BY <1>2, <1>3, <1>4, <1>5, <1>6, <1>7, <1>8, <1>9, <1>10, <1>11, <1>12, <1>13, <1>14, <1>15, <1>16
     DEF Decode

(* Every step of the decoder keeps the choices.                            *)
LEMMA DecodeKeepsChoices ==
  ASSUME Choices, Numbers, Scanning, Decode
  PROVE  Choices'
<1>1. inStep' \in BOOLEAN
  BY DecodeKeepsReader DEF Choices
<1> QED
  BY <1>1, DecodeFlags, DecodeStatus, DecodePhase, DecodeFields DEF Choices

(* Every step keeps the choices.                                           *)
LEMMA ChoicesKept ==
  ASSUME Choices, Numbers, Scanning, [Next]_vars
  PROVE  Choices'
<1> USE DEF Statuses, Phases, Errors, Decoding
<1>1. CASE Open \/ NextRefused
  BY <1>1 DEF Open, NextRefused, local, Choices
<1>2. CASE NextShort
  BY <1>2 DEF NextShort, local, Choices
<1>3. CASE NextRecord
  <2>1. PICK e \in Statuses : /\ status' = e /\ inStep' = (inStep /\ e = "OK")
                              /\ phase' \in {phase, "radiotap", "control"}
                              /\ UNCHANGED <<std, turn, cur, fields>>
    BY <1>3 DEF NextRecord, RecordVerdict, local
  <2> QED
    BY <2>1 DEF Choices
<1>4. CASE Consume
  BY <1>4 DEF Consume, ClearLocals, Choices
<1>5. CASE Decode
  BY <1>5, DecodeKeepsChoices
<1>6. CASE UNCHANGED vars
  BY <1>6 DEF vars, local, Choices
<1> QED
  BY <1>1, <1>2, <1>3, <1>4, <1>5, <1>6 DEF Next

(* Every step keeps the types.                                             *)
LEMMA TypesKept ==
  ASSUME TypesInv, [Next]_vars
  PROVE  TypesInv'
<1>1. BoundsInv' /\ StepInv'
  BY BoundsKept, StepKept DEF TypesInv
<1>2. FrameInv' /\ Choices'
  BY FrameKept, ChoicesKept DEF TypesInv, BoundsInv
<1> QED
  BY <1>1, <1>2 DEF TypesInv

(* The reader starts closed and the decoder idle.                          *)
LEMMA TypesBegin ==
  ASSUME Init
  PROVE  TypesInv
<1>1. BoundsInv /\ StepInv
  BY LengthAssumption DEF Init, BoundsInv, Numbers, Scanning, Regions, ReadsInBounds,
                          RadiotapPhases, StepInv
<1>2. FrameInv
  BY EmptyFrameKept DEF Init, FrameInv
<1>3. Choices
  <2>1. fields \in Seq(FieldAt)
    BY DEF Init
  <2> QED
    BY <2>1 DEF Init, Choices, Statuses, Phases
<1> QED
  BY <1>1, <1>2, <1>3 DEF TypesInv

(* The types are those of TypeOK.                                          *)
LEMMA TypesHold ==
  ASSUME TypesInv
  PROVE  TypeOK /\ FirstElementWins
<1> USE DEF TypesInv
<1>1. FirstElementWins
  BY DEF FrameInv, FirstKept, SameId, FirstElementWins
<1>2. ASSUME NEW i \in KeptIds PROVE frame.first[i] \in 0..Len(frame.ies)
  <2>1. FirstKept(frame, i) /\ DOMAIN frame.ies = 1..Len(frame.ies) /\ Len(frame.ies) \in Nat
    BY DEF FrameInv, Frames
  <2> QED
    BY <2>1 DEF FirstKept, SameId
<1>3. \A n \in DOMAIN fields : fields[n].index \in 0..27
  <2>1. \A n \in DOMAIN fields : fields[n] \in FieldAt
    BY DEF Choices
  <2> QED
    BY <2>1 DEF FieldAt
<1>4. /\ reader \in [open : BOOLEAN, snaplen : Nat, radiotap : BOOLEAN]
      /\ {inStep, std, turn} \subseteq BOOLEAN
      /\ status \in {"none", "OK"} \cup Errors
      /\ phase \in {"idle", "parsed"} \cup Decoding
  BY DEF StepInv, Choices, Statuses, Phases
<1>5. /\ {len, origin, limit, off, reach, cur, base} \subseteq Nat
      /\ words \in Seq(Words) /\ bits \subseteq 0..30
  BY DEF BoundsInv, Numbers, Scanning, Choices
<1>6. /\ frame.has \subseteq {0, 1, 2, 3, 5, 19} /\ frame.flags \subseteq {"fcs", "pad"}
      /\ frame.mac \in MacHeaders \cup {NoMac}
      /\ frame.headerLen \in 0..36 /\ Len(frame.ies) <= MaxIes
      /\ frame.key \in BOOLEAN /\ frame.msg \in 0..4
  BY DEF FrameInv, Frames
<1> QED
  BY <1>1, <1>2, <1>3, <1>4, <1>5, <1>6 DEF TypeOK

(* Every variable has its type, whatever the file and the headers say: in  *)
(* particular no list of elements outgrows the table of the frame.         *)
THEOREM ParserTypeCorrect == Spec => []TypeOK
<1>1. TypesInv /\ [Next]_vars => TypesInv'
  BY TypesKept
<1> QED
  BY TypesBegin, <1>1, TypesHold, PTL DEF Spec

(* Of the elements a frame keeps a copy of, the first of the list is kept. *)
THEOREM FirstElementIsKept == Spec => []FirstElementWins
<1>1. TypesInv /\ [Next]_vars => TypesInv'
  BY TypesKept
<1> QED
  BY TypesBegin, <1>1, TypesHold, PTL DEF Spec

---------------------------------------------------------------------------
(* The elements of a management frame.                                     *)

\* Where the list of elements of the frame starts.
Body == origin + frame.headerLen + FixedLens[frame.mac.subtype]

\* The elements found so far tile the bytes from there up to a place.
Tiled(place) ==
    LET n == Len(frame.ies)
        start(k) == frame.ies[k].at - 2
        end(k) == frame.ies[k].at + frame.ies[k].size
    IN  IF n = 0 THEN Body = place
        ELSE /\ start(1) = Body /\ end(n) = place
             /\ \A k \in 2..n : start(k) = end(k - 1)

\* Where a frame's elements are until the frame is returned: none before the
\* list is read, and then those up to the offset the decoder has come to.
TileInv ==
    /\ phase = "idle" => frame = EmptyFrame
    /\ phase \in Decoding \ {"elements"} => frame.ies = <<>>
    /\ phase = "radiotap" => frame = EmptyFrame
    /\ phase \in {"control", "header", "fixed", "elements"} =>
         origin + limit = len - FcsLen(frame)
    /\ phase \in {"fixed", "elements"} =>
         frame.mac.type = "management" /\ ~frame.mac.opaque
    /\ phase = "fixed" => off = frame.headerLen
    /\ phase = "elements" =>
         frame.mac.subtype \in DOMAIN FixedLens /\ off = reach /\ Tiled(origin + off)
    /\ phase = "eapol" => frame.mac.type # "management"
    /\ ElementsTileBody

(* A frame without a list of elements is returned as it is.                *)
LEMMA ReturnKeepsTiles ==
  ASSUME NEW e, NEW f, NEW r, Return(e, f, r), e = "OK" => ~ListsElements(f.mac)
  PROVE  TileInv'
<1>1. phase' = "parsed" /\ (status' = "OK" => frame' = f /\ e = "OK")
  BY DEF Return
<1>2. ElementsTileBody'
  BY <1>1 DEF ElementsTileBody, ListsElements
<1> QED
  BY <1>1, <1>2 DEF TileInv, Decoding

(* An error returns no elements.                                           *)
LEMMA FailKeepsTiles ==
  ASSUME NEW e, NEW r, Fail(e, r), e # "OK"
  PROVE  TileInv'
  BY ReturnKeepsTiles DEF Fail

(* A step within the radiotap header finds no elements.                    *)
LEMMA RadiotapKeepsTiles ==
  ASSUME phase' \in {"maps", "fields", "tlvs"}, frame'.ies = <<>>
  PROVE  TileInv'
  BY DEF TileInv, ElementsTileBody, Decoding

(* Behind the radiotap header the record is cut before its check sequence. *)
LEMMA EnterMacKeepsTiles ==
  ASSUME Numbers, NEW start \in Nat, EnterMac(start, frame), frame.ies = <<>>
  PROVE  TileInv'
<1>1. CASE Fail("TRUNCATED", reach)
  BY <1>1, FailKeepsTiles
<1>2. CASE ~Fail("TRUNCATED", reach)
  <2>1. /\ phase' = "control" /\ frame' = frame /\ len' = len
        /\ origin' = start /\ limit' = len - start - FcsLen(frame)
    BY <1>2 DEF EnterMac, Enter
  <2>2. FcsLen(frame) \in Int /\ FcsLen(frame)' = FcsLen(frame)
    BY <2>1 DEF FcsLen
  <2>3. (origin + limit = len - FcsLen(frame))'
    BY <2>1, <2>2 DEF Numbers
  <2>4. ElementsTileBody'
    BY <2>1 DEF ElementsTileBody
  <2> QED
    BY <2>1, <2>3, <2>4 DEF TileInv, Decoding
<1> QED
  BY <1>1, <1>2

(* The reader hands out an empty frame.                                    *)
LEMMA ReaderKeepsTiles ==
  ASSUME TypesInv, TileInv, Open \/ NextRefused \/ NextShort \/ NextRecord \/ Consume
  PROVE  TileInv'
<1>1. CASE Open \/ NextRefused \/ NextShort
  <2>1. phase = "idle" /\ phase' = "idle" /\ frame' = frame
    BY <1>1 DEF Open, NextRefused, NextShort, TypesInv, StepInv
  <2> QED
    BY <2>1 DEF TileInv, ElementsTileBody, Decoding
<1>2. CASE NextRecord
  <2>1. phase = "idle" /\ frame = EmptyFrame /\ frame' = EmptyFrame /\ origin = 0
    BY <1>2 DEF NextRecord, TileInv, TypesInv, BoundsInv, Regions, RadiotapPhases
  <2>2. /\ frame'.ies = <<>> /\ FcsLen(frame)' = 0
    BY <2>1 DEF EmptyFrame, FcsLen
  <2>3. \/ phase' = "idle"
        \/ /\ phase' \in {"radiotap", "control"} /\ origin' = 0
           /\ \E captured \in CapturedLens : len' = captured /\ limit' = captured
    BY <1>2, <2>1 DEF NextRecord, local
  <2>4. phase' # "idle" => (origin + limit = len - FcsLen(frame))'
    BY <2>2, <2>3, LengthAssumption
  <2>5. ElementsTileBody'
    BY <2>3 DEF ElementsTileBody
  <2> QED
    BY <2>1, <2>2, <2>3, <2>4, <2>5 DEF TileInv, Decoding
<1>3. CASE Consume
  <2>1. phase' = "idle" /\ frame' = EmptyFrame
    BY <1>3 DEF Consume
  <2> QED
    BY <2>1 DEF TileInv, ElementsTileBody, Decoding
<1> QED
  BY <1>1, <1>2, <1>3

(* Radiotap finds no elements.                                             *)
LEMMA HeaderKeepsTiles ==
  ASSUME TypesInv, TileInv,
         \/ RadiotapHeader \/ PresenceWord \/ BothNamespaces \/ StandardNamespace
         \/ VendorNamespace \/ VendorField \/ StartTlvs \/ StandardField \/ EndOfWord \/ Tlv
  PROVE  TileInv'
<1>0. /\ phase \in {"radiotap", "maps", "fields", "tlvs"}
      /\ Numbers /\ frame \in Frames
  BY DEF RadiotapHeader, PresenceWord, BothNamespaces, StandardNamespace, VendorNamespace,
         VendorField, StartTlvs, StandardField, EndOfWord, Tlv, Scan, TypesInv, BoundsInv,
         FrameInv
<1>1. frame.ies = <<>>
  BY <1>0 DEF TileInv, Decoding
<1>2. CASE \E start \in Nat : EnterMac(start, frame)
  BY <1>0, <1>1, <1>2, EnterMacKeepsTiles
<1>3. CASE \E e \in Errors : \E r : Fail(e, r)
  BY <1>3, FailKeepsTiles DEF Errors
<1>4. CASE phase' \in {"maps", "fields", "tlvs"} /\ frame' = frame
  BY <1>1, <1>4, RadiotapKeepsTiles
<1>5. CASE /\ phase' \in {"maps", "fields", "tlvs"}
           /\ \E index, size : frame' \in WithValue(index, size)
  BY <1>0, <1>1, <1>5, ValueKeepsFrame, RadiotapKeepsTiles
<1>6. \/ \E start \in Nat : EnterMac(start, frame)
      \/ \E e \in Errors : \E r : Fail(e, r)
      \/ phase' \in {"maps", "fields", "tlvs"} /\ frame' = frame
      \/ /\ phase' \in {"maps", "fields", "tlvs"}
         /\ \E index, size : frame' \in WithValue(index, size)
  <2> USE DEF Errors, Enter
  <2>1. CASE RadiotapHeader
    BY <2>1 DEF RadiotapHeader
  <2>2. CASE PresenceWord
    BY <2>2 DEF PresenceWord
  <2>3. CASE BothNamespaces \/ StandardNamespace \/ VendorField \/ StartTlvs
    BY <2>3 DEF BothNamespaces, StandardNamespace, VendorField, StartTlvs
  <2>4. CASE VendorNamespace
    BY <2>4 DEF VendorNamespace
  <2>5. CASE StandardField
    BY <2>5 DEF StandardField
  <2>6. CASE EndOfWord
    BY <1>0, <2>6 DEF EndOfWord, Numbers
  <2>7. CASE Tlv
    <3>1. CASE off >= limit
      BY <1>0, <2>7, <3>1 DEF Tlv, Numbers
    <3>2. CASE ~(off >= limit)
      BY <2>7, <3>2 DEF Tlv
    <3> QED
      BY <3>1, <3>2
  <2> QED
    BY <2>1, <2>2, <2>3, <2>4, <2>5, <2>6, <2>7
<1> QED
  BY <1>2, <1>3, <1>4, <1>5, <1>6

(* The header of a management frame ends where its fixed fields start.     *)
LEMMA MacKeepsTiles ==
  ASSUME TypesInv, TileInv, FrameControl \/ MacHeader
  PROVE  TileInv'
<1>0. /\ phase \in {"control", "header"} /\ Numbers /\ frame \in Frames
      /\ frame.ies = <<>> /\ origin + limit = len - FcsLen(frame)
  BY DEF FrameControl, MacHeader, TypesInv, BoundsInv, FrameInv, TileInv, Decoding
<1>1. ASSUME frame' \in Frames, frame'.ies = frame.ies, frame'.flags = frame.flags,
             phase' \in {"header", "fixed", "eapol"}, UNCHANGED <<origin, limit, len>>,
             phase' = "fixed" => /\ frame'.mac.type = "management" /\ ~frame'.mac.opaque
                                 /\ off' = frame'.headerLen,
             phase' = "eapol" => frame'.mac.type # "management"
      PROVE  TileInv'
  <2>1. (origin + limit = len - FcsLen(frame))'
    BY <1>0, <1>1 DEF FcsLen
  <2>2. ElementsTileBody'
    BY <1>1 DEF ElementsTileBody
  <2> QED
    BY <1>0, <1>1, <2>1, <2>2 DEF TileInv, Decoding
<1>2. CASE FrameControl
  <2>1. \/ \E e \in Errors : \E r : Fail(e, r)
        \/ /\ phase' = "header" /\ UNCHANGED <<origin, limit, len>>
           /\ \E m \in MacHeaders : frame' = [frame EXCEPT !.mac = m]
    BY <1>2 DEF FrameControl, Enter, Errors
  <2>2. CASE \E e \in Errors : \E r : Fail(e, r)
    BY <2>2, FailKeepsTiles DEF Errors
  <2>3. CASE /\ phase' = "header" /\ UNCHANGED <<origin, limit, len>>
             /\ \E m \in MacHeaders : frame' = [frame EXCEPT !.mac = m]
    BY <1>0, <1>1, <2>3 DEF Frames
  <2> QED
    BY <2>1, <2>2, <2>3
<1>3. CASE MacHeader
  <2> DEFINE m == frame.mac
             qos == MacLen(m) + (IF HasQos(m) THEN 2 ELSE 0)
             ht == m.order /\ (HasQos(m) \/ m.type = "management")
             end == qos + (IF ht THEN 4 ELSE 0)
             read == [frame EXCEPT !.headerLen = end]
  <2>1. end \in 0..36
    BY HeaderLengths
  <2>2. \/ \E e \in Errors : \E r : Fail(e, r)
        \/ Return("OK", read, qos) /\ (m.opaque \/ m.type = "control" \/ m.type = "data")
        \/ /\ phase' = "fixed" /\ frame' = read /\ off' = end
           /\ UNCHANGED <<origin, limit, len>>
           /\ m.type = "management" /\ ~m.opaque
        \/ /\ phase' = "eapol" /\ frame' = read
           /\ UNCHANGED <<origin, limit, len>> /\ m.type # "management"
    BY <1>3 DEF MacHeader, Enter, Errors
  <2> HIDE DEF end, qos
  <2>3. /\ read \in Frames /\ read.mac = m /\ read.ies = frame.ies
        /\ read.flags = frame.flags /\ read.headerLen = end
    BY <1>0, <2>1 DEF Frames
  <2> HIDE DEF read
  <2>4. CASE \E e \in Errors : \E r : Fail(e, r)
    BY <2>4, FailKeepsTiles DEF Errors
  <2>5. CASE Return("OK", read, qos) /\ (m.opaque \/ m.type = "control" \/ m.type = "data")
    BY <2>3, <2>5, ReturnKeepsTiles DEF ListsElements
  <2>6. CASE /\ phase' = "fixed" /\ frame' = read /\ off' = end
             /\ UNCHANGED <<origin, limit, len>>
             /\ m.type = "management" /\ ~m.opaque
    BY <1>1, <2>3, <2>6
  <2>7. CASE /\ phase' = "eapol" /\ frame' = read
             /\ UNCHANGED <<origin, limit, len>> /\ m.type # "management"
    BY <1>1, <2>3, <2>7
  <2> QED
    BY <2>2, <2>4, <2>5, <2>6, <2>7
<1> QED
  BY <1>2, <1>3

(* An element that starts where the list has come to extends the tiling.   *)
LEMMA ElementExtendsTiles ==
  ASSUME frame \in Frames, origin \in Nat, off \in Nat, NEW id \in Nat, NEW size \in Nat,
         Tiled(origin + off), frame' = WithElement(id, size), origin' = origin,
         NEW p, p = origin + off + 2 + size
  PROVE  Tiled(p)'
<1> DEFINE e == [id |-> id, size |-> size, at |-> origin + off + 2]
           n == Len(frame.ies)
<1>1. /\ frame'.ies = Append(frame.ies, e) /\ frame.ies \in Seq(Ies) /\ n \in Nat
      /\ frame'.mac = frame.mac /\ frame'.headerLen = frame.headerLen
  BY ElementParts DEF Frames
<1>2. e \in Ies /\ e.at = origin + off + 2 /\ e.size = size
  BY DEF Ies
<1> HIDE DEF e
<1>3. /\ Len(frame'.ies) = n + 1 /\ frame'.ies[n + 1] = e
      /\ \A k \in 1..n : frame'.ies[k] = frame.ies[k]
  BY <1>1, <1>2
<1>4. Body' = Body
  BY <1>1 DEF Body
<1>5. frame'.ies[n + 1].at - 2 = origin + off
      /\ frame'.ies[n + 1].at + frame'.ies[n + 1].size = p
  BY <1>2, <1>3
<1>6. frame'.ies[1].at - 2 = Body'
  <2>1. CASE n = 0
    BY <1>4, <1>5, <2>1 DEF Tiled
  <2>2. CASE n # 0
    BY <1>1, <1>3, <1>4, <2>2 DEF Tiled
  <2> QED
    BY <2>1, <2>2
<1>7. ASSUME NEW k \in 2..(n + 1)
      PROVE  frame'.ies[k].at - 2 = frame'.ies[k - 1].at + frame'.ies[k - 1].size
  <2>1. CASE k = n + 1
    <3>1. n \in 1..n /\ n # 0 /\ k - 1 = n
      BY <1>1, <2>1
    <3>2. frame.ies[n].at + frame.ies[n].size = origin + off
      BY <3>1 DEF Tiled
    <3> QED
      BY <1>3, <1>5, <2>1, <3>1, <3>2
  <2>2. CASE k # n + 1
    <3>1. k \in 2..n /\ k \in 1..n /\ k - 1 \in 1..n /\ n # 0
      BY <1>1, <2>2
    <3>2. frame.ies[k].at - 2 = frame.ies[k - 1].at + frame.ies[k - 1].size
      BY <3>1 DEF Tiled
    <3> QED
      BY <1>3, <3>1, <3>2
  <2> QED
    BY <2>1, <2>2
<1>8. n + 1 # 0
  BY <1>1
<1> QED
  BY <1>3, <1>5, <1>6, <1>7, <1>8 DEF Tiled

(* The list of elements is read up to the end of the body.                 *)
LEMMA BodyKeepsTiles ==
  ASSUME TypesInv, TileInv, FixedFields \/ Element \/ Eapol
  PROVE  TileInv'
<1>0. /\ phase \in {"fixed", "elements", "eapol"} /\ Numbers /\ frame \in Frames
      /\ reach <= limit
  BY DEF FixedFields, Element, Eapol, TypesInv, BoundsInv, FrameInv, ReadsInBounds
<1>1. CASE \E e \in Errors : \E r : Fail(e, r)
  BY <1>1, FailKeepsTiles DEF Errors
<1>2. CASE FixedFields
  <2> DEFINE s == frame.mac.subtype
  <2>1. /\ phase = "fixed" /\ frame.ies = <<>> /\ off = frame.headerLen
        /\ frame.mac.type = "management" /\ ~frame.mac.opaque
        /\ origin + limit = len - FcsLen(frame)
    BY <1>2 DEF FixedFields, TileInv, Decoding
  <2>2. CASE s \notin DOMAIN FixedLens
    <3>1. Return("OK", frame, reach)
      BY <1>2, <2>2 DEF FixedFields
    <3> QED
      BY <2>2, <3>1, ReturnKeepsTiles DEF ListsElements
  <2>3. CASE s = 11 /\ Return("OK", frame, off + 6)
    <3>1. /\ phase' = "parsed" /\ frame' = frame
      BY <2>3 DEF Return
    <3>2. Len(frame'.ies) = 0 /\ frame'.mac.subtype = 11
      BY <2>1, <2>3, <3>1
    <3>3. ElementsTileBody'
      BY <3>2 DEF ElementsTileBody
    <3> QED
      BY <3>1, <3>3 DEF TileInv, Decoding
  <2>4. CASE /\ s \in DOMAIN FixedLens /\ phase' = "elements" /\ frame' = frame
             /\ off' = off + FixedLens[s] /\ reach' = off + FixedLens[s]
             /\ UNCHANGED <<origin, limit, len>>
    <3>1. FixedLens[s] \in Nat
      BY <2>4 DEF FixedLens
    <3>2. Len(frame'.ies) = 0
      BY <2>1, <2>4
    <3>3. Body' = Body /\ Body = origin + off + FixedLens[s]
      BY <2>1, <2>4 DEF Body
    <3>4. origin' + off' = origin + off + FixedLens[s]
      BY <1>0, <2>4, <3>1 DEF Numbers
    <3>5. Tiled(origin + off)'
      BY <3>2, <3>3, <3>4 DEF Tiled
    <3>6. (origin + limit = len - FcsLen(frame))'
      BY <2>1, <2>4
    <3>7. ElementsTileBody'
      BY <2>4 DEF ElementsTileBody
    <3> QED
      BY <2>1, <2>4, <3>5, <3>6, <3>7 DEF TileInv, Decoding
  <2> QED
    BY <1>1, <1>2, <2>2, <2>3, <2>4 DEF FixedFields, Enter, Errors
<1>3. CASE Element
  <2>1. /\ phase = "elements" /\ off = reach /\ Tiled(origin + off)
        /\ frame.mac.type = "management" /\ ~frame.mac.opaque
        /\ frame.mac.subtype \in DOMAIN FixedLens
        /\ origin + limit = len - FcsLen(frame)
    BY <1>3 DEF Element, TileInv, Decoding
  <2>2. CASE off >= limit
    <3>1. /\ phase' = "parsed" /\ frame' = frame /\ UNCHANGED <<origin, limit, len>>
      BY <1>0, <1>3, <2>2 DEF Element, Return, Numbers
    <3>2. off = limit
      BY <1>0, <2>1, <2>2 DEF Numbers
    <3>3. Tiled(len - FcsLen(frame))
      BY <2>1, <3>2
    <3>4. ElementsTileBody'
      BY <3>1, <3>3 DEF ElementsTileBody, Tiled, Body, FcsLen
    <3> QED
      BY <3>1, <3>4 DEF TileInv, Decoding
  <2>3. CASE ~(off >= limit)
    <3>1. \/ \E e \in Errors : \E r : Fail(e, r)
          \/ \E ie \in Elements :
               /\ frame' = WithElement(ie[1], ie[2])
               /\ off' = off + 2 + ie[2] /\ reach' = off + 2 + ie[2]
               /\ phase' = "elements" /\ UNCHANGED <<origin, limit, len>>
      BY <1>3, <2>3 DEF Element, Enter, Errors
    <3>2. CASE \E ie \in Elements :
                 /\ frame' = WithElement(ie[1], ie[2])
                 /\ off' = off + 2 + ie[2] /\ reach' = off + 2 + ie[2]
                 /\ phase' = "elements" /\ UNCHANGED <<origin, limit, len>>
      <4>1. PICK ie \in Elements :
              /\ frame' = WithElement(ie[1], ie[2])
              /\ off' = off + 2 + ie[2] /\ reach' = off + 2 + ie[2]
              /\ phase' = "elements" /\ UNCHANGED <<origin, limit, len>>
        BY <3>2
      <4>2. ie[1] \in Nat /\ ie[2] \in Nat /\ origin \in Nat /\ off \in Nat
        BY <1>0, LengthAssumption DEF Numbers
      <4>3. frame'.mac = frame.mac /\ frame'.flags = frame.flags
        BY <1>0, <4>1, <4>2, ElementParts
      <4>4. (origin + off)' = origin + off + 2 + ie[2]
        BY <4>1, <4>2
      <4>5. Tiled(origin + off)'
        <5>1. PICK p \in Nat : p = origin + off + 2 + ie[2]
          BY <4>2
        <5>2. Tiled(p)'
          BY <1>0, <2>1, <4>1, <4>2, <5>1, ElementExtendsTiles
        <5> QED
          BY <4>4, <5>1, <5>2 DEF Tiled
      <4>6. (origin + limit = len - FcsLen(frame))'
        BY <2>1, <4>1, <4>3 DEF FcsLen
      <4>7. ElementsTileBody'
        BY <4>1 DEF ElementsTileBody
      <4> QED
        BY <2>1, <4>1, <4>3, <4>4, <4>5, <4>6, <4>7 DEF TileInv, Decoding
    <3> QED
      BY <1>1, <3>1, <3>2
  <2> QED
    BY <2>2, <2>3
<1>4. CASE Eapol
  <2>1. frame.mac.type # "management"
    BY <1>4 DEF Eapol, TileInv
  <2>2. \E e, f, r : Return(e, f, r) /\ f.mac = frame.mac
    <3>1. \A k : KeyVerdict(k)[2].mac = frame.mac
      BY <1>0 DEF KeyVerdict, Frames
    <3> QED
      BY <1>4, <3>1 DEF Eapol
  <2> QED
    BY <2>1, <2>2, ReturnKeepsTiles DEF ListsElements
<1> QED
  BY <1>2, <1>3, <1>4

(* The elements of an accepted management frame tile its body, from behind *)
(* the fixed fields to before the check sequence, without a gap.           *)
THEOREM ElementsFillTheBody == Spec => []ElementsTileBody
<1> DEFINE Inv == TypesInv /\ TileInv
<1>1. Init => Inv
  <2>1. Init => TileInv
    BY DEF Init, TileInv, ElementsTileBody, Decoding
  <2> QED
    BY <2>1, TypesBegin
<1>2. Inv /\ [Next]_vars => Inv'
  <2> SUFFICES ASSUME TypesInv, TileInv, [Next]_vars
               PROVE  TileInv'
    BY TypesKept
  <2>1. CASE Open \/ NextRefused \/ NextShort \/ NextRecord \/ Consume
    BY <2>1, ReaderKeepsTiles
  <2>2. CASE \/ RadiotapHeader \/ PresenceWord \/ BothNamespaces \/ StandardNamespace
             \/ VendorNamespace \/ VendorField \/ StartTlvs \/ StandardField \/ EndOfWord
             \/ Tlv
    BY <2>2, HeaderKeepsTiles
  <2>3. CASE FrameControl \/ MacHeader
    BY <2>3, MacKeepsTiles
  <2>4. CASE FixedFields \/ Element \/ Eapol
    BY <2>4, BodyKeepsTiles
  <2>5. CASE UNCHANGED vars
    <3>1. UNCHANGED <<status, phase, frame, origin, limit, len, off, reach>>
      BY <2>5 DEF vars, local
    <3> QED
      BY <3>1 DEF TileInv, ElementsTileBody, Tiled, Body, FcsLen
  <2> QED
    BY <2>1, <2>2, <2>3, <2>4, <2>5 DEF Next, Decode
<1>3. Inv => ElementsTileBody
  BY DEF TileInv
<1> QED
  BY <1>1, <1>2, <1>3, PTL DEF Spec

---------------------------------------------------------------------------
(* The standard fields and the presence words that announce them.  The     *)
(* operators of RadiotapFieldsPlaced are taken here for any words ws, any  *)
(* number c of the current word and any bits bs left of it, so that what   *)
(* they say of a step can be stated without the variables.                 *)

ResetsOf(ws, k) == {j \in 1..(k - 1) : ws[j] \cap {29, 30} # {}}
Latest(R) == IF R = {} THEN 0 ELSE CHOOSE j \in R : \A i \in R : i <= j
LastOf(ws, k) == Latest(ResetsOf(ws, k))
StandardOf(ws, k) == LastOf(ws, k) = 0 \/ 29 \in ws[LastOf(ws, k)]
AnnouncedOf(ws, c, bs) ==
    {p \in (1..c) \X (0..28) :
        /\ p[2] \in ws[p[1]] /\ StandardOf(ws, p[1])
        /\ p[1] = c => p[2] \notin bs}
IndexOf(ws, p) == 32 * (p[1] - 1 - LastOf(ws, p[1])) + p[2]
RankIn(A, p) == Cardinality({q \in A : Before(q, p)})

\* The fields are those of a set of announced bits, in their order.
CountedIn(A, ws, fs) ==
    /\ Len(fs) = Cardinality(A)
    /\ \A p \in A : RankIn(A, p) \in DOMAIN fs /\ fs[RankIn(A, p)].index = IndexOf(ws, p)

\* The fields lie one behind the other from a start on, within a limit, and the
\* offset o is behind them.
PlacedIn(fs, start, lim, o) ==
    /\ \A n \in DOMAIN fs :
         /\ fs[n].from % FieldAlign[fs[n].index + 1] = 0
         /\ fs[n].to = fs[n].from + FieldSize[fs[n].index + 1]
         /\ fs[n].from >= IF n = 1 THEN start ELSE fs[n - 1].to
         /\ fs[n].to <= lim
    /\ o >= IF Len(fs) = 0 THEN start ELSE fs[Len(fs)].to

(* The operators above are those of the model.                             *)
LEMMA SameOperators ==
  /\ Announced = AnnouncedOf(words, cur, bits)
  /\ \A p : AnnouncedIndex(p) = IndexOf(words, p)
  /\ \A k : ListsStandard(k) <=> StandardOf(words, k)
<1>1. \A k : Resets(k) = ResetsOf(words, k)
  BY DEF Resets, ResetsOf
<1>2. \A k : LastReset(k) = LastOf(words, k)
  <2>1. \A k : LastReset(k) = Latest(Resets(k))
    BY DEF LastReset, Latest
  <2> QED
    BY <1>1, <2>1 DEF LastOf
<1>3. \A k : ListsStandard(k) <=> StandardOf(words, k)
  BY <1>2 DEF ListsStandard, StandardOf
<1>4. Announced = AnnouncedOf(words, cur, bits)
  BY <1>3 DEF Announced, AnnouncedOf
<1>5. \A p : AnnouncedIndex(p) = IndexOf(words, p)
  BY <1>2 DEF AnnouncedIndex, IndexOf
<1> QED
  BY <1>3, <1>4, <1>5

(* The bits announced are finitely many.                                   *)
LEMMA AnnouncedFinite ==
  ASSUME NEW ws, NEW c \in Nat, NEW bs
  PROVE  IsFiniteSet(AnnouncedOf(ws, c, bs))
<1>1. IsFiniteSet(1..c) /\ IsFiniteSet(0..28)
  <2>1. IsFiniteSet(1..c)
    BY FS_Interval
  <2>2. IsFiniteSet(0..28)
    <3>1. 0..28 \in SUBSET Nat /\ 28 \in Nat /\ \A s \in 0..28 : s <= 28
      OBVIOUS
    <3> QED
      BY <3>1, FS_BoundedSetOfNaturals
  <2> QED
    BY <2>1, <2>2
<1>2. IsFiniteSet((1..c) \X (0..28))
  BY <1>1, FS_Product
<1>3. AnnouncedOf(ws, c, bs) \subseteq (1..c) \X (0..28)
  BY DEF AnnouncedOf
<1> QED
  BY <1>2, <1>3, FS_Subset

(* Before the first word nothing is announced, and indices start at 0.     *)
LEMMA FirstWord ==
  ASSUME NEW ws
  PROVE  /\ LastOf(ws, 1) = 0 /\ StandardOf(ws, 1)
         /\ AnnouncedOf(ws, 1, ws[1] \ {31}) = {}
<1>1. ResetsOf(ws, 1) = {}
  BY DEF ResetsOf
<1>2. LastOf(ws, 1) = 0
  BY <1>1 DEF LastOf, Latest
<1>3. AnnouncedOf(ws, 1, ws[1] \ {31}) = {}
  <2> SUFFICES ASSUME NEW p \in AnnouncedOf(ws, 1, ws[1] \ {31}) PROVE FALSE
    OBVIOUS
  <2>1. /\ p[1] = 1 /\ p[2] \in 0..28 /\ p[2] \in ws[p[1]]
        /\ p[1] = 1 => p[2] \notin ws[1] \ {31}
    BY DEF AnnouncedOf
  <2> QED
    BY <2>1
<1> QED
  BY <1>2, <1>3 DEF StandardOf

(* A namespace bit restarts the numbering after its word.                  *)
LEMMA NextReset ==
  ASSUME NEW ws, NEW c \in Nat \ {0}
  PROVE  LastOf(ws, c + 1) = IF ws[c] \cap {29, 30} # {} THEN c ELSE LastOf(ws, c)
<1> DEFINE R == ResetsOf(ws, c + 1)
<1>1. CASE ws[c] \cap {29, 30} # {}
  <2>1. c \in R /\ \A i \in R : i \in Nat /\ i <= c
    BY <1>1 DEF ResetsOf
  <2> DEFINE last == CHOOSE j \in R : \A i \in R : i <= j
  <2>2. last \in R /\ \A i \in R : i <= last
    BY <2>1
  <2>3. last = c
    <3> HIDE DEF R, last
    <3> QED
      BY <2>1, <2>2
  <2>4. LastOf(ws, c + 1) = last
    BY <2>1 DEF LastOf, Latest
  <2> QED
    BY <1>1, <2>3, <2>4
<1>2. CASE ws[c] \cap {29, 30} = {}
  <2>1. R = ResetsOf(ws, c)
    BY <1>2 DEF ResetsOf
  <2> QED
    BY <1>2, <2>1 DEF LastOf
<1> QED
  BY <1>1, <1>2

(* Coming to the next word announces nothing.                              *)
LEMMA NextWord ==
  ASSUME NEW ws, NEW c \in Nat \ {0}
  PROVE  AnnouncedOf(ws, c + 1, ws[c + 1] \ {31}) = AnnouncedOf(ws, c, {})
<1>1. ASSUME NEW p \in AnnouncedOf(ws, c + 1, ws[c + 1] \ {31})
      PROVE  p \in AnnouncedOf(ws, c, {})
  <2>1. /\ p \in (1..(c + 1)) \X (0..28) /\ p[2] \in ws[p[1]] /\ StandardOf(ws, p[1])
        /\ p[1] = c + 1 => p[2] \notin ws[c + 1] \ {31}
    BY DEF AnnouncedOf
  <2>2. p[1] # c + 1
    BY <2>1
  <2>3. p \in (1..c) \X (0..28)
    BY <2>1, <2>2
  <2> QED
    BY <2>1, <2>3 DEF AnnouncedOf
<1>2. ASSUME NEW p \in AnnouncedOf(ws, c, {})
      PROVE  p \in AnnouncedOf(ws, c + 1, ws[c + 1] \ {31})
  <2>1. p \in (1..c) \X (0..28) /\ p[2] \in ws[p[1]] /\ StandardOf(ws, p[1])
    BY DEF AnnouncedOf
  <2>2. p \in (1..(c + 1)) \X (0..28) /\ p[1] # c + 1
    BY <2>1
  <2> QED
    BY <2>1, <2>2 DEF AnnouncedOf
<1> QED
  BY <1>1, <1>2

(* A bit behind all those announced adds one field, the last.              *)
LEMMA AnnounceOne ==
  ASSUME NEW A, IsFiniteSet(A), NEW ws, NEW fs \in Seq(FieldAt), CountedIn(A, ws, fs),
         NEW p, p \notin A, Before(p, p),
         \A q \in A : Before(q, p) /\ ~Before(p, q),
         NEW f \in FieldAt, f.index = IndexOf(ws, p)
  PROVE  CountedIn(A \cup {p}, ws, Append(fs, f))
<1> DEFINE B == A \cup {p}
           longer == Append(fs, f)
<1>1. /\ Cardinality(A) \in Nat /\ Cardinality(B) = Cardinality(A) + 1
  BY FS_CardinalityType, FS_AddElement
<1>2. /\ Len(fs) = Cardinality(A) /\ Len(longer) = Len(fs) + 1
      /\ DOMAIN longer = 1..(Len(fs) + 1) /\ DOMAIN fs = 1..Len(fs)
      /\ longer[Len(fs) + 1] = f /\ \A n \in 1..Len(fs) : longer[n] = fs[n]
  BY DEF CountedIn
<1>3. RankIn(B, p) = Cardinality(B)
  <2>1. {q \in B : Before(q, p)} = B
    OBVIOUS
  <2> QED
    BY <2>1 DEF RankIn
<1>4. \A q \in A : RankIn(B, q) = RankIn(A, q)
  <2> SUFFICES ASSUME NEW q \in A PROVE RankIn(B, q) = RankIn(A, q)
    OBVIOUS
  <2>1. {x \in B : Before(x, q)} = {x \in A : Before(x, q)}
    OBVIOUS
  <2> QED
    BY <2>1 DEF RankIn
<1> HIDE DEF longer, B
<1>5. ASSUME NEW q \in A PROVE RankIn(B, q) \in DOMAIN longer
                              /\ longer[RankIn(B, q)].index = IndexOf(ws, q)
  <2>1. RankIn(A, q) \in 1..Len(fs) /\ fs[RankIn(A, q)].index = IndexOf(ws, q)
    BY <1>2 DEF CountedIn
  <2> QED
    BY <1>2, <1>4, <2>1
<1>6. RankIn(B, p) \in DOMAIN longer /\ longer[RankIn(B, p)].index = IndexOf(ws, p)
  BY <1>1, <1>2, <1>3
<1>7. Len(longer) = Cardinality(B)
  BY <1>1, <1>2
<1>8. \A q \in B : RankIn(B, q) \in DOMAIN longer
                   /\ longer[RankIn(B, q)].index = IndexOf(ws, q)
  BY <1>5, <1>6 DEF B
<1>9. CountedIn(B, ws, longer)
  BY <1>7, <1>8 DEF CountedIn
<1> QED
  BY <1>9 DEF B, longer

(* Aligning an offset makes it a multiple of the alignment.                *)
LEMMA AlignMultiple ==
  ASSUME NEW o \in Nat, NEW a \in {1, 2, 4, 8}
  PROVE  Align(o, a) % a = 0
<1>1. CASE a = 1
  BY <1>1 DEF Align
<1>2. CASE a = 2
  BY <1>2 DEF Align
<1>3. CASE a = 4
  BY <1>3 DEF Align
<1>4. CASE a = 8
  BY <1>4 DEF Align
<1> QED
  BY <1>1, <1>2, <1>3, <1>4

(* A field at or behind the offset, within the limit, is placed.           *)
LEMMA PlaceOne ==
  ASSUME NEW fs \in Seq(FieldAt), NEW start \in Nat, NEW lim \in Nat, NEW o \in Nat,
         PlacedIn(fs, start, lim, o), NEW f \in FieldAt,
         f.from % FieldAlign[f.index + 1] = 0, f.to = f.from + FieldSize[f.index + 1],
         f.from >= o, f.to <= lim
  PROVE  PlacedIn(Append(fs, f), start, lim, f.to)
<1> DEFINE longer == Append(fs, f)
           m == Len(fs)
<1>1. /\ m \in Nat /\ Len(longer) = m + 1 /\ DOMAIN longer = 1..(m + 1)
      /\ DOMAIN fs = 1..m /\ longer[m + 1] = f /\ \A n \in 1..m : longer[n] = fs[n]
      /\ \A n \in 1..m : fs[n] \in FieldAt
  OBVIOUS
<1>2. f.from \in Nat /\ f.to \in Nat /\ \A n \in 1..m : fs[n].to \in Nat
  BY <1>1 DEF FieldAt
<1> HIDE DEF longer, m
<1>3. o >= IF m = 0 THEN start ELSE fs[m].to
  BY DEF PlacedIn, m
<1>4. ASSUME NEW n \in 1..(m + 1)
      PROVE  /\ longer[n].from % FieldAlign[longer[n].index + 1] = 0
             /\ longer[n].to = longer[n].from + FieldSize[longer[n].index + 1]
             /\ longer[n].from >= IF n = 1 THEN start ELSE longer[n - 1].to
             /\ longer[n].to <= lim
  <2>1. CASE n = m + 1
    <3>1. f.from >= IF n = 1 THEN start ELSE longer[n - 1].to
      <4>1. CASE m = 0
        BY <1>1, <1>2, <1>3, <2>1, <4>1
      <4>2. CASE m # 0
        <5>1. m \in 1..m /\ n - 1 = m /\ n # 1
          BY <1>1, <2>1, <4>2
        <5>2. longer[n - 1].to = fs[m].to
          BY <1>1, <5>1
        <5>3. o >= fs[m].to /\ fs[m].to \in Nat
          BY <1>2, <1>3, <4>2, <5>1
        <5> QED
          BY <1>2, <5>1, <5>2, <5>3
      <4> QED
        BY <4>1, <4>2
    <3> QED
      BY <1>1, <2>1, <3>1
  <2>2. CASE n # m + 1
    <3>1. n \in 1..m /\ (n # 1 => n - 1 \in 1..m)
      BY <1>1, <2>2
    <3>2. /\ fs[n].from % FieldAlign[fs[n].index + 1] = 0
          /\ fs[n].to = fs[n].from + FieldSize[fs[n].index + 1]
          /\ fs[n].from >= IF n = 1 THEN start ELSE fs[n - 1].to
          /\ fs[n].to <= lim
      BY <1>1, <3>1 DEF PlacedIn
    <3> QED
      BY <1>1, <3>1, <3>2
  <2> QED
    BY <2>1, <2>2
<1>5. f.to >= IF Len(longer) = 0 THEN start ELSE longer[Len(longer)].to
  <2>1. Len(longer) # 0 /\ longer[Len(longer)].to = f.to
    BY <1>1
  <2> QED
    BY <1>2, <2>1
<1>6. PlacedIn(longer, start, lim, f.to)
  BY <1>1, <1>4, <1>5 DEF PlacedIn
<1> QED
  BY <1>6 DEF longer

(* The offset may move on.                                                 *)
LEMMA PlacedOn ==
  ASSUME NEW fs \in Seq(FieldAt), NEW start \in Nat, NEW lim, NEW o \in Nat,
         PlacedIn(fs, start, lim, o), NEW further \in Nat, o <= further
  PROVE  PlacedIn(fs, start, lim, further)
<1>1. (IF Len(fs) = 0 THEN start ELSE fs[Len(fs)].to) \in Nat
  <2>1. CASE Len(fs) = 0
    BY <2>1
  <2>2. CASE Len(fs) # 0
    <3>1. fs[Len(fs)] \in FieldAt
      BY <2>2
    <3> QED
      BY <2>2, <3>1 DEF FieldAt
  <2> QED
    BY <2>1, <2>2
<1> QED
  BY <1>1 DEF PlacedIn

\* What is left of the current word is the upper end of its bits, in a word that
\* lists standard fields exactly when the decoder takes it to, at the index the
\* decoder counts from.
Scanned ==
    /\ bits \subseteq words[cur] \ {31}
    /\ \A b \in words[cur] \ {31} : b \in bits \/ \A c \in bits : b < c
    /\ {29, 30} \subseteq words[cur] => bits = words[cur] \ {31}
    /\ LastOf(words, cur) \in 0..(cur - 1)
    /\ base = 32 * (cur - 1 - LastOf(words, cur))
    /\ words[cur] \cap {29, 30} \subseteq bits => (std <=> StandardOf(words, cur))
    /\ 29 \in words[cur] \ bits => std
    /\ 30 \in words[cur] \ bits => ~std

\* A header is refused for a field the words announce without a known size.
Unsized ==
    /\ StandardOf(words, cur)
    /\ \E b \in bits : IndexOf(words, <<cur, b>>) > 28 /\ \A c \in bits : b <= c

\* How far the scan of the presence words is, phase by phase.
ScanInv ==
    /\ phase \in {"idle", "radiotap"} =>
         words = <<>> /\ fields = <<>> /\ std /\ base = 0 /\ cur = 0
    /\ phase = "maps" =>
         fields = <<>> /\ std /\ base = 0 /\ cur = 0 /\ off = 4 + 4 * Len(words)
    /\ phase = "fields" =>
         /\ Scanned
         /\ CountedIn(AnnouncedOf(words, cur, bits), words, fields)
         /\ PlacedIn(fields, 4 + 4 * Len(words), limit, off)
    /\ phase \in {"control", "header", "fixed", "elements", "eapol"} => cur = 0
    /\ (phase = "parsed" /\ status = "UNSUPPORTED" /\ cur > 0) => Unsized

(* The invariant says where the fields are and why a header is refused.    *)
LEMMA ScanPlaces ==
  ASSUME TypesInv, ScanInv
  PROVE  RadiotapFieldsPlaced
<1>1. CASE phase = "fields"
  <2>1. /\ Len(fields) = Cardinality(Announced)
        /\ \A p \in Announced :
             LET n == Cardinality({q \in Announced : Before(q, p)})
             IN  n \in DOMAIN fields /\ fields[n].index = AnnouncedIndex(p)
    BY <1>1, SameOperators DEF ScanInv, CountedIn, RankIn
  <2>2. \A n \in DOMAIN fields :
           /\ fields[n].from % FieldAlign[fields[n].index + 1] = 0
           /\ fields[n].to = fields[n].from + FieldSize[fields[n].index + 1]
           /\ fields[n].from >= IF n = 1 THEN 4 + 4 * Len(words) ELSE fields[n - 1].to
           /\ fields[n].to <= limit
    BY <1>1 DEF ScanInv, PlacedIn
  <2> QED
    BY <1>1, <2>1, <2>2 DEF RadiotapFieldsPlaced
<1>2. CASE phase = "parsed" /\ status = "UNSUPPORTED" /\ cur > 0
  <2>1. Unsized
    BY <1>2 DEF ScanInv
  <2>2. \E b \in bits : AnnouncedIndex(<<cur, b>>) > 28 /\ \A c \in bits : b <= c
    BY <2>1, SameOperators DEF Unsized
  <2> QED
    BY <1>2, <2>1, <2>2, SameOperators DEF Unsized, RadiotapFieldsPlaced
<1> QED
  BY <1>1, <1>2 DEF RadiotapFieldsPlaced

(* A frame is returned, for want of a field's size only when Unsized.      *)
LEMMA ReturnKeepsScan ==
  ASSUME NEW e, NEW f, NEW r, Return(e, f, r), e = "UNSUPPORTED" => cur = 0
  PROVE  ScanInv'
  BY DEF Return, ScanInv

(* An error for another reason.                                            *)
LEMMA FailKeepsScan ==
  ASSUME NEW e, NEW r, Fail(e, r), e # "UNSUPPORTED"
  PROVE  ScanInv'
  BY ReturnKeepsScan DEF Fail

(* Behind the radiotap header there is no word.                            *)
LEMMA EnterMacKeepsScan ==
  ASSUME NEW start, NEW f, EnterMac(start, f)
  PROVE  ScanInv'
<1>1. CASE Fail("TRUNCATED", reach)
  BY <1>1, FailKeepsScan
<1>2. CASE ~Fail("TRUNCATED", reach)
  <2>1. phase' = "control" /\ cur' = 0
    BY <1>2 DEF EnterMac, Enter, ClearLocals
  <2> QED
    BY <2>1 DEF ScanInv
<1> QED
  BY <1>1, <1>2

(* The reader starts without a word.                                       *)
LEMMA ReaderKeepsScan ==
  ASSUME TypesInv, ScanInv, Open \/ NextRefused \/ NextShort \/ NextRecord \/ Consume
  PROVE  ScanInv'
<1>1. CASE Open \/ NextRefused \/ NextShort \/ NextRecord
  <2>1. /\ phase = "idle" /\ phase' \in {"idle", "radiotap", "control"}
        /\ UNCHANGED <<words, fields, std, base, cur>>
    BY <1>1 DEF Open, NextRefused, NextShort, NextRecord, local, TypesInv, StepInv
  <2> QED
    BY <2>1 DEF ScanInv
<1>2. CASE Consume
  BY <1>2 DEF Consume, ClearLocals, ScanInv
<1> QED
  BY <1>1, <1>2

(* Behind radiotap no word is scanned.                                     *)
LEMMA MacKeepsScan ==
  ASSUME TypesInv, ScanInv, FrameControl \/ MacHeader \/ FixedFields \/ Element \/ Eapol
  PROVE  ScanInv'
<1>1. phase \in {"control", "header", "fixed", "elements", "eapol"} /\ cur = 0
  BY DEF FrameControl, MacHeader, FixedFields, Element, Eapol, ScanInv
<1>2. CASE \E e, f, r : Return(e, f, r)
  BY <1>1, <1>2, ReturnKeepsScan
<1>3. CASE phase' \in {"header", "fixed", "elements", "eapol"} /\ cur' = cur
  BY <1>1, <1>3 DEF ScanInv
<1>4. \/ \E e, f, r : Return(e, f, r)
      \/ phase' \in {"header", "fixed", "elements", "eapol"} /\ cur' = cur
  <2> USE DEF Fail, Enter
  <2>1. CASE FrameControl
    BY <2>1 DEF FrameControl
  <2>2. CASE MacHeader
    BY <2>2 DEF MacHeader
  <2>3. CASE FixedFields
    BY <2>3 DEF FixedFields
  <2>4. CASE Element
    BY <2>4 DEF Element
  <2>5. CASE Eapol
    BY <2>5 DEF Eapol
  <2> QED
    BY <2>1, <2>2, <2>3, <2>4, <2>5
<1> QED
  BY <1>2, <1>3, <1>4

(* The header of radiotap leads to the words, a TLV to the next.           *)
LEMMA TlvKeepsScan ==
  ASSUME TypesInv, ScanInv, RadiotapHeader \/ StartTlvs \/ Tlv \/ BothNamespaces
  PROVE  ScanInv'
<1>1. CASE RadiotapHeader
  <2>1. \/ \E e, r : Fail(e, r)
        \/ /\ phase' = "maps" /\ off' = 4
           /\ UNCHANGED <<words, cur, base, std, fields>>
    BY <1>1 DEF RadiotapHeader, Enter
  <2>2. words = <<>> /\ fields = <<>> /\ std /\ base = 0 /\ cur = 0
    BY <1>1 DEF RadiotapHeader, ScanInv
  <2>3. 4 + 4 * Len(words) = 4
    BY <2>2
  <2>4. CASE \E e, r : Fail(e, r)
    BY <2>2, <2>4, ReturnKeepsScan DEF Fail
  <2>5. CASE /\ phase' = "maps" /\ off' = 4
             /\ UNCHANGED <<words, cur, base, std, fields>>
    BY <2>2, <2>3, <2>5 DEF ScanInv
  <2> QED
    BY <2>1, <2>4, <2>5
<1>2. CASE StartTlvs \/ BothNamespaces
  <2>1. (\E e \in {"MALFORMED", "TRUNCATED"} : \E r : Fail(e, r)) \/ phase' = "tlvs"
    BY <1>2 DEF StartTlvs, BothNamespaces, Enter
  <2>2. CASE phase' = "tlvs"
    BY <2>2 DEF ScanInv
  <2> QED
    BY <2>1, <2>2, FailKeepsScan
<1>3. CASE Tlv
  <2>1. \/ \E e \in {"MALFORMED", "TRUNCATED"} : \E r : Fail(e, r)
        \/ phase' = "tlvs" \/ \E start, f : EnterMac(start, f)
    BY <1>3 DEF Tlv, Enter
  <2>2. CASE phase' = "tlvs"
    BY <2>2 DEF ScanInv
  <2> QED
    BY <2>1, <2>2, FailKeepsScan, EnterMacKeepsScan
<1> QED
  BY <1>1, <1>2, <1>3

(* What is known in a scan of the presence words.                          *)
LEMMA InScan ==
  ASSUME TypesInv, ScanInv, phase = "fields"
  PROVE  /\ words \in Seq(Words) /\ cur \in 1..Len(words) /\ bits \subseteq 0..30
         /\ words[cur] \in Words /\ words[cur] \subseteq 0..31
         /\ std \in BOOLEAN /\ fields \in Seq(FieldAt)
         /\ base \in Nat /\ off \in Nat /\ limit \in Nat
         /\ Scanned /\ CountedIn(AnnouncedOf(words, cur, bits), words, fields)
         /\ PlacedIn(fields, 4 + 4 * Len(words), limit, off)
<1>1. words \in Seq(Words) /\ cur \in 1..Len(words) /\ bits \subseteq 0..30
  BY DEF TypesInv, BoundsInv, Scanning
<1>2. words[cur] \in Words
  BY <1>1
<1>3. words[cur] \subseteq 0..31
  BY <1>2, LengthAssumption
<1> QED
  BY <1>1, <1>2, <1>3 DEF TypesInv, BoundsInv, Numbers, Choices, ScanInv

(* What a scanned word still holds when the scan has come to one of its    *)
(* bits.                                                                   *)
LEMMA ScanBit ==
  ASSUME TypesInv, ScanInv, NEW b, Scan(b)
  PROVE  /\ phase = "fields" /\ b \in bits /\ b \in 0..30 /\ b \in words[cur]
         /\ \A c \in bits : b <= c
         /\ ~({29, 30} \subseteq words[cur])
         /\ bits \ {b} \subseteq words[cur] \ {31}
         /\ \A c \in words[cur] \ {31} : c \in bits \ {b} \/ \A d \in bits \ {b} : c < d
<1>1. /\ phase = "fields" /\ b \in bits /\ \A c \in bits : b <= c
      /\ ~({29, 30} \subseteq words[cur])
  BY DEF Scan
<1>2. bits \subseteq 0..30 /\ bits \subseteq words[cur] \ {31} /\ words[cur] \subseteq 0..31
  BY <1>1, InScan DEF Scanned
<1>3. ASSUME NEW c \in words[cur] \ {31}, c \notin bits \ {b}, NEW d \in bits \ {b}
      PROVE  c < d
  <2>1. b \in 0..30 /\ d \in 0..30 /\ c \in 0..31 /\ b <= d /\ b # d
    BY <1>1, <1>2, <1>3
  <2>2. CASE c = b
    BY <2>1, <2>2
  <2>3. CASE c # b
    <3>1. c \notin bits
      BY <1>3, <2>3
    <3> QED
      BY <1>1, <1>3, <3>1, InScan DEF Scanned
  <2> QED
    BY <2>2, <2>3
<1> QED
  BY <1>1, <1>2, <1>3

(* A step that leaves the fields alone and drops a bit announces nothing,  *)
(* if the bit is a namespace's or the word lists no standard fields.       *)
LEMMA DropBit ==
  ASSUME NEW ws, NEW c, NEW bs, NEW b, b \notin 0..28 \/ ~StandardOf(ws, c)
  PROVE  AnnouncedOf(ws, c, bs \ {b}) = AnnouncedOf(ws, c, bs)
<1>1. ASSUME NEW p \in (1..c) \X (0..28), p[1] = c, StandardOf(ws, p[1])
      PROVE  p[2] \in bs \ {b} <=> p[2] \in bs
  <2>1. p[2] # b
    BY <1>1
  <2> QED
    BY <2>1
<1> QED
  BY <1>1 DEF AnnouncedOf

(* While bits of fields are left, the namespace bits of the word are.      *)
LEMMA NamespacesLeft ==
  ASSUME TypesInv, ScanInv, NEW b \in 0..28, Scan(b)
  PROVE  /\ words[cur] \cap {29, 30} \subseteq bits \ {b}
         /\ std <=> StandardOf(words, cur)
<1>1. /\ b \in bits /\ Scanned
      /\ \A c \in words[cur] \ {31} : c \in bits \ {b} \/ \A d \in bits \ {b} : c < d
  BY ScanBit, InScan
<1>2. ASSUME NEW c \in words[cur] \cap {29, 30} PROVE c \in bits \ {b}
  <2>1. c \in bits \/ \A d \in bits : c < d
    BY <1>1, <1>2 DEF Scanned
  <2>2. ~(c < b)
    BY <1>2
  <2> QED
    BY <1>1, <1>2, <2>1, <2>2
<1>3. words[cur] \cap {29, 30} \subseteq bits
  BY <1>2
<1> QED
  BY <1>1, <1>2, <1>3 DEF Scanned

(* Presence words are followed by the scan of the first.                   *)
LEMMA PresenceKeepsScan ==
  ASSUME TypesInv, ScanInv, PresenceWord
  PROVE  ScanInv'
<1>1. CASE ~Available(limit, off, 4)
  BY <1>1, FailKeepsScan DEF PresenceWord
<1>2. CASE Available(limit, off, 4)
  <2>1. PICK word \in Words :
          /\ words' = Append(words, word) /\ off' = off + 4
          /\ \/ phase' = "maps" /\ cur' = cur
             \/ phase' = "fields" /\ cur' = 1 /\ bits' = words'[1] \ {31}
          /\ UNCHANGED <<limit, base, std, fields>>
    BY <1>2 DEF PresenceWord, Enter
  <2>2. /\ words \in Seq(Words) /\ fields = <<>> /\ std /\ base = 0 /\ cur = 0
        /\ off = 4 + 4 * Len(words)
    BY DEF PresenceWord, ScanInv, TypesInv, BoundsInv, Scanning
  <2>3. /\ words' \in Seq(Words) /\ Len(words') = Len(words) + 1 /\ Len(words) \in Nat
        /\ words'[1] \in Words
    BY <2>1, <2>2
  <2>4. off' = 4 + 4 * Len(words')
    BY <2>1, <2>2, <2>3
  <2>5. CASE phase' = "maps" /\ cur' = cur
    BY <2>1, <2>2, <2>4, <2>5 DEF ScanInv
  <2>6. CASE phase' = "fields" /\ cur' = 1 /\ bits' = words'[1] \ {31}
    <3>1. /\ LastOf(words', 1) = 0 /\ StandardOf(words', 1)
          /\ AnnouncedOf(words', 1, bits') = {}
      BY <2>6, FirstWord
    <3>2. words'[1] \subseteq 0..31
      BY <2>3, LengthAssumption
    <3>3. Scanned'
      BY <2>1, <2>2, <2>6, <3>1, <3>2 DEF Scanned
    <3>4. CountedIn(AnnouncedOf(words', 1, bits'), words', fields')
      <4>1. fields' = <<>> /\ Cardinality({}) = 0
        BY <2>1, <2>2, FS_EmptySet
      <4> QED
        BY <3>1, <4>1 DEF CountedIn
    <3>5. PlacedIn(fields', 4 + 4 * Len(words'), limit', off')
      <4>1. fields' = <<>> /\ off' \in Nat
        BY <2>1, <2>2, <2>3, <2>4
      <4> QED
        BY <2>4, <4>1 DEF PlacedIn
    <3> QED
      BY <2>6, <3>3, <3>4, <3>5 DEF ScanInv
  <2> QED
    BY <2>1, <2>5, <2>6
<1> QED
  BY <1>1, <1>2

(* A namespace bit, or a field of a vendor's, announces nothing.           *)
LEMMA NamespaceKeepsScan ==
  ASSUME TypesInv, ScanInv, StandardNamespace \/ VendorNamespace \/ VendorField
  PROVE  ScanInv'
<1>1. ASSUME NEW b, Scan(b), bits' = bits \ {b}, phase' = "fields",
             UNCHANGED <<words, cur, base, fields, limit>>, off' \in Nat, off <= off',
             b \notin 0..28 \/ ~StandardOf(words, cur),
             words[cur] \cap {29, 30} \subseteq bits \ {b} =>
                 (std' <=> StandardOf(words, cur)),
             29 \in words[cur] \ (bits \ {b}) => std',
             30 \in words[cur] \ (bits \ {b}) => ~std'
      PROVE  ScanInv'
  <2>1. Scanned'
    BY <1>1, ScanBit, InScan, ZenonT(30) DEF Scanned
  <2>2. CountedIn(AnnouncedOf(words, cur, bits \ {b}), words, fields)
    <3>1. AnnouncedOf(words, cur, bits \ {b}) = AnnouncedOf(words, cur, bits)
      BY <1>1, DropBit
    <3> QED
      BY <1>1, <3>1, ScanBit, InScan
  <2>3. PlacedIn(fields, 4 + 4 * Len(words), limit, off')
    <3>1. 4 + 4 * Len(words) \in Nat
      BY <1>1, ScanBit, InScan
    <3> QED
      BY <1>1, <3>1, ScanBit, InScan, PlacedOn
  <2> QED
    BY <1>1, <2>1, <2>2, <2>3 DEF ScanInv
<1>2. CASE StandardNamespace
  <2>1. /\ Scan(29) /\ std' = TRUE /\ bits' = bits \ {29} /\ phase' = "fields"
        /\ UNCHANGED <<words, cur, base, fields, limit, off>>
    BY <1>2 DEF StandardNamespace, Enter
  <2>2. 29 \in words[cur] /\ 30 \notin words[cur] /\ off \in Nat
    BY <2>1, ScanBit, InScan
  <2> QED
    BY <1>1, <2>1, <2>2
<1>3. CASE VendorNamespace
  <2>1. CASE \E e \in {"TRUNCATED"} : \E r : Fail(e, r)
    BY <2>1, FailKeepsScan
  <2>2. CASE ~\E e \in {"TRUNCATED"} : \E r : Fail(e, r)
    <3>1. PICK skip \in VendorLens :
            /\ Scan(30) /\ std' = FALSE /\ bits' = bits \ {30} /\ phase' = "fields"
            /\ off' = Align(off, 2) + 6 + skip
            /\ UNCHANGED <<words, cur, base, fields, limit>>
      BY <1>3, <2>2 DEF VendorNamespace, Enter
    <3>2. 30 \in words[cur] /\ 29 \notin words[cur] /\ off \in Nat
      BY <3>1, ScanBit, InScan
    <3>3. off' \in Nat /\ off <= off'
      <4>1. Align(off, 2) \in Nat /\ Align(off, 2) >= off
        <5>1. off \in Nat /\ 2 \in 1..8
          BY <3>2
        <5> QED
          BY <5>1, AlignForward
      <4>2. skip \in Nat
        BY LengthAssumption
      <4> QED
        BY <3>1, <3>2, <4>1, <4>2
    <3> QED
      BY <1>1, <3>1, <3>2, <3>3
  <2> QED
    BY <2>1, <2>2
<1>4. CASE VendorField
  <2>1. PICK b \in 0..28 :
          /\ Scan(b) /\ ~std /\ bits' = bits \ {b} /\ phase' = "fields"
          /\ UNCHANGED <<words, cur, base, fields, limit, off, std>>
    BY <1>4 DEF VendorField, Enter
  <2>2. /\ words[cur] \cap {29, 30} \subseteq bits \ {b}
        /\ std <=> StandardOf(words, cur)
    BY <2>1, NamespacesLeft
  <2>3. off \in Nat
    BY <2>1, ScanBit, InScan
  <2> QED
    BY <1>1, <2>1, <2>2, <2>3
<1> QED
  BY <1>2, <1>3, <1>4

(* The scan of a word is over: its namespace bits are handled.             *)
LEMMA WordKeepsScan ==
  ASSUME TypesInv, ScanInv, EndOfWord
  PROVE  ScanInv'
<1>1. phase = "fields" /\ bits = {}
  BY DEF EndOfWord
<1>2. CASE cur = Len(words)
  BY <1>2, EnterMacKeepsScan DEF EndOfWord
<1>3. CASE cur # Len(words)
  <2>1. /\ cur' = cur + 1 /\ bits' = words[cur + 1] \ {31} /\ base' = NextBase
        /\ phase' = "fields" /\ UNCHANGED <<limit, off, words, std, fields>>
    BY <1>3 DEF EndOfWord, Enter
  <2>2. /\ words \in Seq(Words) /\ cur \in 1..Len(words) /\ cur + 1 \in 1..Len(words)
        /\ words[cur] \subseteq 0..31 /\ std \in BOOLEAN /\ Scanned
    BY <1>1, <1>3, InScan
  <2>3. words[cur + 1] \subseteq 0..31
    <3>1. words[cur + 1] \in Words
      BY <2>2
    <3> QED
      BY <3>1, LengthAssumption
  <2>4. LastOf(words, cur + 1) = IF words[cur] \cap {29, 30} # {} THEN cur
                                 ELSE LastOf(words, cur)
    <3>1. cur \in Nat \ {0}
      BY <2>2
    <3> QED
      BY <3>1, NextReset
  <2>5. /\ LastOf(words, cur + 1) \in 0..cur
        /\ base' = 32 * (cur - LastOf(words, cur + 1))
    <3>1. CASE words[cur] \cap {29, 30} # {}
      <4>1. LastOf(words, cur + 1) = cur /\ base' = 0
        BY <2>1, <2>4, <3>1 DEF NextBase
      <4> QED
        BY <2>2, <4>1
    <3>2. CASE words[cur] \cap {29, 30} = {}
      <4>1. /\ base = 32 * (cur - 1 - LastOf(words, cur)) /\ LastOf(words, cur) \in 0..(cur - 1)
        BY <2>2 DEF Scanned
      <4> QED
        BY <2>1, <2>2, <2>4, <3>2, <4>1 DEF NextBase
    <3> QED
      BY <3>1, <3>2
  <2>6. std <=> StandardOf(words, cur + 1)
    <3>1. CASE words[cur] \cap {29, 30} # {}
      <4>1. LastOf(words, cur + 1) = cur /\ cur # 0
        BY <2>2, <2>4, <3>1
      <4>2. StandardOf(words, cur + 1) <=> 29 \in words[cur]
        BY <4>1 DEF StandardOf
      <4>3. ~({29, 30} \subseteq words[cur])
        BY <1>1, <2>2 DEF Scanned
      <4>4. (29 \in words[cur] => std) /\ (30 \in words[cur] => ~std)
        BY <1>1, <2>2 DEF Scanned
      <4> QED
        BY <3>1, <4>2, <4>3, <4>4
    <3>2. CASE words[cur] \cap {29, 30} = {}
      <4>1. StandardOf(words, cur + 1) <=> StandardOf(words, cur)
        BY <2>4, <3>2 DEF StandardOf
      <4>2. std <=> StandardOf(words, cur)
        BY <1>1, <2>2, <3>2 DEF Scanned
      <4> QED
        BY <4>1, <4>2
    <3> QED
      BY <3>1, <3>2
  <2>7. Scanned'
    <3>1. (cur + 1) - 1 = cur
      BY <2>2
    <3> QED
      BY <2>1, <2>3, <2>5, <2>6, <3>1 DEF Scanned
  <2>8. AnnouncedOf(words, cur + 1, words[cur + 1] \ {31}) = AnnouncedOf(words, cur, bits)
    BY <1>1, <2>2, NextWord
  <2>9. CountedIn(AnnouncedOf(words', cur', bits'), words', fields')
    BY <1>1, <2>1, <2>8, InScan
  <2>10. PlacedIn(fields', 4 + 4 * Len(words'), limit', off')
    BY <1>1, <2>1, InScan
  <2> QED
    BY <2>1, <2>7, <2>9, <2>10 DEF ScanInv
<1> QED
  BY <1>2, <1>3

(* A field of the standard namespace is the next of those announced.       *)
LEMMA FieldKeepsScan ==
  ASSUME TypesInv, ScanInv, StandardField
  PROVE  ScanInv'
<1>1. PICK b \in bits \cap 0..28 :
        LET start == Align(off, FieldAlign[base + b + 1])
            size == FieldSize[base + b + 1]
        IN  /\ Scan(b) /\ std /\ base + b # 28
            /\ \/ base + b > 28 /\ Fail("UNSUPPORTED", reach)
               \/ Fail("TRUNCATED", reach)
               \/ /\ ~(base + b > 28) /\ start + size <= limit
                  /\ off' = start + size
                  /\ fields' = Append(fields, [index |-> base + b, from |-> start,
                                               to |-> start + size])
                  /\ bits' = bits \ {b} /\ phase' = "fields"
                  /\ UNCHANGED <<limit, words, cur, base, std>>
  BY DEF StandardField, Available, Enter
<1>2. /\ Scan(b) /\ b \in 0..28 /\ b \in bits /\ phase = "fields" /\ base + b # 28
      /\ \A c \in bits : b <= c
  BY <1>1 DEF Scan
<1>3. std /\ StandardOf(words, cur) /\ words[cur] \cap {29, 30} \subseteq bits \ {b}
  BY <1>1, <1>2, NamespacesLeft
<1>4. /\ words \in Seq(Words) /\ cur \in 1..Len(words) /\ fields \in Seq(FieldAt)
      /\ base \in Nat /\ off \in Nat /\ limit \in Nat /\ Scanned
      /\ CountedIn(AnnouncedOf(words, cur, bits), words, fields)
      /\ PlacedIn(fields, 4 + 4 * Len(words), limit, off)
  BY <1>2, InScan
<1>5. IndexOf(words, <<cur, b>>) = base + b
  BY <1>4 DEF IndexOf, Scanned
<1>6. CASE base + b > 28 /\ Fail("UNSUPPORTED", reach)
  <2>1. Unsized
    BY <1>2, <1>3, <1>5, <1>6 DEF Unsized
  <2>2. phase' = "parsed" /\ UNCHANGED <<words, cur, bits>>
    BY <1>6 DEF Fail, Return
  <2>3. Unsized'
    BY <2>1, <2>2 DEF Unsized
  <2> QED
    BY <2>2, <2>3 DEF ScanInv
<1>7. CASE Fail("TRUNCATED", reach)
  BY <1>7, FailKeepsScan
<1>8. CASE ~(base + b > 28) /\ phase' = "fields" /\ ~Fail("UNSUPPORTED", reach)
           /\ ~Fail("TRUNCATED", reach)
  <2> DEFINE start == Align(off, FieldAlign[base + b + 1])
             size == FieldSize[base + b + 1]
             f == [index |-> base + b, from |-> start, to |-> start + size]
  <2>1. base + b \in 0..27
    BY <1>2, <1>4, <1>8
  <2>2. /\ start \in Nat /\ size \in Nat /\ start >= off
        /\ start % FieldAlign[base + b + 1] = 0
    <3>1. FieldAlign[base + b + 1] \in {1, 2, 4, 8} /\ size \in Nat
      BY <2>1 DEF FieldAlign, FieldSize
    <3>2. start \in Nat /\ start >= off
      BY <1>4, <2>1, FieldTables, AlignForward
    <3>3. start % FieldAlign[base + b + 1] = 0
      BY <1>4, <3>1, AlignMultiple
    <3> QED
      BY <3>1, <3>2, <3>3
  <2>3. /\ off' = start + size /\ start + size <= limit /\ fields' = Append(fields, f)
        /\ bits' = bits \ {b} /\ UNCHANGED <<limit, words, cur, base, std>>
    BY <1>1, <1>8
  <2> HIDE DEF start, size
  <2>4. /\ f \in FieldAt /\ f.index = base + b /\ f.from = start /\ f.to = start + size
    BY <2>1, <2>2 DEF FieldAt
  <2> HIDE DEF f
  <2>5. Scanned'
    <3>1. /\ bits \ {b} \subseteq words[cur] \ {31}
          /\ \A c \in words[cur] \ {31} : c \in bits \ {b} \/ \A d \in bits \ {b} : c < d
          /\ ~({29, 30} \subseteq words[cur])
      BY <1>2, ScanBit
    <3>2. words[cur] \cap {29, 30} \subseteq bits \ {b}
      BY <1>3
    <3> QED
      BY <1>3, <1>4, <2>3, <3>1, <3>2 DEF Scanned
  <2>6. CountedIn(AnnouncedOf(words, cur, bits \ {b}), words, Append(fields, f))
    <3> DEFINE A == AnnouncedOf(words, cur, bits)
               p == <<cur, b>>
    <3>1. /\ \A c \in words[cur] \ {31} : c \in bits \ {b} \/ \A d \in bits \ {b} : c < d
          /\ \A c \in words[cur] \ {31} : c \in bits \/ \A d \in bits : c < d
          /\ b \in words[cur]
      BY <1>2, <1>4, ScanBit DEF Scanned
    <3>2. AnnouncedOf(words, cur, bits \ {b}) = A \cup {p}
      <4>1. ASSUME NEW q \in (1..cur) \X (0..28)
            PROVE  q \in AnnouncedOf(words, cur, bits \ {b}) <=> q \in A \cup {p}
        <5>1. CASE q = p
          BY <1>3, <3>1, <5>1 DEF AnnouncedOf
        <5>2. CASE q # p
          <6>1. q[1] = cur => q[2] # b
            BY <4>1, <5>2
          <6> QED
            BY <5>2, <6>1 DEF AnnouncedOf
        <5> QED
          BY <5>1, <5>2
      <4>2. p \in (1..cur) \X (0..28)
        <5>1. cur \in 1..cur /\ b \in 0..28
          BY <1>2, <1>4
        <5> QED
          BY <5>1
      <4> QED
        BY <4>1, <4>2 DEF AnnouncedOf
    <3>3. p \notin A
      BY <1>2 DEF AnnouncedOf
    <3>4. Before(p, p)
      BY <1>2 DEF Before
    <3>5. ASSUME NEW q \in A PROVE Before(q, p) /\ ~Before(p, q)
      <4>1. /\ q[1] \in 1..cur /\ q[2] \in 0..28 /\ q[2] \in words[q[1]]
            /\ q[1] = cur => q[2] \notin bits
        BY <3>5 DEF AnnouncedOf
      <4>2. CASE q[1] = cur
        <5>1. q[2] < b
          BY <1>2, <3>1, <4>1, <4>2
        <5> QED
          BY <1>2, <4>1, <4>2, <5>1 DEF Before
      <4>3. CASE q[1] # cur
        BY <1>4, <4>1, <4>3 DEF Before
      <4> QED
        BY <4>2, <4>3
    <3>6. IsFiniteSet(A)
      BY <1>4, AnnouncedFinite
    <3>7. f.index = IndexOf(words, p)
      BY <1>5, <2>4
    <3> HIDE DEF A, p
    <3>8. CountedIn(A, words, fields)
      BY <1>4 DEF A
    <3>9. CountedIn(A \cup {p}, words, Append(fields, f))
      BY <1>4, <2>4, <3>3, <3>4, <3>5, <3>6, <3>7, <3>8, AnnounceOne
    <3> QED
      BY <3>2, <3>9
  <2>7. PlacedIn(Append(fields, f), 4 + 4 * Len(words), limit, f.to)
    <3>1. 4 + 4 * Len(words) \in Nat
      BY <1>4
    <3>2. /\ f.from % FieldAlign[f.index + 1] = 0 /\ f.to = f.from + FieldSize[f.index + 1]
          /\ f.from >= off /\ f.to <= limit
      BY <2>2, <2>3, <2>4 DEF size
    <3> QED
      BY <1>4, <2>4, <3>1, <3>2, PlaceOne
  <2>8. off' = f.to
    BY <2>3, <2>4
  <2> QED
    BY <1>8, <2>3, <2>5, <2>6, <2>7, <2>8 DEF ScanInv
<1> QED
  BY <1>1, <1>6, <1>7, <1>8 DEF Fail, Return

(* The standard fields found are those the presence words announce, in     *)
(* their order, each at its index, aligned and behind the one before it;   *)
(* and a header is refused only for a field that the words announce.       *)
THEOREM FieldsArePlaced == Spec => []RadiotapFieldsPlaced
<1> DEFINE Inv == TypesInv /\ ScanInv
<1>1. Init => Inv
  <2>1. Init => ScanInv
    BY DEF Init, ScanInv
  <2> QED
    BY <2>1, TypesBegin
<1>2. Inv /\ [Next]_vars => Inv'
  <2> SUFFICES ASSUME TypesInv, ScanInv, [Next]_vars
               PROVE  ScanInv'
    BY TypesKept
  <2>1. CASE Open \/ NextRefused \/ NextShort \/ NextRecord \/ Consume
    BY <2>1, ReaderKeepsScan
  <2>2. CASE RadiotapHeader \/ StartTlvs \/ Tlv \/ BothNamespaces
    BY <2>2, TlvKeepsScan
  <2>3. CASE PresenceWord
    BY <2>3, PresenceKeepsScan
  <2>4. CASE StandardNamespace \/ VendorNamespace \/ VendorField
    BY <2>4, NamespaceKeepsScan
  <2>5. CASE StandardField
    BY <2>5, FieldKeepsScan
  <2>6. CASE EndOfWord
    BY <2>6, WordKeepsScan
  <2>7. CASE FrameControl \/ MacHeader \/ FixedFields \/ Element \/ Eapol
    BY <2>7, MacKeepsScan
  <2>8. CASE UNCHANGED vars
    <3>1. UNCHANGED <<status, phase, limit, off, words, cur, bits, base, std, fields>>
      BY <2>8 DEF vars, local
    <3> QED
      BY <3>1 DEF ScanInv, Scanned, Unsized
  <2> QED
    BY <2>1, <2>2, <2>3, <2>4, <2>5, <2>6, <2>7, <2>8 DEF Next, Decode
<1>3. Inv => RadiotapFieldsPlaced
  BY ScanPlaces
<1> QED
  BY <1>1, <1>2, <1>3, PTL DEF Spec

---------------------------------------------------------------------------
(* Progress of the loops.                                                  *)

\* One step of the decoder gets nearer to the end of the frame, or leaves it.
Nearer ==
    \/ phase' \notin Decoding
    \/ Place[phase] < Place[phase']
    \/ /\ phase' = phase /\ phase # "fields" /\ limit' = limit
       /\ off' \in (off + 1)..limit
    \/ /\ phase' = phase /\ phase = "fields" /\ words' = words
       /\ \/ cur' \in (cur + 1)..Len(words)
          \/ cur' = cur /\ bits' \subseteq bits /\ bits' # bits

(* A failure ends the frame, and so does a return; the end of the radiotap *)
(* header leads on to the MAC header.                                      *)
LEMMA EndingsAreNearer ==
  ASSUME NEW e, NEW f, NEW r, NEW start,
         \/ Return(e, f, r) \/ Fail(e, r)
         \/ phase \in {"fields", "tlvs"} /\ EnterMac(start, f)
  PROVE  Nearer
<1>1. "parsed" \notin Decoding
  BY DEF Decoding
<1>2. CASE Return(e, f, r) \/ Fail(e, r)
  BY <1>1, <1>2 DEF Return, Fail, Nearer
<1>3. CASE phase \in {"fields", "tlvs"} /\ EnterMac(start, f)
  <2>1. phase' = "parsed" \/ phase' = "control"
    BY <1>3 DEF EnterMac, Fail, Return, Enter
  <2>2. Place["fields"] < Place["control"] /\ Place["tlvs"] < Place["control"]
    BY DEF Place
  <2> QED
    BY <1>1, <1>3, <2>1, <2>2 DEF Nearer
<1> QED
  BY <1>2, <1>3

(* The loops over presence words and over the bits of one.                 *)
LEMMA ScanIsNearer ==
  ASSUME BoundsInv,
         \/ RadiotapHeader \/ PresenceWord \/ BothNamespaces \/ StandardNamespace
         \/ VendorNamespace \/ VendorField \/ StartTlvs \/ StandardField \/ EndOfWord
  PROVE  Nearer
<1>1. /\ off \in Nat /\ limit \in Nat
      /\ phase = "fields" => cur \in 1..Len(words) /\ Len(words) \in Nat
  BY DEF BoundsInv, Numbers, Scanning
<1>2. /\ Place["radiotap"] < Place["maps"] /\ Place["maps"] < Place["fields"]
      /\ Place["fields"] < Place["tlvs"]
  BY DEF Place
<1>3. CASE \E e, r : Fail(e, r)
  BY <1>3, EndingsAreNearer
<1>4. CASE phase = "fields" /\ EnterMac(limit, frame)
  BY <1>4, EndingsAreNearer
<1>5. ASSUME ~(\E e, r : Fail(e, r)), ~(phase = "fields" /\ EnterMac(limit, frame))
      PROVE  Nearer
  <2>1. CASE RadiotapHeader
    <3>1. phase = "radiotap" /\ phase' = "maps"
      BY <1>5, <2>1 DEF RadiotapHeader, Enter
    <3> QED
      BY <1>2, <3>1 DEF Nearer
  <2>2. CASE PresenceWord
    <3>1. /\ phase = "maps" /\ off' = off + 4 /\ limit' = limit /\ off + 4 <= limit
          /\ phase' \in {"maps", "fields"}
      BY <1>5, <2>2 DEF PresenceWord, Enter, Available
    <3>2. off' \in (off + 1)..limit
      BY <1>1, <3>1
    <3> QED
      BY <1>2, <3>1, <3>2 DEF Nearer
  <2>3. ~BothNamespaces
    BY <1>5 DEF BothNamespaces
  <2>4. CASE StandardNamespace
    BY <2>4 DEF StandardNamespace, Scan, Enter, Nearer
  <2>5. CASE VendorNamespace
    <3>1. /\ phase = "fields" /\ phase' = "fields" /\ words' = words /\ cur' = cur
          /\ bits' = bits \ {30} /\ 30 \in bits
      BY <1>5, <2>5 DEF VendorNamespace, Scan, Enter
    <3> QED
      BY <3>1 DEF Nearer
  <2>6. CASE VendorField
    BY <2>6 DEF VendorField, Scan, Enter, Nearer
  <2>7. CASE StartTlvs
    <3>1. phase = "fields" /\ phase' = "tlvs"
      BY <1>5, <2>7 DEF StartTlvs, Scan, Enter
    <3> QED
      BY <1>2, <3>1 DEF Nearer
  <2>8. CASE StandardField
    <3>1. /\ phase = "fields" /\ phase' = "fields" /\ words' = words /\ cur' = cur
          /\ \E b \in bits : bits' = bits \ {b}
      BY <1>5, <2>8 DEF StandardField, Scan, Enter
    <3> QED
      BY <3>1 DEF Nearer
  <2>9. CASE EndOfWord
    <3>1. /\ phase = "fields" /\ phase' = "fields" /\ words' = words
          /\ cur # Len(words) /\ cur' = cur + 1
      BY <1>5, <2>9 DEF EndOfWord, Enter
    <3>2. cur' \in (cur + 1)..Len(words)
      BY <1>1, <3>1
    <3> QED
      BY <3>1, <3>2 DEF Nearer
  <2> QED
    BY <2>1, <2>2, <2>3, <2>4, <2>5, <2>6, <2>7, <2>8, <2>9
<1> QED
  BY <1>3, <1>4, <1>5

(* The loop over TLVs: each takes at least its own header.                 *)
LEMMA TlvIsNearer ==
  ASSUME BoundsInv, Tlv
  PROVE  Nearer
<1>1. off \in Nat /\ limit \in Nat
  BY DEF BoundsInv, Numbers
<1>2. CASE \E e, r : Fail(e, r)
  BY <1>2, EndingsAreNearer
<1>3. CASE phase = "tlvs" /\ EnterMac(limit, frame)
  BY <1>3, EndingsAreNearer
<1>4. ASSUME ~(\E e, r : Fail(e, r)), ~(phase = "tlvs" /\ EnterMac(limit, frame))
      PROVE  Nearer
  <2>1. PICK tlv \in Tlvs :
          /\ Available(limit, Align(TlvEnd(tlv), 4), 0)
          /\ off' = Align(TlvEnd(tlv), 4) /\ limit' = limit
          /\ phase = "tlvs" /\ phase' = "tlvs"
    <3>1. phase = "tlvs" /\ ~(off >= limit) /\ Available(limit, off, 4)
      BY <1>1, <1>4 DEF Tlv
    <3>2. PICK tlv \in Tlvs :
            LET end == TlvEnd(tlv)
            IN  CASE tlv[1] \in {29, 31} -> Fail("MALFORMED", off + 4)
                  [] tlv[1] \notin {29, 31} /\ ~Available(limit, Align(end, 4), 0) ->
                       Fail("TRUNCATED", off + 4)
                  [] OTHER -> /\ off' = Align(end, 4) /\ reach' = end
                              /\ frame' \in WithValue(tlv[1], tlv[2])
                              /\ Enter("tlvs")
                              /\ UNCHANGED <<origin, limit, words, cur, bits,
                                             base, std, fields>>
      BY <1>1, <3>1 DEF Tlv
    <3>3. tlv[1] \notin {29, 31} /\ Available(limit, Align(TlvEnd(tlv), 4), 0)
      BY <1>4, <3>2
    <3> QED
      BY <3>1, <3>2, <3>3 DEF Enter
  <2>2. TlvEnd(tlv) \in Nat /\ TlvEnd(tlv) > off
    BY <1>1, LengthAssumption DEF TlvEnd
  <2>3. Align(TlvEnd(tlv), 4) \in Nat /\ Align(TlvEnd(tlv), 4) >= TlvEnd(tlv)
    BY <2>2, AlignForward
  <2>4. off' \in (off + 1)..limit
    BY <1>1, <2>1, <2>2, <2>3 DEF Available
  <2> QED
    BY <2>1, <2>4 DEF Nearer
<1> QED
  BY <1>2, <1>3, <1>4

(* The MAC header, and the loop over elements: each takes its own header.  *)
LEMMA MacIsNearer ==
  ASSUME BoundsInv, FrameControl \/ MacHeader \/ FixedFields \/ Element \/ Eapol
  PROVE  Nearer
<1>1. off \in Nat /\ limit \in Nat
  BY DEF BoundsInv, Numbers
<1>2. /\ Place["control"] < Place["header"] /\ Place["header"] < Place["fixed"]
      /\ Place["header"] < Place["eapol"] /\ Place["fixed"] < Place["elements"]
  BY DEF Place
<1>3. CASE (\E e, f, r : Return(e, f, r)) \/ (\E e, r : Fail(e, r))
  BY <1>3, EndingsAreNearer
<1>4. ASSUME ~(\E e, f, r : Return(e, f, r)), ~(\E e, r : Fail(e, r))
      PROVE  Nearer
  <2>1. CASE FrameControl
    <3>1. phase = "control" /\ phase' = "header"
      BY <1>4, <2>1 DEF FrameControl, Enter
    <3> QED
      BY <1>2, <3>1 DEF Nearer
  <2>2. CASE MacHeader
    <3>1. phase = "header" /\ phase' \in {"fixed", "eapol"}
      BY <1>4, <2>2 DEF MacHeader, Enter
    <3> QED
      BY <1>2, <3>1 DEF Nearer
  <2>3. CASE FixedFields
    <3>1. phase = "fixed" /\ phase' = "elements"
      BY <1>4, <2>3 DEF FixedFields, Enter
    <3> QED
      BY <1>2, <3>1 DEF Nearer
  <2>4. CASE Element
    <3>1. phase = "elements" /\ ~(off >= limit) /\ Available(limit, off, 2)
      BY <1>1, <1>4, <2>4 DEF Element
    <3>2. PICK ie \in Elements :
            IF ~Available(limit, off + 2, ie[2]) THEN Fail("TRUNCATED", off + 2)
            ELSE IF IesFull THEN Fail("CAPACITY", off + 2)
            ELSE IF ~SizeAllowed(ie[1], ie[2]) THEN Fail("MALFORMED", off + 2)
            ELSE /\ frame' = WithElement(ie[1], ie[2])
                 /\ off' = off + 2 + ie[2] /\ reach' = off + 2 + ie[2]
                 /\ Enter("elements")
                 /\ UNCHANGED <<origin, limit, words, cur, bits, base, std, fields>>
      BY <1>1, <2>4, <3>1 DEF Element
    <3>3. /\ off' = off + 2 + ie[2] /\ limit' = limit /\ phase' = "elements"
          /\ off + 2 + ie[2] <= limit
      BY <1>4, <3>2 DEF Enter, Available
    <3>4. ie[2] \in Nat
      BY LengthAssumption
    <3>5. off' \in (off + 1)..limit
      BY <1>1, <3>3, <3>4
    <3> QED
      BY <3>1, <3>3, <3>5 DEF Nearer
  <2>5. ~Eapol
    BY <1>4 DEF Eapol
  <2> QED
    BY <2>1, <2>2, <2>3, <2>4, <2>5
<1> QED
  BY <1>3, <1>4, <1>1

(* Every turn of every loop of the decoder comes closer to its end, over   *)
(* whatever lengths and presence words a file holds: none of airtrace.c's  *)
(* loops can stay where it is.                                             *)
THEOREM EveryTurnAdvances == Spec => TurnsAdvance
<1> DEFINE Both == BoundsInv /\ StepInv
<1>1. Both => ((phase \in Decoding /\ phase' \in Decoding /\ Next) => Nearer)
  <2> SUFFICES ASSUME Both, phase \in Decoding, phase' \in Decoding, Next
               PROVE  Nearer
    OBVIOUS
  <2>1. phase # "idle" /\ phase # "parsed"
    BY DEF Decoding
  <2>2. ~(Open \/ NextRefused \/ NextShort \/ NextRecord \/ Consume)
    BY <2>1 DEF StepInv, Open, NextRefused, NextShort, NextRecord, Consume
  <2> QED
    BY <2>2, ScanIsNearer, TlvIsNearer, MacIsNearer DEF Next, Decode
<1>2. Both /\ [Next]_vars
        => [(phase \in Decoding /\ phase' \in Decoding) =>
              \/ Place[phase] < Place[phase']
              \/ /\ phase' = phase /\ phase # "fields" /\ limit' = limit
                 /\ off' \in (off + 1)..limit
              \/ /\ phase' = phase /\ phase = "fields" /\ words' = words
                 /\ \/ cur' \in (cur + 1)..Len(words)
                    \/ cur' = cur /\ bits' \subseteq bits /\ bits' # bits]_vars
  BY <1>1 DEF Nearer
<1>3. Init => Both
  BY LengthAssumption DEF Init, BoundsInv, Numbers, Scanning, Regions, ReadsInBounds,
                          RadiotapPhases, StepInv
<1>4. Both /\ [Next]_vars => Both'
  BY BoundsKept, StepKept
<1> QED
  BY <1>2, <1>3, <1>4, PTL DEF Spec, TurnsAdvance
=============================================================================
