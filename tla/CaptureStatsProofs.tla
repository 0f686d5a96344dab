------------------------- MODULE CaptureStatsProofs --------------------------
(***************************************************************************)
(* Theorems of CaptureStats: every variable keeps its type; the counters   *)
(* and both tables agree with the frames that were parsed; exit status 0   *)
(* means that nothing is missing.  They hold for every set of frames, for  *)
(* every capacity of the tables and for captures of every length.          *)
(***************************************************************************)
EXTENDS CaptureStats, SequenceTheorems, FiniteSetTheorems, TLAPS

USE DEF counters, tables

-----------------------------------------------------------------------------
(* Sequences of frames and sets of places in them. *)

(* What one more element does to a sequence. *)
LEMMA Grows ==
  ASSUME NEW S, NEW s \in Seq(S), NEW e \in S
  PROVE  /\ Len(s) \in Nat
         /\ DOMAIN s = 1..Len(s) /\ DOMAIN Append(s, e) = 1..(Len(s) + 1)
         /\ Append(s, e) \in Seq(S) /\ Len(Append(s, e)) = Len(s) + 1
         /\ \A k \in 1..Len(s) : Append(s, e)[k] = s[k] /\ s[k] \in S
         /\ Append(s, e)[Len(s) + 1] = e
<1>1. Append(s, e) \in Seq(S) /\ Len(Append(s, e)) = Len(s) + 1
  BY AppendProperties
<1> QED
  BY <1>1, AppendProperties, LenProperties, ElementOfSeq

(* A place after all places of a set adds one to their number. *)
LEMMA OneMore ==
  ASSUME NEW n \in Nat, NEW S \in SUBSET (1..n)
  PROVE  /\ IsFiniteSet(S) /\ Cardinality(S) \in Nat
         /\ Cardinality(S \union {n + 1}) = Cardinality(S) + 1
         /\ S = {} <=> Cardinality(S) = 0
         /\ IsLast(n + 1, S \union {n + 1})
<1>1. IsFiniteSet(1..n)
  BY FS_Interval
<1>2. IsFiniteSet(S)
  BY <1>1, FS_Subset
<1>3. n + 1 \notin S /\ \A j \in S \union {n + 1} : j <= n + 1
  OBVIOUS
<1> QED
  BY <1>2, <1>3, FS_CardinalityType, FS_AddElement, FS_EmptySet DEF IsLast

(* A frame is one of the frames that the parser makes. *)
LEMMA FrameFields ==
  ASSUME NEW f \in Frames
  PROVE  /\ f.subtype \in Subtypes /\ f.reason \in Codes \union {None}
         /\ f.bssid \in Addresses \union {None} /\ f.ssid \in Ssids \union {None}
         /\ f.channel \in Nat /\ f.rssi \in Int \union {None} /\ f.eapol \in 0..4
<1>1. f \in Frame
  BY FrameAssumption
<1> QED
  BY <1>1 DEF Frame

(* A value that a field does not have is no address, no SSID and no number. *)
LEMMA NoneIsNone == None \notin Stations /\ None # Empty /\ None \notin Int /\ None \notin Codes
  BY FrameAssumption DEF Addresses, Ssids

-----------------------------------------------------------------------------
(* The places that bear on an address, after one more frame. *)

(* A frame adds its place to those that it bears on, and to no other. *)
LEMMA PlacesGrow ==
  ASSUME NEW s \in Seq(Frames), NEW f \in Frames, NEW b
  PROVE  LET t == Append(s, f)
             n == Len(s) + 1
             With(S, test) == IF f.bssid = b /\ test THEN S \union {n} ELSE S
         IN  /\ About(b, t) = With(About(b, s), TRUE)
             /\ Telling(b, t) = With(Telling(b, s), f.ssid # None)
             /\ Naming(b, t) = With(Naming(b, s), f.ssid # None /\ f.ssid # Empty)
             /\ Tuned(b, t) = With(Tuned(b, s), f.channel # 0)
             /\ Heard(b, t) = With(Heard(b, s), f.rssi # None)
<1> DEFINE t == Append(s, f)
           n == Len(s) + 1
<1>1. /\ Len(s) \in Nat /\ DOMAIN s = 1..Len(s) /\ DOMAIN t = 1..n
      /\ \A k \in 1..Len(s) : t[k] = s[k]
      /\ t[n] = f
  BY Grows
<1>2. 1..n = 1..Len(s) \union {n}
  BY <1>1
<1> HIDE DEF t, n
<1>3. About(b, t) = IF f.bssid = b THEN About(b, s) \union {n} ELSE About(b, s)
  BY <1>1, <1>2 DEF About
<1>4. /\ About(b, s) \subseteq 1..Len(s) /\ n \notin 1..Len(s)
      /\ \A k \in About(b, s) : t[k] = s[k]
  BY <1>1 DEF About, n
<1>5. Telling(b, t) = IF f.bssid = b /\ f.ssid # None THEN Telling(b, s) \union {n} ELSE Telling(b, s)
  BY <1>1, <1>3, <1>4 DEF Telling
<1>6. Tuned(b, t) = IF f.bssid = b /\ f.channel # 0 THEN Tuned(b, s) \union {n} ELSE Tuned(b, s)
  BY <1>1, <1>3, <1>4 DEF Tuned
<1>7. Heard(b, t) = IF f.bssid = b /\ f.rssi # None THEN Heard(b, s) \union {n} ELSE Heard(b, s)
  BY <1>1, <1>3, <1>4 DEF Heard
<1>8. Naming(b, t) = IF f.bssid = b /\ f.ssid # None /\ f.ssid # Empty
                     THEN Naming(b, s) \union {n} ELSE Naming(b, s)
  <2>1. Telling(b, s) \subseteq About(b, s)
    BY DEF Telling
  <2> QED
    BY <1>1, <1>4, <1>5, <2>1 DEF Naming
<1> QED
  BY <1>3, <1>5, <1>6, <1>7, <1>8 DEF t, n

(* All these are places of the capture. *)
LEMMA PlacesIn ==
  ASSUME NEW s \in Seq(Frames), NEW b
  PROVE  /\ About(b, s) \subseteq 1..Len(s) /\ Telling(b, s) \subseteq About(b, s)
         /\ Naming(b, s) \subseteq Telling(b, s) /\ Tuned(b, s) \subseteq About(b, s)
         /\ Heard(b, s) \subseteq About(b, s)
<1>1. DOMAIN s = 1..Len(s)
  BY LenProperties
<1> QED
  BY <1>1 DEF About, Telling, Naming, Tuned, Heard

-----------------------------------------------------------------------------
(* One entry of the BSSID table. *)

(* The SSID that is kept is the last one that names, or else an empty one. *)
LEMMA SsidStays ==
  ASSUME NEW s \in Seq(Frames), NEW f \in Frames, NEW e \in BssidStats,
         f.bssid = e.bssid, LastSsid(e.ssid, e.bssid, s)
  PROVE  LastSsid(KeptSsid(e, f), e.bssid, Append(s, f))
<1> DEFINE b == e.bssid
           t == Append(s, f)
           n == Len(s) + 1
<1>1. /\ Len(s) \in Nat /\ (\A k \in 1..Len(s) : t[k] = s[k]) /\ t[n] = f
  BY Grows
<1>2. /\ Telling(b, t) = (IF f.ssid # None THEN Telling(b, s) \union {n} ELSE Telling(b, s))
      /\ Naming(b, t) = (IF f.ssid # None /\ f.ssid # Empty
                         THEN Naming(b, s) \union {n} ELSE Naming(b, s))
  BY PlacesGrow, ZenonT(30)
<1>3. /\ Naming(b, s) \subseteq 1..Len(s) /\ Naming(b, s) \subseteq Telling(b, s)
  BY PlacesIn
<1>4. \A k \in Naming(b, s) : s[k].ssid # None
  BY DEF Naming, Telling
<1> HIDE DEF b, t, n
<1>5. None # Empty
  BY NoneIsNone
<1>6. \/ \E k \in Naming(b, s) : IsLast(k, Naming(b, s)) /\ e.ssid = s[k].ssid
      \/ Naming(b, s) = {} /\ Telling(b, s) # {} /\ e.ssid = Empty
      \/ Telling(b, s) = {} /\ e.ssid = None
  BY DEF LastSsid, b
<1>7. CASE f.ssid # None /\ f.ssid # Empty
  <2>1. KeptSsid(e, f) = f.ssid
    BY <1>7 DEF KeptSsid
  <2>2. IsLast(n, Naming(b, s) \union {n})
    BY <1>1, <1>3, OneMore DEF n
  <2>3. n \in Naming(b, t) /\ IsLast(n, Naming(b, t)) /\ KeptSsid(e, f) = t[n].ssid
    BY <1>1, <1>2, <1>7, <2>1, <2>2
  <2> QED
    BY <2>3 DEF LastSsid, b, t
<1>8. CASE f.ssid = None
  <2>1. /\ KeptSsid(e, f) = e.ssid
        /\ Naming(b, t) = Naming(b, s) /\ Telling(b, t) = Telling(b, s)
    BY <1>2, <1>8 DEF KeptSsid
  <2>2. \A k \in Naming(b, s) : t[k] = s[k]
    BY <1>1, <1>3
  <2> QED
    BY <1>6, <2>1, <2>2 DEF LastSsid, b, t
<1>9. CASE f.ssid = Empty
  <2>1. /\ KeptSsid(e, f) = IF e.ssid = None THEN Empty ELSE e.ssid
        /\ Naming(b, t) = Naming(b, s) /\ Telling(b, t) = Telling(b, s) \union {n}
    BY <1>2, <1>5, <1>9 DEF KeptSsid
  <2>2. \A k \in Naming(b, s) : t[k] = s[k]
    BY <1>1, <1>3
  <2>3. CASE \E k \in Naming(b, s) : IsLast(k, Naming(b, s)) /\ e.ssid = s[k].ssid
    BY <1>4, <2>1, <2>2, <2>3 DEF LastSsid, b, t
  <2>4. CASE Naming(b, s) = {} /\ Telling(b, s) # {} /\ e.ssid = Empty
    BY <1>5, <2>1, <2>4 DEF LastSsid, b, t
  <2>5. CASE Telling(b, s) = {} /\ e.ssid = None
    BY <1>3, <2>1, <2>5 DEF LastSsid, b, t
  <2> QED
    BY <1>6, <2>3, <2>4, <2>5
<1> QED
  BY <1>7, <1>8, <1>9 DEF b, t

(* An update of the fields about the name and the channel. *)
LEMMA NameUpdate ==
  ASSUME NEW A, NEW B, NEW C, NEW D, NEW E, NEW F, NEW G, NEW H,
         NEW e \in [bssid : A, frames : B, ssid : C, channel : D, count : E, sum : F, lo : G, hi : H],
         NEW x \in B, NEW y \in C, NEW z \in D
  PROVE  LET u == [e EXCEPT !.frames = x, !.ssid = y, !.channel = z] IN
         /\ u \in [bssid : A, frames : B, ssid : C, channel : D, count : E, sum : F, lo : G, hi : H]
         /\ u.bssid = e.bssid /\ u.frames = x /\ u.ssid = y /\ u.channel = z
         /\ u.count = e.count /\ u.sum = e.sum /\ u.lo = e.lo /\ u.hi = e.hi
  OBVIOUS

(* An update of the fields about the signal. *)
LEMMA SignalUpdate ==
  ASSUME NEW A, NEW B, NEW C, NEW D, NEW E, NEW F, NEW G, NEW H,
         NEW e \in [bssid : A, frames : B, ssid : C, channel : D, count : E, sum : F, lo : G, hi : H],
         NEW w \in E, NEW x \in F, NEW y \in G, NEW z \in H
  PROVE  LET u == [e EXCEPT !.count = w, !.sum = x, !.lo = y, !.hi = z] IN
         /\ u \in [bssid : A, frames : B, ssid : C, channel : D, count : E, sum : F, lo : G, hi : H]
         /\ u.bssid = e.bssid /\ u.frames = e.frames /\ u.ssid = e.ssid /\ u.channel = e.channel
         /\ u.count = w /\ u.sum = x /\ u.lo = y /\ u.hi = z
  OBVIOUS

(* The types of the fields of an entry. *)
LEMMA EntryTypes ==
  ASSUME NEW e \in BssidStats
  PROVE  /\ e.bssid \in Stations /\ e.frames \in Nat /\ e.ssid \in Ssids \union {None}
         /\ e.channel \in Nat /\ e.count \in Nat /\ e.sum \in Int
         /\ e.lo \in Int \union {None} /\ e.hi \in Int \union {None}
  BY DEF BssidStats

(* The fields of an entry after a frame. *)
LEMMA EntryFields ==
  ASSUME NEW e \in BssidStats, NEW f \in Frames
  PROVE  LET u == UpdatedBssid(e, f) IN
         /\ u \in BssidStats
         /\ u.bssid = e.bssid /\ u.frames = e.frames + 1
         /\ u.ssid = KeptSsid(e, f)
         /\ u.channel = IF f.channel # 0 THEN f.channel ELSE e.channel
         /\ f.rssi = None => u.count = e.count /\ u.lo = e.lo /\ u.hi = e.hi
         /\ f.rssi # None =>
              /\ u.count = e.count + 1
              /\ u.lo = IF e.count = 0 \/ f.rssi < e.lo THEN f.rssi ELSE e.lo
              /\ u.hi = IF e.count = 0 \/ f.rssi > e.hi THEN f.rssi ELSE e.hi
<1> DEFINE x == e.frames + 1
           y == KeptSsid(e, f)
           z == IF f.channel # 0 THEN f.channel ELSE e.channel
           v == [e EXCEPT !.frames = x, !.ssid = y, !.channel = z]
<1>1. /\ f.ssid \in Ssids \union {None} /\ f.channel \in Nat /\ f.rssi \in Int \union {None}
  BY FrameFields
<1>2. x \in Nat /\ y \in Ssids \union {None} /\ z \in Nat
  BY <1>1, EntryTypes DEF KeptSsid
<1>3. UpdatedBssid(e, f) = AddSignal(v, f)
  BY DEF UpdatedBssid
<1> HIDE DEF x, y, z
<1>4. /\ v \in BssidStats
      /\ v.bssid = e.bssid /\ v.frames = x /\ v.ssid = y /\ v.channel = z
      /\ v.count = e.count /\ v.sum = e.sum /\ v.lo = e.lo /\ v.hi = e.hi
  BY <1>2, NameUpdate DEF BssidStats
<1> HIDE DEF v
<1>5. CASE f.rssi = None
  <2>1. UpdatedBssid(e, f) = v
    BY <1>3, <1>5 DEF AddSignal
  <2> QED
    BY <1>4, <1>5, <2>1 DEF x, y, z
<1>6. CASE f.rssi # None
  <2> DEFINE count == v.count + 1
             sum == v.sum + f.rssi
             lo == IF v.count = 0 \/ f.rssi < v.lo THEN f.rssi ELSE v.lo
             hi == IF v.count = 0 \/ f.rssi > v.hi THEN f.rssi ELSE v.hi
             u == [v EXCEPT !.count = count, !.sum = sum, !.lo = lo, !.hi = hi]
  <2>1. f.rssi \in Int
    BY <1>1, <1>6
  <2>2. UpdatedBssid(e, f) = u
    BY <1>3, <1>6 DEF AddSignal
  <2>3. count \in Nat /\ sum \in Int
    BY <1>4, <2>1, EntryTypes
  <2>4. lo \in Int \union {None} /\ hi \in Int \union {None}
    BY <1>1, <1>4, EntryTypes, Zenon
  <2>5. /\ lo = IF e.count = 0 \/ f.rssi < e.lo THEN f.rssi ELSE e.lo
        /\ hi = IF e.count = 0 \/ f.rssi > e.hi THEN f.rssi ELSE e.hi
        /\ count = e.count + 1
    BY <1>4
  <2> HIDE DEF count, sum, lo, hi
  <2>6. /\ u \in BssidStats
        /\ u.bssid = v.bssid /\ u.frames = v.frames /\ u.ssid = v.ssid /\ u.channel = v.channel
        /\ u.count = count /\ u.lo = lo /\ u.hi = hi
    BY <1>4, <2>3, <2>4, SignalUpdate DEF BssidStats
  <2> HIDE DEF u
  <2> QED
    BY <1>4, <1>6, <2>2, <2>5, <2>6 DEF x, y, z
<1> QED
  BY <1>1, <1>5, <1>6

(* The channel that is kept is the last one that was known. *)
LEMMA ChannelStays ==
  ASSUME NEW s \in Seq(Frames), NEW f \in Frames, NEW b, NEW v,
         f.bssid = b, LastChannel(v, b, s)
  PROVE  LastChannel(IF f.channel # 0 THEN f.channel ELSE v, b, Append(s, f))
<1> DEFINE t == Append(s, f)
           n == Len(s) + 1
<1>1. /\ Len(s) \in Nat /\ (\A k \in 1..Len(s) : t[k] = s[k]) /\ t[n] = f
  BY Grows
<1>2. Tuned(b, t) = (IF f.channel # 0 THEN Tuned(b, s) \union {n} ELSE Tuned(b, s))
  BY PlacesGrow
<1>3. Tuned(b, s) \subseteq 1..Len(s)
  BY PlacesIn
<1> HIDE DEF t, n
<1>4. CASE f.channel # 0
  <2>1. IsLast(n, Tuned(b, s) \union {n})
    BY <1>1, <1>3, OneMore DEF n
  <2> QED
    BY <1>1, <1>2, <1>4, <2>1 DEF LastChannel, t
<1>5. CASE f.channel = 0
  <2>1. Tuned(b, t) = Tuned(b, s) /\ \A k \in Tuned(b, s) : t[k] = s[k]
    BY <1>1, <1>2, <1>3, <1>5
  <2> QED
    BY <1>5, <2>1 DEF LastChannel, t
<1> QED
  BY <1>4, <1>5 DEF t

(* The minimum and the maximum of the signal are kept.  The first signal   *)
(* sets both, whatever they were.                                          *)
LEMMA SignalStays ==
  ASSUME NEW s \in Seq(Frames), NEW f \in Frames, NEW b, NEW count, NEW lo, NEW hi,
         f.bssid = b, f.rssi # None, count = Cardinality(Heard(b, s)),
         Weakest(lo, b, s), Strongest(hi, b, s)
  PROVE  /\ Weakest(IF count = 0 \/ f.rssi < lo THEN f.rssi ELSE lo, b, Append(s, f))
         /\ Strongest(IF count = 0 \/ f.rssi > hi THEN f.rssi ELSE hi, b, Append(s, f))
<1> DEFINE t == Append(s, f)
           n == Len(s) + 1
           lo2 == IF count = 0 \/ f.rssi < lo THEN f.rssi ELSE lo
           hi2 == IF count = 0 \/ f.rssi > hi THEN f.rssi ELSE hi
<1>1. /\ Len(s) \in Nat /\ (\A k \in 1..Len(s) : t[k] = s[k] /\ s[k] \in Frames) /\ t[n] = f
  BY Grows
<1>2. Heard(b, t) = Heard(b, s) \union {n}
  BY PlacesGrow
<1>3. Heard(b, s) \subseteq 1..Len(s)
  BY PlacesIn
<1> HIDE DEF t, n
<1>4. f.rssi \in Int /\ \A k \in Heard(b, s) : s[k].rssi \in Int /\ t[k] = s[k]
  <2>1. f.rssi \in Int
    BY FrameFields
  <2>2. ASSUME NEW k \in Heard(b, s) PROVE s[k].rssi \in Int /\ t[k] = s[k]
    <3>1. s[k] \in Frames /\ s[k].rssi # None /\ t[k] = s[k]
      BY <1>1, <1>3 DEF Heard
    <3> QED
      BY <3>1, FrameFields
  <2> QED
    BY <2>1, <2>2
<1>5. CASE Heard(b, s) = {}
  <2>1. count = 0
    BY <1>5, FS_EmptySet
  <2>2. lo2 = f.rssi /\ hi2 = f.rssi /\ Heard(b, t) = {n}
    BY <1>2, <1>5, <2>1
  <2> HIDE DEF lo2, hi2
  <2>3. Weakest(lo2, b, t) /\ Strongest(hi2, b, t)
    BY <1>1, <1>4, <2>2 DEF Weakest, Strongest
  <2> QED
    BY <2>3 DEF lo2, hi2, t
<1>6. CASE Heard(b, s) # {}
  <2>1. count # 0
    BY <1>1, <1>3, <1>6, OneMore
  <2>2. lo2 = (IF f.rssi < lo THEN f.rssi ELSE lo) /\ hi2 = (IF f.rssi > hi THEN f.rssi ELSE hi)
    BY <2>1
  <2> HIDE DEF lo2, hi2
  <2>3. PICK k \in Heard(b, s) : lo = s[k].rssi
    BY <1>6 DEF Weakest
  <2>4. PICK j \in Heard(b, s) : hi = s[j].rssi
    BY <1>6 DEF Strongest
  <2>5. /\ lo \in Int /\ (\A i \in Heard(b, s) : lo <= s[i].rssi) /\ t[k].rssi = lo
        /\ hi \in Int /\ (\A i \in Heard(b, s) : s[i].rssi <= hi) /\ t[j].rssi = hi
    BY <1>4, <1>6, <2>3, <2>4 DEF Weakest, Strongest
  <2>6. Weakest(lo2, b, t)
    <3>1. \A i \in Heard(b, t) : lo2 <= t[i].rssi
      BY <1>1, <1>2, <1>4, <2>2, <2>5
    <3>2. \E i \in Heard(b, t) : lo2 = t[i].rssi
      BY <1>1, <1>2, <2>2, <2>5
    <3> QED
      BY <3>1, <3>2 DEF Weakest
  <2>7. Strongest(hi2, b, t)
    <3>1. \A i \in Heard(b, t) : t[i].rssi <= hi2
      BY <1>1, <1>2, <1>4, <2>2, <2>5
    <3>2. \E i \in Heard(b, t) : hi2 = t[i].rssi
      BY <1>1, <1>2, <2>2, <2>5
    <3> QED
      BY <3>1, <3>2 DEF Strongest
  <2> QED
    BY <2>6, <2>7 DEF lo2, hi2, t
<1> QED
  BY <1>5, <1>6

(* A summary of an address stays true when no field of it is affected. *)
LEMMA PlacesStay ==
  ASSUME NEW s \in Seq(Frames), NEW t, NEW b,
         \A k \in 1..Len(s) : t[k] = s[k]
  PROVE  /\ Naming(b, t) = Naming(b, s) /\ Telling(b, t) = Telling(b, s)
              => \A v : LastSsid(v, b, s) => LastSsid(v, b, t)
         /\ Tuned(b, t) = Tuned(b, s) => \A v : LastChannel(v, b, s) => LastChannel(v, b, t)
         /\ Heard(b, t) = Heard(b, s) =>
              \A v : /\ Weakest(v, b, s) => Weakest(v, b, t)
                     /\ Strongest(v, b, s) => Strongest(v, b, t)
<1>1. /\ \A k \in Naming(b, s) : t[k] = s[k]
      /\ \A k \in Tuned(b, s) : t[k] = s[k]
      /\ \A k \in Heard(b, s) : t[k] = s[k]
  BY PlacesIn
<1>2. ASSUME Naming(b, t) = Naming(b, s), Telling(b, t) = Telling(b, s),
             NEW v, LastSsid(v, b, s)
      PROVE  LastSsid(v, b, t)
  BY <1>1, <1>2 DEF LastSsid
<1>3. ASSUME Tuned(b, t) = Tuned(b, s), NEW v, LastChannel(v, b, s) PROVE LastChannel(v, b, t)
  BY <1>1, <1>3 DEF LastChannel
<1>4. ASSUME Heard(b, t) = Heard(b, s), NEW v, Weakest(v, b, s) PROVE Weakest(v, b, t)
  BY <1>1, <1>4 DEF Weakest
<1>5. ASSUME Heard(b, t) = Heard(b, s), NEW v, Strongest(v, b, s) PROVE Strongest(v, b, t)
  BY <1>1, <1>5 DEF Strongest
<1> QED
  BY <1>2, <1>3, <1>4, <1>5

(* An entry goes on to summarise the capture: when it is updated with a    *)
(* frame about its address, and when it is left alone for any other.       *)
LEMMA SummaryStays ==
  ASSUME NEW s \in Seq(Frames), NEW f \in Frames, NEW e \in BssidStats, Summarises(e, s)
  PROVE  /\ f.bssid # e.bssid => Summarises(e, Append(s, f))
         /\ f.bssid = e.bssid => Summarises(UpdatedBssid(e, f), Append(s, f))
<1> DEFINE b == e.bssid
           t == Append(s, f)
           n == Len(s) + 1
           u == UpdatedBssid(e, f)
<1>1. /\ Len(s) \in Nat /\ \A k \in 1..Len(s) : t[k] = s[k]
  BY Grows
<1>2. /\ e.frames = Cardinality(About(b, s)) /\ LastSsid(e.ssid, b, s)
      /\ LastChannel(e.channel, b, s) /\ e.count = Cardinality(Heard(b, s))
      /\ Weakest(e.lo, b, s) /\ Strongest(e.hi, b, s)
  BY DEF Summarises
<1>3. /\ About(b, s) \subseteq 1..Len(s) /\ Heard(b, s) \subseteq 1..Len(s)
  BY PlacesIn
<1>4. ASSUME f.bssid # b PROVE Summarises(e, t)
  <2>1. /\ About(b, t) = About(b, s) /\ Telling(b, t) = Telling(b, s) /\ Naming(b, t) = Naming(b, s)
        /\ Tuned(b, t) = Tuned(b, s) /\ Heard(b, t) = Heard(b, s)
    BY <1>4, PlacesGrow
  <2> HIDE DEF t, b
  <2>2. /\ LastSsid(e.ssid, b, t) /\ LastChannel(e.channel, b, t)
        /\ Weakest(e.lo, b, t) /\ Strongest(e.hi, b, t)
    BY <1>1, <1>2, <2>1, PlacesStay
  <2> QED
    BY <1>2, <2>1, <2>2 DEF Summarises, b
<1>5. ASSUME f.bssid = b PROVE Summarises(u, t)
  <2>1. About(b, t) = About(b, s) \union {n}
    BY <1>5, PlacesGrow
  <2>2. Heard(b, t) = IF f.rssi # None THEN Heard(b, s) \union {n} ELSE Heard(b, s)
    BY <1>5, PlacesGrow
  <2>3. /\ Cardinality(About(b, s) \union {n}) = Cardinality(About(b, s)) + 1
        /\ Cardinality(Heard(b, s) \union {n}) = Cardinality(Heard(b, s)) + 1
    BY <1>1, <1>3, OneMore
  <2>4. /\ u.bssid = b /\ u.frames = e.frames + 1 /\ u.ssid = KeptSsid(e, f)
        /\ u.channel = (IF f.channel # 0 THEN f.channel ELSE e.channel)
        /\ f.rssi = None => u.count = e.count /\ u.lo = e.lo /\ u.hi = e.hi
        /\ f.rssi # None =>
             /\ u.count = e.count + 1
             /\ u.lo = IF e.count = 0 \/ f.rssi < e.lo THEN f.rssi ELSE e.lo
             /\ u.hi = IF e.count = 0 \/ f.rssi > e.hi THEN f.rssi ELSE e.hi
    BY EntryFields
  <2>5. LastSsid(u.ssid, b, t)
    BY <1>2, <1>5, <2>4, SsidStays
  <2>6. LastChannel(u.channel, b, t)
    BY <1>2, <1>5, <2>4, ChannelStays
  <2>7. u.frames = Cardinality(About(b, t))
    BY <1>2, <2>1, <2>4, <2>3
  <2>8. u.count = Cardinality(Heard(b, t))
    BY <1>2, <2>4, <2>2, <2>3
  <2>9. Weakest(u.lo, b, t) /\ Strongest(u.hi, b, t)
    <3>1. CASE f.rssi = None
      <4>1. Heard(b, t) = Heard(b, s) /\ u.lo = e.lo /\ u.hi = e.hi
        BY <2>4, <2>2, <3>1
      <4> HIDE DEF t, b, u
      <4> QED
        BY <1>1, <1>2, <4>1, PlacesStay
    <3>2. CASE f.rssi # None
      <4>1. /\ Weakest(IF e.count = 0 \/ f.rssi < e.lo THEN f.rssi ELSE e.lo, b, t)
            /\ Strongest(IF e.count = 0 \/ f.rssi > e.hi THEN f.rssi ELSE e.hi, b, t)
        BY <1>2, <1>5, <3>2, SignalStays
      <4> QED
        BY <2>4, <3>2, <4>1
    <3> QED
      BY <3>1, <3>2
  <2> HIDE DEF t, b, u
  <2> QED
    BY <2>4, <2>5, <2>6, <2>7, <2>8, <2>9 DEF Summarises
<1> QED
  BY <1>4, <1>5

(* An entry that has just been made summarises a capture in which nothing  *)
(* is about its address.                                                   *)
LEMMA NewSummary ==
  ASSUME NEW s \in Seq(Frames), NEW b \in Stations, About(b, s) = {}
  PROVE  NewBssid(b) \in BssidStats /\ NewBssid(b).bssid = b /\ Summarises(NewBssid(b), s)
<1>1. Telling(b, s) = {} /\ Naming(b, s) = {} /\ Tuned(b, s) = {} /\ Heard(b, s) = {}
  BY PlacesIn
<1>2. Cardinality({}) = 0
  BY FS_EmptySet
<1>3. /\ NewBssid(b).bssid = b /\ NewBssid(b).frames = 0 /\ NewBssid(b).ssid = None
      /\ NewBssid(b).channel = 0 /\ NewBssid(b).count = 0
      /\ NewBssid(b) \in BssidStats
  BY DEF NewBssid, BssidStats
<1>4. Summarises(NewBssid(b), s)
  BY <1>1, <1>2, <1>3 DEF Summarises, LastSsid, LastChannel, Weakest, Strongest
<1> QED
  BY <1>3, <1>4

-----------------------------------------------------------------------------
(* The BSSID table.  Beyond what BssidsMatchCapture says, every listed     *)
(* address is told of by some frame, and while nothing has been left out   *)
(* every address is listed: this makes a new entry begin from nothing.     *)

ListedIn(table) == {table[i].bssid : i \in 1..Len(table)}

BssidTable(table, overflow, s) ==
  /\ \A i, j \in 1..Len(table) : table[i].bssid = table[j].bssid => i = j
  /\ \A i \in 1..Len(table) : Summarises(table[i], s)
  /\ \A i \in 1..Len(table) : About(table[i].bssid, s) # {}
  /\ \A i, j \in 1..Len(table) : i < j => AppearsBefore(table[i].bssid, table[j].bssid, s)
  /\ IsFiniteSet(BssidsIn(s))
  /\ IsFiniteSet(ListedIn(table)) /\ Cardinality(ListedIn(table)) = Len(table)
  /\ ~ overflow => BssidsIn(s) \subseteq ListedIn(table)
  /\ overflow => Len(table) = MaxBssids /\ Cardinality(BssidsIn(s)) > MaxBssids

(* The search through the table ends at the one entry of the address, if   *)
(* there is one.                                                           *)
LEMMA BssidFound ==
  ASSUME bssids \in Seq(BssidStats), NEW b,
         \A i, j \in 1..Len(bssids) : bssids[i].bssid = bssids[j].bssid => i = j
  PROVE  \/ BssidPlace(b) = 0 /\ \A j \in 1..Len(bssids) : bssids[j].bssid # b
         \/ BssidPlace(b) \in 1..Len(bssids) /\ bssids[BssidPlace(b)].bssid = b
<1> DEFINE I == {i \in 1..Len(bssids) : bssids[i].bssid = b}
<1>1. Len(bssids) \in Nat
  BY LenProperties
<1>2. BssidPlace(b) = IF I # {} THEN Min(I) ELSE 0
  BY DEF BssidPlace, SelectInSeq
<1>3. CASE I = {}
  BY <1>2, <1>3
<1>4. ASSUME NEW k \in I PROVE BssidPlace(b) = k
  <2>1. I = {k}
    OBVIOUS
  <2>2. Min({k}) = k
    BY <1>1 DEF Min
  <2> QED
    BY <1>2, <2>1, <2>2
<1> QED
  BY <1>3, <1>4

(* A frame adds its BSSID to those of the capture. *)
LEMMA BssidsGrow ==
  ASSUME NEW s \in Seq(Frames), NEW f \in Frames
  PROVE  BssidsIn(Append(s, f)) =
           IF f.bssid \in Stations THEN BssidsIn(s) \union {f.bssid} ELSE BssidsIn(s)
<1> DEFINE t == Append(s, f)
           n == Len(s) + 1
<1>1. /\ Len(s) \in Nat /\ DOMAIN s = 1..Len(s) /\ DOMAIN t = 1..n
      /\ \A k \in 1..Len(s) : t[k] = s[k]
      /\ t[n] = f
  BY Grows
<1>2. 1..n = 1..Len(s) \union {n}
  BY <1>1
<1> HIDE DEF t, n
<1>3. {t[k].bssid : k \in DOMAIN t} = {s[k].bssid : k \in DOMAIN s} \union {f.bssid}
  BY <1>1, <1>2
<1> QED
  BY <1>3 DEF BssidsIn, t

(* Which address came first is settled once and for all. *)
LEMMA OrderStays ==
  ASSUME NEW s \in Seq(Frames), NEW f \in Frames, NEW b, NEW c
  PROVE  /\ AppearsBefore(b, c, s) => AppearsBefore(b, c, Append(s, f))
         /\ About(b, s) # {} => About(b, Append(s, f)) # {}
         /\ About(b, s) # {} /\ About(c, s) = {} => AppearsBefore(b, c, Append(s, f))
<1> DEFINE t == Append(s, f)
           n == Len(s) + 1
<1>1. Len(s) \in Nat
  BY LenProperties
<1>2. /\ About(b, t) = (IF f.bssid = b THEN About(b, s) \union {n} ELSE About(b, s))
      /\ About(c, t) = (IF f.bssid = c THEN About(c, s) \union {n} ELSE About(c, s))
  <2>1. \A d : About(d, t) = IF f.bssid = d THEN About(d, s) \union {n} ELSE About(d, s)
    BY PlacesGrow
  <2> QED
    BY <2>1
<1>3. \A k \in About(b, s) : k < n
  BY <1>1, PlacesIn
<1> HIDE DEF t, n
<1>4. ASSUME AppearsBefore(b, c, s) PROVE AppearsBefore(b, c, t)
  <2>1. PICK k \in About(b, s) : \A l \in About(c, s) : k < l
    BY <1>4 DEF AppearsBefore
  <2>2. k \in About(b, t) /\ \A l \in About(c, t) : k < l
    BY <1>2, <1>3, <2>1
  <2> QED
    BY <2>2 DEF AppearsBefore
<1>5. ASSUME About(b, s) # {}, About(c, s) = {} PROVE AppearsBefore(b, c, t)
  <2>1. PICK k \in About(b, s) : TRUE
    BY <1>5
  <2>2. k \in About(b, t) /\ \A l \in About(c, t) : k < l
    BY <1>2, <1>3, <1>5, <2>1
  <2> QED
    BY <2>2 DEF AppearsBefore
<1> QED
  BY <1>2, <1>4, <1>5 DEF t

(* The frames about an address that the table does not list, as long as    *)
(* nothing has been left out of it: none.                                  *)
LEMMA UnlistedIsNew ==
  ASSUME NEW table, NEW s \in Seq(Frames), NEW b \in Stations,
         BssidsIn(s) \subseteq ListedIn(table),
         \A j \in 1..Len(table) : table[j].bssid # b
  PROVE  About(b, s) = {} /\ b \notin BssidsIn(s)
<1>1. b \notin BssidsIn(s)
  BY DEF ListedIn
<1> QED
  BY <1>1 DEF BssidsIn, About

(* What the table says stays true when a frame that it need not list comes.*)
LEMMA OtherFrame ==
  ASSUME NEW s \in Seq(Frames), NEW f \in Frames, NEW table \in Seq(BssidStats), NEW overflow,
         BssidTable(table, overflow, s), f.bssid \notin Stations
  PROVE  BssidTable(table, overflow, Append(s, f))
<1> DEFINE t == Append(s, f)
<1>1. BssidsIn(t) = BssidsIn(s)
  BY BssidsGrow
<1>2. ASSUME NEW i \in 1..Len(table) PROVE Summarises(table[i], t)
  <2>1. table[i] \in BssidStats /\ Summarises(table[i], s)
    BY ElementOfSeq DEF BssidTable
  <2>2. f.bssid # table[i].bssid
    BY <2>1, EntryTypes
  <2> QED
    BY <2>1, <2>2, SummaryStays
<1>3. \A i \in 1..Len(table) : About(table[i].bssid, t) # {}
  BY OrderStays DEF BssidTable
<1>4. \A i, j \in 1..Len(table) : i < j => AppearsBefore(table[i].bssid, table[j].bssid, t)
  BY OrderStays DEF BssidTable
<1> HIDE DEF t
<1>5. BssidTable(table, overflow, t)
  BY <1>1, <1>2, <1>3, <1>4 DEF BssidTable
<1> QED
  BY <1>5 DEF t

(* A frame about a listed address: its entry is updated. *)
LEMMA ListedFrame ==
  ASSUME NEW s \in Seq(Frames), NEW f \in Frames, NEW table \in Seq(BssidStats), NEW overflow,
         BssidTable(table, overflow, s), NEW i \in 1..Len(table), table[i].bssid = f.bssid,
         NEW new \in Seq(BssidStats), Len(new) = Len(table), new[i] = UpdatedBssid(table[i], f),
         \A j \in 1..Len(table) : j # i => new[j] = table[j]
  PROVE  BssidTable(new, overflow, Append(s, f))
<1> DEFINE t == Append(s, f)
           u == UpdatedBssid(table[i], f)
<1>1. Len(table) \in Nat /\ DOMAIN table = 1..Len(table) /\ table[i] \in BssidStats
      /\ \A j \in 1..Len(table) : table[j] \in BssidStats
  BY LenProperties, ElementOfSeq
<1>2. u \in BssidStats /\ u.bssid = table[i].bssid
  BY <1>1, EntryFields
<1>3. /\ Len(new) = Len(table)
      /\ new[i] = u /\ \A j \in 1..Len(table) : j # i => new[j] = table[j]
  OBVIOUS
<1> HIDE DEF u
<1>4. \A j \in 1..Len(table) : new[j].bssid = table[j].bssid
  BY <1>2, <1>3
<1>5. f.bssid \in Stations
  BY <1>1, EntryTypes
<1>6. ListedIn(new) = ListedIn(table)
  BY <1>3, <1>4 DEF ListedIn
<1>7. BssidsIn(t) = BssidsIn(s) \union {f.bssid}
  BY <1>5, BssidsGrow
<1>8. BssidsIn(t) = BssidsIn(s)
  <2>1. About(f.bssid, s) # {}
    BY DEF BssidTable
  <2>2. f.bssid \in BssidsIn(s)
    BY <1>5, <2>1 DEF BssidsIn, About
  <2> QED
    BY <1>7, <2>2
<1>9. ASSUME NEW j \in 1..Len(table) PROVE Summarises(new[j], t)
  <2>1. table[j] \in BssidStats /\ Summarises(table[j], s)
    BY <1>1 DEF BssidTable
  <2>2. CASE j = i
    <3>1. Summarises(u, t)
      BY <2>1, <2>2, SummaryStays DEF u
    <3> QED
      BY <1>3, <2>2, <3>1
  <2>3. CASE j # i
    <3>1. f.bssid # table[j].bssid
      BY <2>3 DEF BssidTable
    <3>2. Summarises(table[j], t)
      BY <2>1, <3>1, SummaryStays
    <3> QED
      BY <1>3, <2>3, <3>2
  <2> QED
    BY <2>2, <2>3
<1>10. \A j \in 1..Len(table) : About(table[j].bssid, t) # {}
  BY OrderStays DEF BssidTable
<1>11. \A j, k \in 1..Len(table) : j < k => AppearsBefore(table[j].bssid, table[k].bssid, t)
  BY OrderStays DEF BssidTable
<1> HIDE DEF t
<1>12. BssidTable(new, overflow, t)
  BY <1>3, <1>4, <1>6, <1>8, <1>9, <1>10, <1>11 DEF BssidTable
<1> QED
  BY <1>3, <1>12 DEF t

(* The first frame about an address, while the table has room.             *)
LEMMA FirstFrame ==
  ASSUME NEW s \in Seq(Frames), NEW f \in Frames, NEW table \in Seq(BssidStats),
         BssidTable(table, FALSE, s), f.bssid \in Stations,
         \A j \in 1..Len(table) : table[j].bssid # f.bssid
  PROVE  LET new == Append(table, UpdatedBssid(NewBssid(f.bssid), f)) IN
         /\ new \in Seq(BssidStats) /\ Len(new) = Len(table) + 1
         /\ BssidTable(new, FALSE, Append(s, f))
<1> DEFINE t == Append(s, f)
           b == f.bssid
           u == UpdatedBssid(NewBssid(f.bssid), f)
           new == Append(table, u)
           n == Len(table)
<1>1. About(b, s) = {} /\ b \notin BssidsIn(s)
  BY UnlistedIsNew DEF BssidTable
<1>2. /\ NewBssid(b) \in BssidStats /\ NewBssid(b).bssid = b /\ Summarises(NewBssid(b), s)
  BY <1>1, NewSummary
<1>3. u \in BssidStats /\ u.bssid = b /\ Summarises(u, t)
  BY <1>2, EntryFields, SummaryStays
<1> HIDE DEF u
<1>4. /\ n \in Nat /\ new \in Seq(BssidStats) /\ Len(new) = n + 1 /\ new[n + 1] = u
      /\ \A j \in 1..n : new[j] = table[j] /\ table[j] \in BssidStats
  BY <1>3, Grows
<1>5. 1..(n + 1) = 1..n \union {n + 1}
  BY <1>4
<1> HIDE DEF new
<1>6. ListedIn(new) = ListedIn(table) \union {b}
  <2>1. \A j \in 1..n : new[j].bssid = table[j].bssid
    BY <1>4
  <2>2. new[n + 1].bssid = b
    BY <1>3, <1>4
  <2>3. {new[i].bssid : i \in 1..n} = {table[i].bssid : i \in 1..n}
    BY <2>1
  <2>4. {new[i].bssid : i \in 1..(n + 1)} = {new[i].bssid : i \in 1..n} \union {new[n + 1].bssid}
    BY <1>5, Zenon
  <2>5. /\ ListedIn(new) = {new[i].bssid : i \in 1..(n + 1)}
        /\ ListedIn(table) = {table[i].bssid : i \in 1..n}
    BY <1>4 DEF ListedIn
  <2> QED
    BY <2>2, <2>3, <2>4, <2>5
<1>7. BssidsIn(t) = BssidsIn(s) \union {b}
  BY BssidsGrow
<1>8. b \notin ListedIn(table)
  BY DEF ListedIn
<1>9. /\ IsFiniteSet(ListedIn(new)) /\ Cardinality(ListedIn(new)) = Len(new)
      /\ IsFiniteSet(BssidsIn(t)) /\ BssidsIn(t) \subseteq ListedIn(new)
  <2>1. /\ IsFiniteSet(ListedIn(table)) /\ Cardinality(ListedIn(table)) = n
        /\ IsFiniteSet(BssidsIn(s)) /\ BssidsIn(s) \subseteq ListedIn(table)
    BY DEF BssidTable
  <2> HIDE DEF b, n
  <2>2. /\ IsFiniteSet(ListedIn(table) \union {b})
        /\ Cardinality(ListedIn(table) \union {b}) = Cardinality(ListedIn(table)) + 1
    BY <1>8, <2>1, FS_AddElement
  <2>3. IsFiniteSet(BssidsIn(s) \union {b})
    BY <2>1, FS_AddElement
  <2> QED
    BY <1>4, <1>6, <1>7, <2>1, <2>2, <2>3
<1>10. ASSUME NEW j \in 1..(n + 1) PROVE Summarises(new[j], t) /\ About(new[j].bssid, t) # {}
  <2>1. CASE j \in 1..n
    <3>1. /\ table[j] \in BssidStats /\ Summarises(table[j], s) /\ About(table[j].bssid, s) # {}
          /\ f.bssid # table[j].bssid
      BY <1>4, <2>1 DEF BssidTable
    <3>2. Summarises(table[j], t) /\ About(table[j].bssid, t) # {}
      BY <3>1, SummaryStays, OrderStays
    <3> QED
      BY <1>4, <2>1, <3>2
  <2>2. CASE j = n + 1
    <3>1. About(b, t) = About(b, s) \union {Len(s) + 1}
      BY PlacesGrow
    <3> QED
      BY <1>3, <1>4, <2>2, <3>1
  <2> QED
    BY <1>5, <2>1, <2>2
<1>11. ASSUME NEW i \in 1..(n + 1), NEW j \in 1..(n + 1), i < j
       PROVE  AppearsBefore(new[i].bssid, new[j].bssid, t)
  <2>1. i \in 1..n /\ new[i].bssid = table[i].bssid
    BY <1>4, <1>11
  <2>2. CASE j \in 1..n
    <3>1. AppearsBefore(table[i].bssid, table[j].bssid, s)
      BY <1>11, <2>1, <2>2 DEF BssidTable
    <3>2. AppearsBefore(table[i].bssid, table[j].bssid, t)
      BY <3>1, OrderStays
    <3> QED
      BY <1>4, <2>1, <2>2, <3>2
  <2>3. CASE j = n + 1
    <3>1. About(table[i].bssid, s) # {}
      BY <2>1 DEF BssidTable
    <3>2. AppearsBefore(table[i].bssid, b, t)
      BY <1>1, <3>1, OrderStays
    <3> QED
      BY <1>3, <1>4, <2>1, <2>3, <3>2
  <2> QED
    BY <1>5, <2>2, <2>3
<1>12. ASSUME NEW i \in 1..(n + 1), NEW j \in 1..(n + 1), new[i].bssid = new[j].bssid
       PROVE  i = j
  <2>1. CASE i \in 1..n /\ j \in 1..n
    BY <1>4, <1>12, <2>1 DEF BssidTable
  <2>2. CASE i = n + 1 \/ j = n + 1
    <3>1. \A k \in 1..n : new[k].bssid # b
      BY <1>4
    <3>2. new[n + 1].bssid = b
      BY <1>3, <1>4
    <3> HIDE DEF b
    <3> QED
      BY <1>5, <1>12, <2>2, <3>1, <3>2
  <2> QED
    BY <1>5, <2>1, <2>2
<1> HIDE DEF t, n
<1>13. BssidTable(new, FALSE, t)
  BY <1>4, <1>9, <1>10, <1>11, <1>12 DEF BssidTable
<1> QED
  BY <1>4, <1>13 DEF t, new, u, n

(* A frame about an address for which the full table has no room: every    *)
(* summary stays true, and the capture tells of more than the table holds. *)
LEMMA FrameTooMany ==
  ASSUME NEW s \in Seq(Frames), NEW f \in Frames, NEW table \in Seq(BssidStats),
         NEW overflow \in BOOLEAN, BssidTable(table, overflow, s), f.bssid \in Stations,
         \A j \in 1..Len(table) : table[j].bssid # f.bssid,
         Len(table) = MaxBssids
  PROVE  BssidTable(table, TRUE, Append(s, f))
<1> DEFINE t == Append(s, f)
           b == f.bssid
<1>1. Len(table) \in Nat /\ \A j \in 1..Len(table) : table[j] \in BssidStats
  BY LenProperties, ElementOfSeq
<1>2. ASSUME NEW j \in 1..Len(table) PROVE Summarises(table[j], t)
  <2>1. table[j] \in BssidStats /\ Summarises(table[j], s) /\ f.bssid # table[j].bssid
    BY <1>1 DEF BssidTable
  <2> QED
    BY <2>1, SummaryStays
<1>3. \A i \in 1..Len(table) : About(table[i].bssid, t) # {}
  BY OrderStays DEF BssidTable
<1>4. \A i, j \in 1..Len(table) : i < j => AppearsBefore(table[i].bssid, table[j].bssid, t)
  BY OrderStays DEF BssidTable
<1>5. BssidsIn(t) = BssidsIn(s) \union {b}
  BY BssidsGrow
<1>6. /\ IsFiniteSet(BssidsIn(s)) /\ IsFiniteSet(BssidsIn(t))
      /\ Cardinality(BssidsIn(s)) \in Nat /\ Cardinality(BssidsIn(t)) \in Nat
      /\ Cardinality(BssidsIn(t)) =
           IF b \in BssidsIn(s) THEN Cardinality(BssidsIn(s)) ELSE Cardinality(BssidsIn(s)) + 1
  <2>1. IsFiniteSet(BssidsIn(s))
    BY DEF BssidTable
  <2>2. /\ IsFiniteSet(BssidsIn(s) \union {b})
        /\ Cardinality(BssidsIn(s) \union {b}) =
             IF b \in BssidsIn(s) THEN Cardinality(BssidsIn(s)) ELSE Cardinality(BssidsIn(s)) + 1
    BY <2>1, FS_AddElement
  <2> HIDE DEF b
  <2>3. Cardinality(BssidsIn(s)) \in Nat
    BY <2>1, FS_CardinalityType
  <2> QED
    BY <1>5, <2>1, <2>2, <2>3
<1>7. Cardinality(BssidsIn(t)) > MaxBssids
  <2>1. CASE overflow
    <3>1. Cardinality(BssidsIn(s)) > MaxBssids
      BY <2>1 DEF BssidTable
    <3> QED
      BY <1>6, <3>1, CapacityAssumption
  <2>2. CASE ~ overflow
    <3>1. b \notin BssidsIn(s) /\ BssidsIn(s) \subseteq ListedIn(table)
      BY <2>2, UnlistedIsNew DEF BssidTable
    <3>2. ListedIn(table) \subseteq BssidsIn(s)
      <4>1. ASSUME NEW i \in 1..Len(table) PROVE table[i].bssid \in BssidsIn(s)
        <5>1. table[i].bssid \in Stations /\ About(table[i].bssid, s) # {}
          BY <1>1, EntryTypes DEF BssidTable
        <5> QED
          BY <5>1 DEF About, BssidsIn
      <4> QED
        BY <4>1 DEF ListedIn
    <3>3. BssidsIn(s) = ListedIn(table)
      BY <3>1, <3>2
    <3>4. Cardinality(BssidsIn(s)) = MaxBssids
      BY <3>3 DEF BssidTable
    <3> QED
      BY <1>6, <3>1, <3>4, CapacityAssumption
  <2> QED
    BY <2>1, <2>2
<1> HIDE DEF t
<1>8. BssidTable(table, TRUE, t)
  BY <1>2, <1>3, <1>4, <1>6, <1>7 DEF BssidTable
<1> QED
  BY <1>8 DEF t

(* add_bssid keeps the table true to the capture.                          *)
LEMMA BssidStep ==
  ASSUME seen \in Seq(Frames), bssids \in Seq(BssidStats), Len(bssids) <= MaxBssids,
         bssidOverflow \in BOOLEAN, NEW f \in Frames,
         BssidTable(bssids, bssidOverflow, seen), AddBssid(f)
  PROVE  /\ bssids' \in Seq(BssidStats) /\ Len(bssids') <= MaxBssids
         /\ bssidOverflow' \in BOOLEAN
         /\ BssidTable(bssids', bssidOverflow', Append(seen, f))
<1> DEFINE i == BssidPlace(f.bssid)
<1>1. \/ i = 0 /\ \A j \in 1..Len(bssids) : bssids[j].bssid # f.bssid
      \/ i \in 1..Len(bssids) /\ bssids[i].bssid = f.bssid
  BY BssidFound DEF BssidTable
<1>2. Len(bssids) \in Nat
  BY LenProperties
<1> HIDE DEF i
<1>3. CASE f.bssid \notin Stations
  <2>1. bssids' = bssids /\ bssidOverflow' = bssidOverflow
    BY <1>3 DEF AddBssid
  <2> QED
    BY <1>3, <2>1, OtherFrame
<1>4. CASE f.bssid \in Stations /\ i # 0
  <2>1. /\ i \in 1..Len(bssids) /\ bssids[i].bssid = f.bssid
        /\ bssids' = [bssids EXCEPT ![i] = UpdatedBssid(@, f)] /\ bssidOverflow' = bssidOverflow
    BY <1>1, <1>4 DEF AddBssid, i
  <2>2. bssids[i] \in BssidStats
    BY <2>1, ElementOfSeq
  <2>3. UpdatedBssid(bssids[i], f) \in BssidStats
    BY <2>2, EntryFields
  <2>4. /\ bssids' \in Seq(BssidStats) /\ Len(bssids') = Len(bssids)
        /\ bssids'[i] = UpdatedBssid(bssids[i], f)
        /\ \A j \in 1..Len(bssids) : j # i => bssids'[j] = bssids[j]
    BY <2>1, <2>3, ExceptSeq
  <2>5. BssidTable(bssids', bssidOverflow, Append(seen, f))
    BY <2>1, <2>4, ListedFrame, ZenonT(30)
  <2>6. bssidOverflow' \in BOOLEAN /\ BssidTable(bssids', bssidOverflow', Append(seen, f))
    BY <2>1, <2>5, Zenon
  <2> QED
    BY <2>6, <2>4
<1>5. CASE f.bssid \in Stations /\ i = 0 /\ Len(bssids) < MaxBssids
  <2>1. /\ \A j \in 1..Len(bssids) : bssids[j].bssid # f.bssid
        /\ bssids' = Append(bssids, UpdatedBssid(NewBssid(f.bssid), f))
        /\ bssidOverflow' = bssidOverflow
    BY <1>1, <1>2, <1>5 DEF AddBssid, i
  <2>2. bssidOverflow = FALSE
    BY <1>2, <1>5, CapacityAssumption DEF BssidTable
  <2>3. /\ bssids' \in Seq(BssidStats) /\ Len(bssids') = Len(bssids) + 1
        /\ BssidTable(bssids', FALSE, Append(seen, f))
    BY <1>5, <2>1, <2>2, FirstFrame
  <2>4. Len(bssids') <= MaxBssids
    BY <1>2, <1>5, <2>3, CapacityAssumption
  <2>5. bssidOverflow' \in BOOLEAN /\ BssidTable(bssids', bssidOverflow', Append(seen, f))
    BY <2>1, <2>2, <2>3, Zenon
  <2> QED
    BY <2>3, <2>4, <2>5
<1>6. CASE f.bssid \in Stations /\ i = 0 /\ Len(bssids) = MaxBssids
  <2>1. /\ \A j \in 1..Len(bssids) : bssids[j].bssid # f.bssid
        /\ bssids' = bssids /\ bssidOverflow' = TRUE
    BY <1>1, <1>2, <1>6 DEF AddBssid, i
  <2>2. BssidTable(bssids, TRUE, Append(seen, f))
    BY <1>6, <2>1, FrameTooMany
  <2> QED
    BY <2>1, <2>2
<1> QED
  BY <1>2, <1>3, <1>4, <1>5, <1>6, CapacityAssumption

-----------------------------------------------------------------------------
(* The handshake table. *)

HandshakeTable(table, overflow, s) ==
  /\ \A i, j \in 1..Len(table) :
       table[i].client = table[j].client /\ table[i].bssid = table[j].bssid => i = j
  /\ \A i \in 1..Len(table), m \in 1..4 :
       /\ table[i].messages[m] = Cardinality(Exchanged(table[i].client, table[i].bssid, m, s))
       /\ m \in table[i].mask <=> table[i].messages[m] > 0
  /\ ~ overflow => \A k \in 1..Len(s) : IsHandshake(s[k]) =>
       \E i \in 1..Len(table) : table[i].client = Client(s[k]) /\ table[i].bssid = s[k].bssid
  /\ overflow => Len(table) = MaxHandshakes

(* The two ends of a key message are its BSSID and what add_handshake      *)
(* takes for the client, whichever of them sent it.                        *)
LEMMA ClientIsOtherEnd ==
  ASSUME NEW f, IsHandshake(f), NEW c
  PROVE  Ends(f) = {c, f.bssid} <=> c = Client(f)
<1>1. Client(f) # None
  BY NoneIsNone DEF IsHandshake
<1>2. CASE f.addrs[1] = f.bssid
  BY <1>2 DEF Ends, Client
<1>3. CASE f.addrs[1] # f.bssid /\ f.addrs[2] = f.bssid
  BY <1>3 DEF Ends, Client
<1> QED
  BY <1>1, <1>2, <1>3 DEF Client

(* A key message is one more of its number between its two ends, and a     *)
(* frame that is none changes nothing.                                     *)
LEMMA ExchangeGrows ==
  ASSUME NEW s \in Seq(Frames), NEW f \in Frames, NEW c, NEW b, NEW m
  PROVE  /\ Exchanged(c, b, m, s) \subseteq 1..Len(s)
         /\ Exchanged(c, b, m, Append(s, f)) =
              IF IsHandshake(f) /\ f.bssid = b /\ Client(f) = c /\ f.eapol = m
              THEN Exchanged(c, b, m, s) \union {Len(s) + 1} ELSE Exchanged(c, b, m, s)
<1> DEFINE t == Append(s, f)
           n == Len(s) + 1
           Counts(g) == IsHandshake(g) /\ g.bssid = b /\ Ends(g) = {c, b} /\ g.eapol = m
<1>1. /\ Len(s) \in Nat /\ DOMAIN s = 1..Len(s) /\ DOMAIN t = 1..n
      /\ \A k \in 1..Len(s) : t[k] = s[k]
      /\ t[n] = f
  BY Grows
<1>2. 1..n = 1..Len(s) \union {n}
  BY <1>1
<1>3. Counts(f) <=> IsHandshake(f) /\ f.bssid = b /\ Client(f) = c /\ f.eapol = m
  BY ClientIsOtherEnd
<1> HIDE DEF t, n
<1>4. /\ Exchanged(c, b, m, s) = {k \in DOMAIN s : Counts(s[k])}
      /\ Exchanged(c, b, m, t) = {k \in DOMAIN t : Counts(t[k])}
  BY DEF Exchanged
<1> HIDE DEF Counts
<1>5. Exchanged(c, b, m, t) = IF Counts(f) THEN Exchanged(c, b, m, s) \union {n} ELSE Exchanged(c, b, m, s)
  BY <1>1, <1>2, <1>4
<1> QED
  BY <1>1, <1>3, <1>4, <1>5 DEF t, n

(* The search through the table ends at the one entry of the pair, if      *)
(* there is one.                                                           *)
LEMMA HandshakeFound ==
  ASSUME handshakes \in Seq(HandshakeStats), NEW c, NEW b,
         \A i, j \in 1..Len(handshakes) :
           handshakes[i].client = handshakes[j].client /\ handshakes[i].bssid = handshakes[j].bssid
           => i = j
  PROVE  \/ /\ HandshakePlace(c, b) = 0
            /\ \A j \in 1..Len(handshakes) : ~ (handshakes[j].client = c /\ handshakes[j].bssid = b)
         \/ /\ HandshakePlace(c, b) \in 1..Len(handshakes)
            /\ handshakes[HandshakePlace(c, b)].client = c
            /\ handshakes[HandshakePlace(c, b)].bssid = b
<1> DEFINE I == {i \in 1..Len(handshakes) : handshakes[i].bssid = b /\ handshakes[i].client = c}
<1>1. Len(handshakes) \in Nat
  BY LenProperties
<1>2. HandshakePlace(c, b) = IF I # {} THEN Min(I) ELSE 0
  BY DEF HandshakePlace, SelectInSeq
<1>3. CASE I = {}
  BY <1>2, <1>3
<1>4. ASSUME NEW k \in I PROVE HandshakePlace(c, b) = k
  <2>1. I = {k}
    OBVIOUS
  <2>2. Min({k}) = k
    BY <1>1 DEF Min
  <2> QED
    BY <1>2, <2>1, <2>2
<1> QED
  BY <1>3, <1>4

(* An update of the fields about the messages. *)
LEMMA MessageUpdate ==
  ASSUME NEW A, NEW B, NEW C, NEW D,
         NEW e \in [client : A, bssid : B, mask : C, messages : D],
         NEW y \in C, NEW z \in D
  PROVE  LET u == [e EXCEPT !.mask = y, !.messages = z] IN
         /\ u \in [client : A, bssid : B, mask : C, messages : D]
         /\ u.client = e.client /\ u.bssid = e.bssid /\ u.mask = y /\ u.messages = z
  OBVIOUS

(* The fields of an entry after a key message. *)
LEMMA HandshakeFields ==
  ASSUME NEW e \in HandshakeStats, NEW f \in Frames, IsHandshake(f)
  PROVE  LET u == UpdatedHandshake(e, f) IN
         /\ u \in HandshakeStats
         /\ u.client = e.client /\ u.bssid = e.bssid
         /\ u.mask = e.mask \union {f.eapol} /\ u.messages[f.eapol] = e.messages[f.eapol] + 1
         /\ \A m \in 1..4 : m # f.eapol => u.messages[m] = e.messages[m]
<1>1. f.eapol \in 1..4
  BY FrameFields DEF IsHandshake
<1>2. /\ e.client \in Stations /\ e.bssid \in Stations /\ e.mask \in SUBSET (1..4)
      /\ e.messages \in [1..4 -> Nat]
  BY DEF HandshakeStats
<1> DEFINE mask == e.mask \union {f.eapol}
           messages == [e.messages EXCEPT ![f.eapol] = @ + 1]
<1>3. UpdatedHandshake(e, f) = [e EXCEPT !.mask = mask, !.messages = messages]
  BY DEF UpdatedHandshake, HandshakeStats, Message
<1>4. /\ mask \in SUBSET (1..4) /\ messages \in [1..4 -> Nat]
      /\ messages[f.eapol] = e.messages[f.eapol] + 1
      /\ \A m \in 1..4 : m # f.eapol => messages[m] = e.messages[m]
  BY <1>1, <1>2
<1> HIDE DEF mask, messages
<1>5. LET u == [e EXCEPT !.mask = mask, !.messages = messages] IN
      /\ u \in HandshakeStats /\ u.client = e.client /\ u.bssid = e.bssid
      /\ u.mask = mask /\ u.messages = messages
  BY <1>4, MessageUpdate DEF HandshakeStats
<1> QED
  BY <1>3, <1>4, <1>5 DEF mask

(* A frame that is no key message leaves what the table says true. *)
LEMMA NoMessage ==
  ASSUME NEW s \in Seq(Frames), NEW f \in Frames, NEW table, NEW overflow,
         HandshakeTable(table, overflow, s), ~ IsHandshake(f)
  PROVE  HandshakeTable(table, overflow, Append(s, f))
<1> DEFINE t == Append(s, f)
<1>1. \A c, b, m : Exchanged(c, b, m, t) = Exchanged(c, b, m, s)
  BY ExchangeGrows
<1>2. /\ Len(s) \in Nat /\ Len(t) = Len(s) + 1 /\ (\A k \in 1..Len(s) : t[k] = s[k])
      /\ t[Len(s) + 1] = f
  BY Grows
<1> HIDE DEF t
<1>3. ASSUME ~ overflow, NEW k \in 1..Len(t), IsHandshake(t[k])
      PROVE  \E i \in 1..Len(table) : table[i].client = Client(t[k]) /\ table[i].bssid = t[k].bssid
  <2>1. k \in 1..Len(s) /\ t[k] = s[k]
    BY <1>2, <1>3
  <2> QED
    BY <1>3, <2>1 DEF HandshakeTable
<1>4. \A i \in 1..Len(table), m \in 1..4 :
        /\ table[i].messages[m] = Cardinality(Exchanged(table[i].client, table[i].bssid, m, t))
        /\ m \in table[i].mask <=> table[i].messages[m] > 0
  BY <1>1 DEF HandshakeTable
<1>5. HandshakeTable(table, overflow, t)
  BY <1>3, <1>4 DEF HandshakeTable
<1> QED
  BY <1>5 DEF t

(* What an entry counts stays right: when a message of its pair is added   *)
(* to it, and when it is left alone for any other.                         *)
LEMMA ExchangeStays ==
  ASSUME NEW s \in Seq(Frames), NEW f \in Frames, IsHandshake(f), NEW e \in HandshakeStats,
         NEW m \in 1..4,
         e.messages[m] = Cardinality(Exchanged(e.client, e.bssid, m, s)),
         m \in e.mask <=> e.messages[m] > 0
  PROVE  /\ ~ (f.bssid = e.bssid /\ Client(f) = e.client) =>
              e.messages[m] = Cardinality(Exchanged(e.client, e.bssid, m, Append(s, f)))
         /\ f.bssid = e.bssid /\ Client(f) = e.client =>
              LET u == UpdatedHandshake(e, f) IN
              /\ u.messages[m] = Cardinality(Exchanged(e.client, e.bssid, m, Append(s, f)))
              /\ m \in u.mask <=> u.messages[m] > 0
<1> DEFINE X == Exchanged(e.client, e.bssid, m, s)
           Y == Exchanged(e.client, e.bssid, m, Append(s, f))
           u == UpdatedHandshake(e, f)
<1>1. /\ X \subseteq 1..Len(s)
      /\ Y = IF f.bssid = e.bssid /\ Client(f) = e.client /\ f.eapol = m
             THEN X \union {Len(s) + 1} ELSE X
  <2>1. X \subseteq 1..Len(s)
    BY ExchangeGrows
  <2>2. ASSUME f.bssid = e.bssid, Client(f) = e.client, f.eapol = m PROVE Y = X \union {Len(s) + 1}
    BY <2>2, ExchangeGrows
  <2>3. ASSUME ~ (f.bssid = e.bssid /\ Client(f) = e.client /\ f.eapol = m) PROVE Y = X
    BY <2>3, ExchangeGrows
  <2> QED
    BY <2>1, <2>2, <2>3
<1>2. Len(s) \in Nat
  BY LenProperties
<1>3. Cardinality(X) \in Nat /\ Cardinality(X \union {Len(s) + 1}) = Cardinality(X) + 1
  <2>1. X \in SUBSET (1..Len(s))
    BY <1>1
  <2> HIDE DEF X
  <2> QED
    BY <1>2, <2>1, OneMore
<1>4. /\ u.mask = e.mask \union {f.eapol} /\ u.messages[f.eapol] = e.messages[f.eapol] + 1
      /\ m # f.eapol => u.messages[m] = e.messages[m]
  BY HandshakeFields
<1> HIDE DEF X, Y, u
<1>5. e.messages[m] = Cardinality(X)
  BY DEF X
<1>6. ASSUME ~ (f.bssid = e.bssid /\ Client(f) = e.client) PROVE e.messages[m] = Cardinality(Y)
  BY <1>1, <1>5, <1>6
<1>7. ASSUME f.bssid = e.bssid, Client(f) = e.client
      PROVE  u.messages[m] = Cardinality(Y) /\ (m \in u.mask <=> u.messages[m] > 0)
  <2>1. CASE f.eapol = m
    BY <1>1, <1>3, <1>4, <1>5, <1>7, <2>1
  <2>2. CASE f.eapol # m
    BY <1>1, <1>4, <1>5, <1>7, <2>2
  <2> QED
    BY <2>1, <2>2
<1> QED
  BY <1>6, <1>7 DEF Y, u

(* A message of a listed pair: its entry is updated. *)
LEMMA ListedMessage ==
  ASSUME NEW s \in Seq(Frames), NEW f \in Frames, IsHandshake(f),
         NEW table \in Seq(HandshakeStats), NEW overflow, HandshakeTable(table, overflow, s),
         NEW i \in 1..Len(table), table[i].client = Client(f), table[i].bssid = f.bssid,
         NEW new \in Seq(HandshakeStats), Len(new) = Len(table),
         new[i] = UpdatedHandshake(table[i], f),
         \A j \in 1..Len(table) : j # i => new[j] = table[j]
  PROVE  HandshakeTable(new, overflow, Append(s, f))
<1> DEFINE t == Append(s, f)
<1>1. \A j \in 1..Len(table) : table[j] \in HandshakeStats
  BY ElementOfSeq
<1>2. \A j \in 1..Len(table) : new[j].client = table[j].client /\ new[j].bssid = table[j].bssid
  BY <1>1, HandshakeFields
<1>3. ASSUME NEW j \in 1..Len(table), NEW m \in 1..4
      PROVE  /\ new[j].messages[m] = Cardinality(Exchanged(new[j].client, new[j].bssid, m, t))
             /\ m \in new[j].mask <=> new[j].messages[m] > 0
  <2>1. /\ table[j].messages[m] = Cardinality(Exchanged(table[j].client, table[j].bssid, m, s))
        /\ m \in table[j].mask <=> table[j].messages[m] > 0
    BY DEF HandshakeTable
  <2>2. CASE j = i
    BY <1>1, <1>2, <2>1, <2>2, ExchangeStays, SMTT(30)
  <2>3. CASE j # i
    <3>1. ~ (f.bssid = table[j].bssid /\ Client(f) = table[j].client)
      BY <2>3 DEF HandshakeTable
    <3> QED
      BY <1>1, <1>2, <2>1, <2>3, <3>1, ExchangeStays, ZenonT(30)
  <2> QED
    BY <2>2, <2>3
<1>4. /\ Len(s) \in Nat /\ Len(t) = Len(s) + 1 /\ (\A k \in 1..Len(s) : t[k] = s[k])
      /\ t[Len(s) + 1] = f
  BY Grows
<1> HIDE DEF t
<1>5. ASSUME ~ overflow, NEW k \in 1..Len(t), IsHandshake(t[k])
      PROVE  \E j \in 1..Len(new) : new[j].client = Client(t[k]) /\ new[j].bssid = t[k].bssid
  <2>1. CASE k \in 1..Len(s)
    <3>1. \E j \in 1..Len(table) : table[j].client = Client(s[k]) /\ table[j].bssid = s[k].bssid
      BY <1>4, <1>5, <2>1 DEF HandshakeTable
    <3> QED
      BY <1>2, <1>4, <2>1, <3>1
  <2>2. CASE k = Len(s) + 1
    BY <1>2, <1>4, <2>2
  <2>3. k \in 1..Len(s) \/ k = Len(s) + 1
    <3>1. Len(s) \in Nat /\ Len(t) = Len(s) + 1
      BY <1>4
    <3> QED
      BY <3>1
  <2> QED
    BY <2>1, <2>2, <2>3, Zenon
<1>6. \A j, k \in 1..Len(new) :
        new[j].client = new[k].client /\ new[j].bssid = new[k].bssid => j = k
  BY <1>2 DEF HandshakeTable
<1>7. HandshakeTable(new, overflow, t)
  <2>1. overflow => Len(new) = MaxHandshakes
    BY DEF HandshakeTable
  <2> QED
    BY <1>3, <1>5, <1>6, <2>1 DEF HandshakeTable
<1> QED
  BY <1>7 DEF t

(* The first message of a pair, while the table has room: there has been   *)
(* none between the two before.                                            *)
LEMMA FirstMessage ==
  ASSUME NEW s \in Seq(Frames), NEW f \in Frames, IsHandshake(f),
         NEW table \in Seq(HandshakeStats), HandshakeTable(table, FALSE, s),
         \A j \in 1..Len(table) : ~ (table[j].client = Client(f) /\ table[j].bssid = f.bssid)
  PROVE  LET new == Append(table, UpdatedHandshake(NewHandshake(f), f)) IN
         /\ new \in Seq(HandshakeStats) /\ Len(new) = Len(table) + 1
         /\ HandshakeTable(new, FALSE, Append(s, f))
<1> DEFINE t == Append(s, f)
           e == NewHandshake(f)
           u == UpdatedHandshake(e, f)
           new == Append(table, u)
           n == Len(table)
<1>1. /\ e \in HandshakeStats /\ e.client = Client(f) /\ e.bssid = f.bssid /\ e.mask = {}
      /\ \A m \in 1..4 : e.messages[m] = 0
  BY DEF NewHandshake, HandshakeStats, IsHandshake
<1> HIDE DEF e
<1>2. u \in HandshakeStats /\ u.client = Client(f) /\ u.bssid = f.bssid
  BY <1>1, HandshakeFields
<1>3. ASSUME NEW m \in 1..4 PROVE Exchanged(e.client, e.bssid, m, s) = {}
  <2>1. ASSUME NEW k \in Exchanged(e.client, e.bssid, m, s) PROVE FALSE
    <3>1. /\ k \in DOMAIN s /\ IsHandshake(s[k]) /\ s[k].bssid = f.bssid
          /\ Ends(s[k]) = {Client(f), s[k].bssid}
      BY <1>1 DEF Exchanged
    <3>2. Client(f) = Client(s[k])
      BY <3>1, ClientIsOtherEnd
    <3>3. k \in 1..Len(s)
      BY <3>1, LenProperties
    <3> QED
      BY <3>1, <3>2, <3>3 DEF HandshakeTable
  <2> QED
    BY <2>1
<1>4. ASSUME NEW m \in 1..4
      PROVE  /\ u.messages[m] = Cardinality(Exchanged(u.client, u.bssid, m, t))
             /\ m \in u.mask <=> u.messages[m] > 0
  <2>1. /\ e.messages[m] = Cardinality(Exchanged(e.client, e.bssid, m, s))
        /\ m \in e.mask <=> e.messages[m] > 0
    <3>1. Cardinality(Exchanged(e.client, e.bssid, m, s)) = 0
      BY <1>3, FS_EmptySet
    <3> QED
      BY <1>1, <3>1
  <2>2. u.messages[m] = Cardinality(Exchanged(e.client, e.bssid, m, t))
    BY <1>1, <2>1, ExchangeStays
  <2>3. m \in u.mask <=> u.messages[m] > 0
    BY <1>1, <2>1, ExchangeStays
  <2> QED
    BY <1>1, <1>2, <2>2, <2>3
<1> HIDE DEF u
<1>5. /\ n \in Nat /\ new \in Seq(HandshakeStats) /\ Len(new) = n + 1 /\ new[n + 1] = u
      /\ \A j \in 1..n : new[j] = table[j] /\ table[j] \in HandshakeStats
  BY <1>2, Grows
<1>6. 1..(n + 1) = 1..n \union {n + 1}
  BY <1>5
<1> HIDE DEF new
<1>7. ASSUME NEW j \in 1..(n + 1), NEW m \in 1..4
      PROVE  /\ new[j].messages[m] = Cardinality(Exchanged(new[j].client, new[j].bssid, m, t))
             /\ m \in new[j].mask <=> new[j].messages[m] > 0
  <2>1. CASE j \in 1..n
    <3>1. /\ table[j].messages[m] = Cardinality(Exchanged(table[j].client, table[j].bssid, m, s))
          /\ m \in table[j].mask <=> table[j].messages[m] > 0
          /\ ~ (f.bssid = table[j].bssid /\ Client(f) = table[j].client)
      BY <2>1 DEF HandshakeTable
    <3>2. table[j].messages[m] = Cardinality(Exchanged(table[j].client, table[j].bssid, m, t))
      BY <1>5, <2>1, <3>1, ExchangeStays
    <3> QED
      BY <1>5, <2>1, <3>1, <3>2
  <2>2. CASE j = n + 1
    BY <1>4, <1>5, <2>2
  <2> QED
    BY <1>6, <2>1, <2>2
<1>8. /\ Len(s) \in Nat /\ Len(t) = Len(s) + 1 /\ (\A k \in 1..Len(s) : t[k] = s[k])
      /\ t[Len(s) + 1] = f
  BY Grows
<1> HIDE DEF t
<1>9. ASSUME NEW k \in 1..Len(t), IsHandshake(t[k])
      PROVE  \E j \in 1..Len(new) : new[j].client = Client(t[k]) /\ new[j].bssid = t[k].bssid
  <2>1. CASE k \in 1..Len(s)
    <3>1. \E j \in 1..Len(table) : table[j].client = Client(s[k]) /\ table[j].bssid = s[k].bssid
      BY <1>8, <1>9, <2>1 DEF HandshakeTable
    <3> QED
      BY <1>5, <1>8, <2>1, <3>1
  <2>2. CASE k = Len(s) + 1
    <3>1. n + 1 \in 1..Len(new) /\ t[k] = f
      BY <1>5, <1>8, <2>2
    <3> QED
      BY <1>2, <1>5, <3>1
  <2> QED
    BY <1>8, <2>1, <2>2
<1>10. ASSUME NEW i \in 1..(n + 1), NEW j \in 1..(n + 1),
              new[i].client = new[j].client, new[i].bssid = new[j].bssid
       PROVE  i = j
  <2>1. CASE i \in 1..n /\ j \in 1..n
    BY <1>5, <1>10, <2>1 DEF HandshakeTable
  <2>2. CASE i = n + 1 \/ j = n + 1
    <3>1. \A k \in 1..n : ~ (new[k].client = Client(f) /\ new[k].bssid = f.bssid)
      BY <1>5
    <3>2. new[n + 1].client = Client(f) /\ new[n + 1].bssid = f.bssid
      BY <1>2, <1>5
    <3> QED
      BY <1>6, <1>10, <2>2, <3>1, <3>2
  <2> QED
    BY <1>6, <2>1, <2>2
<1> HIDE DEF n
<1>11. HandshakeTable(new, FALSE, t)
  BY <1>5, <1>7, <1>9, <1>10 DEF HandshakeTable
<1> QED
  BY <1>5, <1>11 DEF t, new, u, e, n

(* A message of a pair for which the full table has no room. *)
LEMMA MessageTooMany ==
  ASSUME NEW s \in Seq(Frames), NEW f \in Frames, IsHandshake(f),
         NEW table \in Seq(HandshakeStats), NEW overflow, HandshakeTable(table, overflow, s),
         \A j \in 1..Len(table) : ~ (table[j].client = Client(f) /\ table[j].bssid = f.bssid),
         Len(table) = MaxHandshakes
  PROVE  HandshakeTable(table, TRUE, Append(s, f))
<1>1. ASSUME NEW j \in 1..Len(table), NEW m \in 1..4
      PROVE  /\ table[j].messages[m] =
                  Cardinality(Exchanged(table[j].client, table[j].bssid, m, Append(s, f)))
             /\ m \in table[j].mask <=> table[j].messages[m] > 0
  <2>1. /\ table[j].messages[m] = Cardinality(Exchanged(table[j].client, table[j].bssid, m, s))
        /\ m \in table[j].mask <=> table[j].messages[m] > 0
        /\ table[j] \in HandshakeStats
    BY ElementOfSeq DEF HandshakeTable
  <2> QED
    BY <2>1, ExchangeStays
<1> QED
  BY <1>1 DEF HandshakeTable

(* add_handshake keeps the table true to the capture. *)
LEMMA HandshakeStep ==
  ASSUME seen \in Seq(Frames), handshakes \in Seq(HandshakeStats),
         Len(handshakes) <= MaxHandshakes, handshakeOverflow \in BOOLEAN, NEW f \in Frames,
         HandshakeTable(handshakes, handshakeOverflow, seen), AddHandshake(f)
  PROVE  /\ handshakes' \in Seq(HandshakeStats) /\ Len(handshakes') <= MaxHandshakes
         /\ handshakeOverflow' \in BOOLEAN
         /\ HandshakeTable(handshakes', handshakeOverflow', Append(seen, f))
<1> DEFINE i == HandshakePlace(Client(f), f.bssid)
<1>1. \/ /\ i = 0
         /\ \A j \in 1..Len(handshakes) :
              ~ (handshakes[j].client = Client(f) /\ handshakes[j].bssid = f.bssid)
      \/ /\ i \in 1..Len(handshakes)
         /\ handshakes[i].client = Client(f) /\ handshakes[i].bssid = f.bssid
  BY HandshakeFound DEF HandshakeTable
<1>2. Len(handshakes) \in Nat
  BY LenProperties
<1> HIDE DEF i
<1>3. CASE ~ IsHandshake(f)
  <2>1. handshakes' = handshakes /\ handshakeOverflow' = handshakeOverflow
    BY <1>3 DEF AddHandshake
  <2>2. HandshakeTable(handshakes, handshakeOverflow, Append(seen, f))
    BY <1>3, NoMessage
  <2> QED
    BY <2>1, <2>2, Zenon
<1>4. CASE IsHandshake(f) /\ i # 0
  <2>1. /\ i \in 1..Len(handshakes)
        /\ handshakes[i].client = Client(f) /\ handshakes[i].bssid = f.bssid
        /\ handshakes' = [handshakes EXCEPT ![i] = UpdatedHandshake(@, f)]
        /\ handshakeOverflow' = handshakeOverflow
    BY <1>1, <1>4 DEF AddHandshake, i
  <2>2. handshakes[i] \in HandshakeStats
    BY <2>1, ElementOfSeq
  <2>3. UpdatedHandshake(handshakes[i], f) \in HandshakeStats
    BY <1>4, <2>2, HandshakeFields
  <2>4. /\ handshakes' \in Seq(HandshakeStats) /\ Len(handshakes') = Len(handshakes)
        /\ handshakes'[i] = UpdatedHandshake(handshakes[i], f)
        /\ \A j \in 1..Len(handshakes) : j # i => handshakes'[j] = handshakes[j]
    BY <2>1, <2>3, ExceptSeq
  <2>5. HandshakeTable(handshakes', handshakeOverflow, Append(seen, f))
    BY <1>4, <2>1, <2>4, ListedMessage, ZenonT(30)
  <2>6. handshakeOverflow' \in BOOLEAN /\ HandshakeTable(handshakes', handshakeOverflow', Append(seen, f))
    BY <2>1, <2>5, Zenon
  <2> QED
    BY <2>4, <2>6
<1>5. CASE IsHandshake(f) /\ i = 0 /\ Len(handshakes) < MaxHandshakes
  <2>1. /\ \A j \in 1..Len(handshakes) :
             ~ (handshakes[j].client = Client(f) /\ handshakes[j].bssid = f.bssid)
        /\ handshakes' = Append(handshakes, UpdatedHandshake(NewHandshake(f), f))
        /\ handshakeOverflow' = handshakeOverflow
    BY <1>1, <1>2, <1>5 DEF AddHandshake, i
  <2>2. handshakeOverflow = FALSE
    BY <1>2, <1>5, CapacityAssumption DEF HandshakeTable
  <2>3. /\ handshakes' \in Seq(HandshakeStats) /\ Len(handshakes') = Len(handshakes) + 1
        /\ HandshakeTable(handshakes', FALSE, Append(seen, f))
    BY <1>5, <2>1, <2>2, FirstMessage
  <2>4. Len(handshakes') <= MaxHandshakes
    BY <1>2, <1>5, <2>3, CapacityAssumption
  <2>5. handshakeOverflow' \in BOOLEAN /\ HandshakeTable(handshakes', handshakeOverflow', Append(seen, f))
    BY <2>1, <2>2, <2>3, Zenon
  <2> QED
    BY <2>3, <2>4, <2>5
<1>6. CASE IsHandshake(f) /\ i = 0 /\ Len(handshakes) = MaxHandshakes
  <2>1. /\ \A j \in 1..Len(handshakes) :
             ~ (handshakes[j].client = Client(f) /\ handshakes[j].bssid = f.bssid)
        /\ handshakes' = handshakes /\ handshakeOverflow' = TRUE
    BY <1>1, <1>2, <1>6 DEF AddHandshake, i
  <2>2. HandshakeTable(handshakes, TRUE, Append(seen, f))
    BY <1>6, <2>1, MessageTooMany
  <2> QED
    BY <2>1, <2>2
<1> QED
  BY <1>2, <1>3, <1>4, <1>5, <1>6, CapacityAssumption

-----------------------------------------------------------------------------
(* The counters. *)

(* A frame is one more of its subtype, and of its reason. *)
LEMMA CountsGrow ==
  ASSUME NEW s \in Seq(Frames), NEW f \in Frames, NEW r, NEW c
  PROVE  /\ Cardinality(Of(r, s)) \in Nat /\ Cardinality(Giving(r, c, s)) \in Nat
         /\ Cardinality(Of(r, Append(s, f))) =
              IF f.subtype = r THEN Cardinality(Of(r, s)) + 1 ELSE Cardinality(Of(r, s))
         /\ Cardinality(Giving(r, c, Append(s, f))) =
              IF f.subtype = r /\ f.reason = c
              THEN Cardinality(Giving(r, c, s)) + 1 ELSE Cardinality(Giving(r, c, s))
<1> DEFINE t == Append(s, f)
           n == Len(s) + 1
<1>1. /\ Len(s) \in Nat /\ DOMAIN s = 1..Len(s) /\ DOMAIN t = 1..n
      /\ \A k \in 1..Len(s) : t[k] = s[k]
      /\ t[n] = f
  BY Grows
<1>2. 1..n = 1..Len(s) \union {n}
  BY <1>1
<1>3. Of(r, s) \in SUBSET (1..Len(s)) /\ Giving(r, c, s) \in SUBSET (1..Len(s))
  BY <1>1 DEF Of, Giving
<1>4. /\ Cardinality(Of(r, s)) \in Nat
      /\ Cardinality(Of(r, s) \union {n}) = Cardinality(Of(r, s)) + 1
  BY <1>1, <1>3, OneMore
<1>5. /\ Cardinality(Giving(r, c, s)) \in Nat
      /\ Cardinality(Giving(r, c, s) \union {n}) = Cardinality(Giving(r, c, s)) + 1
  BY <1>1, <1>3, OneMore
<1> HIDE DEF t, n
<1>6. Of(r, t) = IF f.subtype = r THEN Of(r, s) \union {n} ELSE Of(r, s)
  BY <1>1, <1>2 DEF Of
<1>7. Giving(r, c, t) = IF f.subtype = r /\ f.reason = c
                        THEN Giving(r, c, s) \union {n} ELSE Giving(r, c, s)
  BY <1>1, <1>2 DEF Giving
<1>8. Cardinality(Of(r, t)) = IF f.subtype = r THEN Cardinality(Of(r, s)) + 1 ELSE Cardinality(Of(r, s))
  BY <1>4, <1>6
<1>9. Cardinality(Giving(r, c, t)) =
        IF f.subtype = r /\ f.reason = c
        THEN Cardinality(Giving(r, c, s)) + 1 ELSE Cardinality(Giving(r, c, s))
  BY <1>5, <1>7
<1> QED
  BY <1>4, <1>5, <1>8, <1>9 DEF t

-----------------------------------------------------------------------------
(* The inductive invariant: besides the types and the counters, both       *)
(* tables are true to the capture when statistics are kept, and empty      *)
(* otherwise; a failure is remembered; nothing is read after the end.      *)

StatsInv ==
  /\ TypeOK
  /\ CountsAddUp
  /\ parsed <= Len(seen)
  /\ wantStats => /\ BssidTable(bssids, bssidOverflow, seen)
                  /\ HandshakeTable(handshakes, handshakeOverflow, seen)
  /\ ~ wantStats => bssids = <<>> /\ handshakes = <<>> /\ ~ bssidOverflow /\ ~ handshakeOverflow
  /\ ended = "error" => failed
  /\ exit # "none" => ended # "no"
  /\ exit = "success" => ~ failed /\ ~ bssidOverflow /\ ~ handshakeOverflow

(* Before the first record there is nothing to summarise. *)
LEMMA EmptyTables ==
  ASSUME NEW table, NEW s, Len(table) = 0, Len(s) = 0, DOMAIN table = {}, DOMAIN s = {}
  PROVE  BssidTable(table, FALSE, s) /\ HandshakeTable(table, FALSE, s)
<1>1. 1..Len(table) = {} /\ 1..Len(s) = {}
  OBVIOUS
<1>2. BssidsIn(s) = {} /\ ListedIn(table) = {}
  BY <1>1 DEF BssidsIn, ListedIn
<1>3. IsFiniteSet({}) /\ Cardinality({}) = 0
  BY FS_EmptySet
<1>4. BssidTable(table, FALSE, s)
  BY <1>1, <1>2, <1>3 DEF BssidTable
<1>5. HandshakeTable(table, FALSE, s)
  BY <1>1 DEF HandshakeTable
<1> QED
  BY <1>4, <1>5

(* The program starts with nothing counted and empty tables. *)
LEMMA StatsInit == Init => StatsInv
<1> SUFFICES ASSUME Init PROVE StatsInv
  OBVIOUS
<1>1. /\ seen \in Seq(Frames) /\ bssids \in Seq(BssidStats) /\ handshakes \in Seq(HandshakeStats)
      /\ Len(seen) = 0 /\ Len(bssids) = 0 /\ Len(handshakes) = 0
      /\ DOMAIN seen = {} /\ DOMAIN bssids = {} /\ DOMAIN handshakes = {}
  BY EmptySeq DEF Init
<1>2. subtypes \in [Subtypes -> Nat] /\ \A t \in Subtypes : subtypes[t] = 0
  BY DEF Init
<1>3. reasons \in [Reasons -> [Codes -> Nat]] /\ \A r \in Reasons, c \in Codes : reasons[r][c] = 0
  BY DEF Init
<1>4. frames = 0 /\ parsed = 0 /\ errors = 0 /\ ended = "no" /\ exit = "none"
  BY DEF Init
<1>5. wantStats \in BOOLEAN /\ ~ bssidOverflow /\ ~ handshakeOverflow /\ ~ failed
      /\ bssidOverflow \in BOOLEAN /\ handshakeOverflow \in BOOLEAN /\ failed \in BOOLEAN
  BY DEF Init
<1>6. TypeOK
  BY <1>1, <1>2, <1>3, <1>4, <1>5, CapacityAssumption DEF TypeOK
<1>7. Cardinality({}) = 0
  BY FS_EmptySet
<1>8. \A r, c : Of(r, seen) = {} /\ Giving(r, c, seen) = {}
  BY <1>1 DEF Of, Giving
<1>9. CountsAddUp
  <2>1. \A t \in Subtypes : subtypes[t] = Cardinality(Of(t, seen))
    BY <1>2, <1>7, <1>8
  <2>2. \A r \in Reasons, c \in Codes : reasons[r][c] = Cardinality(Giving(r, c, seen))
    BY <1>3, <1>7, <1>8
  <2>3. frames = Len(seen) + errors /\ ~ errors > 0 /\ parsed = Len(seen)
    BY <1>1, <1>4
  <2> QED
    BY <2>1, <2>2, <2>3 DEF CountsAddUp
<1>10. BssidTable(bssids, FALSE, seen) /\ HandshakeTable(handshakes, FALSE, seen)
  BY <1>1, EmptyTables
<1>11. bssids = <<>> /\ handshakes = <<>> /\ bssidOverflow = FALSE /\ handshakeOverflow = FALSE
  BY DEF Init
<1>12. BssidTable(bssids, bssidOverflow, seen) /\ HandshakeTable(handshakes, handshakeOverflow, seen)
  BY <1>10, <1>11, Zenon
<1>13. parsed <= Len(seen) /\ ~ ended = "error" /\ exit = "none" /\ ~ exit = "success"
  BY <1>1, <1>4
<1> QED
  BY <1>5, <1>6, <1>9, <1>11, <1>12, <1>13, Zenon DEF StatsInv

(* The counters and the tables after a frame that parses. *)
LEMMA AcceptStep == StatsInv /\ AcceptFrame => StatsInv'
<1> SUFFICES ASSUME StatsInv, AcceptFrame PROVE StatsInv'
  OBVIOUS
<1>1. PICK f \in Frames : /\ seen' = Append(seen, f)
                          /\ \/ wantStats /\ AddStats(f)
                             \/ ~ wantStats /\ UNCHANGED <<parsed, subtypes, reasons, tables>>
  BY DEF AcceptFrame
<1>2. /\ Reading /\ frames' = frames + 1 /\ UNCHANGED <<wantStats, errors, failed, ended, exit>>
  BY DEF AcceptFrame
<1>3. TypeOK /\ CountsAddUp
  BY DEF StatsInv
<1>4. /\ seen \in Seq(Frames) /\ Len(seen) \in Nat
      /\ frames \in Nat /\ errors \in Nat /\ parsed \in Nat /\ MaxRecords \in Nat
  BY <1>3, LenProperties, CapacityAssumption DEF TypeOK
<1>5. seen' \in Seq(Frames) /\ Len(seen') = Len(seen) + 1
  BY <1>1, <1>4, Grows
<1>6. ended = "no" /\ exit = "none" /\ ended' = "no" /\ exit' = "none" /\ frames < MaxRecords
  BY <1>2, <1>3 DEF StatsInv, Reading, TypeOK
<1>7. frames' = Len(seen') + errors' /\ (errors' > 0 => failed')
  <2>1. frames' = Len(seen') + errors'
    BY <1>2, <1>3, <1>4, <1>5 DEF CountsAddUp
  <2>2. errors' > 0 => failed'
    BY <1>2, <1>3 DEF CountsAddUp
  <2> QED
    BY <2>1, <2>2
<1>8. frames' \in 0..MaxRecords
  BY <1>2, <1>4, <1>6
<1>9. CASE wantStats
  <2>1. AddStats(f)
    BY <1>1, <1>9
  <2>2. /\ bssids' \in Seq(BssidStats) /\ Len(bssids') <= MaxBssids /\ bssidOverflow' \in BOOLEAN
        /\ BssidTable(bssids', bssidOverflow', seen')
    <3>1. AddBssid(f) /\ BssidTable(bssids, bssidOverflow, seen)
      BY <1>9, <2>1 DEF AddStats, StatsInv
    <3>2. /\ bssids' \in Seq(BssidStats) /\ Len(bssids') <= MaxBssids
          /\ bssidOverflow' \in BOOLEAN /\ BssidTable(bssids', bssidOverflow', Append(seen, f))
      BY <1>3, <1>4, <3>1, BssidStep DEF TypeOK
    <3> QED
      BY <1>1, <3>2
  <2>3. /\ handshakes' \in Seq(HandshakeStats) /\ Len(handshakes') <= MaxHandshakes
        /\ handshakeOverflow' \in BOOLEAN
        /\ HandshakeTable(handshakes', handshakeOverflow', seen')
    <3>1. AddHandshake(f) /\ HandshakeTable(handshakes, handshakeOverflow, seen)
      BY <1>9, <2>1 DEF AddStats, StatsInv
    <3>2. /\ handshakes' \in Seq(HandshakeStats) /\ Len(handshakes') <= MaxHandshakes
          /\ handshakeOverflow' \in BOOLEAN
          /\ HandshakeTable(handshakes', handshakeOverflow', Append(seen, f))
      BY <1>3, <1>4, <3>1, HandshakeStep DEF TypeOK
    <3> QED
      BY <1>1, <3>2
  <2>4. parsed' = Len(seen') /\ parsed' \in 0..MaxRecords
    <3>1. parsed' = Len(seen')
      BY <1>3, <1>5, <1>9, <2>1 DEF AddStats, CountsAddUp
    <3>2. Len(seen') <= frames'
      BY <1>2, <1>4, <1>5, <1>7
    <3> QED
      BY <1>4, <1>5, <1>8, <3>1, <3>2
  <2>5. f.subtype \in Subtypes /\ f.reason \in Codes \union {None}
    BY FrameFields
  <2>6. subtypes \in [Subtypes -> Nat] /\ reasons \in [Reasons -> [Codes -> Nat]]
    BY <1>3 DEF TypeOK
  <2>7. /\ subtypes' = [subtypes EXCEPT ![f.subtype] = @ + 1]
        /\ reasons' = IF f.subtype \in Reasons /\ f.reason # None
                      THEN [reasons EXCEPT ![f.subtype][f.reason] = @ + 1] ELSE reasons
    BY <2>1 DEF AddStats
  <2>8. /\ subtypes' \in [Subtypes -> Nat]
        /\ \A r \in Subtypes : subtypes'[r] = Cardinality(Of(r, seen'))
    <3>1. subtypes' \in [Subtypes -> Nat]
      BY <2>5, <2>6, <2>7
    <3>2. ASSUME NEW r \in Subtypes PROVE subtypes'[r] = Cardinality(Of(r, seen'))
      <4>1. subtypes[r] = Cardinality(Of(r, seen))
        BY <1>3, <1>9 DEF CountsAddUp
      <4>2. Cardinality(Of(r, seen')) =
              IF f.subtype = r THEN Cardinality(Of(r, seen)) + 1 ELSE Cardinality(Of(r, seen))
        BY <1>1, <1>4, CountsGrow
      <4> QED
        BY <2>5, <2>6, <2>7, <4>1, <4>2
    <3> QED
      BY <3>1, <3>2
  <2>9. /\ reasons' \in [Reasons -> [Codes -> Nat]]
        /\ \A r \in Reasons, c \in Codes : reasons'[r][c] = Cardinality(Giving(r, c, seen'))
    <3>1. \A r \in Reasons, c \in Codes :
            /\ reasons[r][c] = Cardinality(Giving(r, c, seen))
            /\ Cardinality(Giving(r, c, seen')) =
                 IF f.subtype = r /\ f.reason = c
                 THEN Cardinality(Giving(r, c, seen)) + 1 ELSE Cardinality(Giving(r, c, seen))
      <4>1. ASSUME NEW r, NEW c
            PROVE  Cardinality(Giving(r, c, seen')) =
                     IF f.subtype = r /\ f.reason = c
                     THEN Cardinality(Giving(r, c, seen)) + 1 ELSE Cardinality(Giving(r, c, seen))
        BY <1>1, <1>4, CountsGrow
      <4> QED
        BY <1>3, <1>9, <4>1 DEF CountsAddUp
    <3>2. CASE f.subtype \in Reasons /\ f.reason # None
      <4> DEFINE row == [reasons[f.subtype] EXCEPT ![f.reason] = @ + 1]
      <4>1. f.reason \in Codes /\ reasons[f.subtype] \in [Codes -> Nat]
        BY <2>5, <2>6, <3>2
      <4>2. /\ row \in [Codes -> Nat] /\ row[f.reason] = reasons[f.subtype][f.reason] + 1
            /\ \A c \in Codes : c # f.reason => row[c] = reasons[f.subtype][c]
        BY <4>1
      <4>3. reasons' = [reasons EXCEPT ![f.subtype] = row]
        BY <2>7, <3>2
      <4> HIDE DEF row
      <4>4. /\ reasons' \in [Reasons -> [Codes -> Nat]] /\ reasons'[f.subtype] = row
            /\ \A r \in Reasons : r # f.subtype => reasons'[r] = reasons[r]
        BY <2>6, <3>2, <4>2, <4>3
      <4>5. ASSUME NEW r \in Reasons, NEW c \in Codes
            PROVE  reasons'[r][c] = Cardinality(Giving(r, c, seen'))
        <5>1. CASE r = f.subtype /\ c = f.reason
          BY <3>1, <4>2, <4>4, <5>1
        <5>2. CASE r = f.subtype /\ c # f.reason
          BY <3>1, <4>2, <4>4, <5>2
        <5>3. CASE r # f.subtype
          BY <3>1, <4>4, <5>3
        <5> QED
          BY <5>1, <5>2, <5>3
      <4> QED
        BY <4>4, <4>5
    <3>3. CASE ~ (f.subtype \in Reasons /\ f.reason # None)
      <4>1. reasons' = reasons
        BY <2>7, <3>3
      <4>2. \A r \in Reasons, c \in Codes : ~ (f.subtype = r /\ f.reason = c)
        BY <3>3, NoneIsNone
      <4> QED
        BY <2>6, <3>1, <4>1, <4>2
    <3> QED
      BY <3>2, <3>3
  <2>10. TypeOK'
    BY <1>2, <1>3, <1>5, <1>6, <1>8, <2>2, <2>3, <2>4, <2>8, <2>9 DEF TypeOK
  <2>11. CountsAddUp'
    BY <1>7, <2>4, <2>8, <2>9 DEF CountsAddUp
  <2>12. parsed' <= Len(seen')
    BY <1>4, <1>5, <2>4
  <2> QED
    BY <1>2, <1>6, <1>9, <2>2, <2>3, <2>10, <2>11, <2>12 DEF StatsInv
<1>10. CASE ~ wantStats
  <2>1. UNCHANGED <<parsed, subtypes, reasons, tables, wantStats>>
    BY <1>1, <1>2, <1>10
  <2>2. TypeOK'
    BY <1>2, <1>3, <1>5, <1>6, <1>8, <2>1 DEF TypeOK
  <2>3. CountsAddUp'
    BY <1>7, <1>10, <2>1 DEF CountsAddUp
  <2>4. parsed' <= Len(seen')
    BY <1>4, <1>5, <2>1 DEF StatsInv
  <2>5. bssids' = <<>> /\ handshakes' = <<>> /\ ~ bssidOverflow' /\ ~ handshakeOverflow'
    BY <1>10, <2>1 DEF StatsInv
  <2> QED
    BY <1>2, <1>6, <1>10, <2>2, <2>3, <2>4, <2>5 DEF StatsInv
<1> QED
  BY <1>9, <1>10

(* Every other step leaves the frames and their summary alone. *)
LEMMA OtherStep ==
  StatsInv /\ (RejectFrame \/ ReadEof \/ ReadFails \/ Exit \/ UNCHANGED vars) => StatsInv'
<1> SUFFICES ASSUME StatsInv, RejectFrame \/ ReadEof \/ ReadFails \/ Exit \/ UNCHANGED vars
             PROVE  StatsInv'
  OBVIOUS
<1>1. UNCHANGED <<wantStats, parsed, subtypes, reasons, tables, seen>>
  BY DEF RejectFrame, ReadEof, ReadFails, Exit, vars
<1>2. /\ TypeOK /\ CountsAddUp /\ Len(seen) \in Nat /\ frames \in 0..MaxRecords
      /\ errors \in 0..MaxRecords /\ MaxRecords \in Nat
  BY LenProperties, CapacityAssumption DEF StatsInv, TypeOK
<1>3. /\ wantStats' => /\ BssidTable(bssids', bssidOverflow', seen')
                       /\ HandshakeTable(handshakes', handshakeOverflow', seen')
      /\ ~ wantStats' => bssids' = <<>> /\ handshakes' = <<>>
                         /\ ~ bssidOverflow' /\ ~ handshakeOverflow'
      /\ parsed' <= Len(seen')
  BY <1>1 DEF StatsInv
<1>4. CASE RejectFrame
  <2>1. /\ ended = "no" /\ frames < MaxRecords /\ frames' = frames + 1 /\ errors' = errors + 1
        /\ failed' = TRUE /\ UNCHANGED <<ended, exit>>
    BY <1>4 DEF RejectFrame, Reading
  <2>2. frames = Len(seen) + errors
    BY <1>2 DEF CountsAddUp
  <2>3. frames' \in 0..MaxRecords /\ errors' \in 0..MaxRecords /\ frames' = Len(seen') + errors'
    BY <1>1, <1>2, <2>1, <2>2
  <2>4. TypeOK'
    BY <1>1, <1>2, <2>1, <2>3 DEF TypeOK
  <2>5. CountsAddUp'
    BY <1>1, <1>2, <2>1, <2>3 DEF CountsAddUp
  <2>6. exit = "none"
    BY <1>2, <2>1 DEF StatsInv, TypeOK
  <2> QED
    BY <1>3, <2>1, <2>4, <2>5, <2>6 DEF StatsInv
<1>5. CASE ReadEof
  <2>1. /\ ended = "no" /\ ended' = "eof" /\ UNCHANGED <<frames, errors, failed, exit>>
    BY <1>5 DEF ReadEof
  <2>2. TypeOK' /\ CountsAddUp'
    BY <1>1, <1>2, <2>1 DEF TypeOK, CountsAddUp
  <2> QED
    BY <1>1, <1>3, <2>1, <2>2 DEF StatsInv
<1>6. CASE ReadFails
  <2>1. /\ ended = "no" /\ ended' = "error" /\ failed' = TRUE /\ UNCHANGED <<frames, errors, exit>>
    BY <1>6 DEF ReadFails
  <2>2. TypeOK' /\ CountsAddUp'
    BY <1>1, <1>2, <2>1 DEF TypeOK, CountsAddUp
  <2>3. exit = "none"
    BY <1>2, <2>1 DEF StatsInv, TypeOK
  <2> QED
    BY <1>3, <2>1, <2>2, <2>3 DEF StatsInv
<1>7. CASE Exit
  <2>1. /\ ended # "no" /\ UNCHANGED <<frames, errors, failed, ended>>
        /\ exit' \in {"success", "failure"}
        /\ exit' = "success" => ~ failed /\ ~ bssidOverflow /\ ~ handshakeOverflow
    BY <1>7 DEF Exit
  <2>2. TypeOK' /\ CountsAddUp'
    BY <1>1, <1>2, <2>1 DEF TypeOK, CountsAddUp
  <2> QED
    BY <1>1, <1>3, <2>1, <2>2 DEF StatsInv
<1>8. CASE UNCHANGED vars
  <2>1. UNCHANGED <<frames, errors, failed, ended, exit>>
    BY <1>8 DEF vars
  <2>2. TypeOK' /\ CountsAddUp'
    BY <1>1, <1>2, <2>1 DEF TypeOK, CountsAddUp
  <2> QED
    BY <1>1, <1>3, <2>1, <2>2 DEF StatsInv
<1> QED
  BY <1>4, <1>5, <1>6, <1>7, <1>8

(* StatsInv is an invariant. *)
LEMMA StatsInvariant == Spec => []StatsInv
<1>1. StatsInv /\ [Next]_vars => StatsInv'
  BY AcceptStep, OtherStep DEF Next, Finished
<1> QED
  BY <1>1, StatsInit, PTL DEF Spec

-----------------------------------------------------------------------------
(* Every variable keeps its type: the tables never outgrow their capacity, *)
(* and a message number is always a place in the counts.                   *)
THEOREM StatsTypeCorrect == Spec => []TypeOK
<1>1. StatsInv => TypeOK
  BY DEF StatsInv
<1> QED
  BY <1>1, StatsInvariant, PTL

(* Every record is counted once, under its subtype or as an error, and     *)
(* every reason once, in a capture of any length.                          *)
THEOREM CountsAreExact == Spec => []CountsAddUp
<1>1. StatsInv => CountsAddUp
  BY DEF StatsInv
<1> QED
  BY <1>1, StatsInvariant, PTL

(* The BSSID table agrees with all frames of the capture, for every        *)
(* capacity, and the summary is marked incomplete exactly when the capture *)
(* tells of more addresses than fit.                                       *)
THEOREM BssidTableIsTrue == Spec => []BssidsMatchCapture
<1>1. StatsInv => BssidsMatchCapture
  <2> SUFFICES ASSUME StatsInv PROVE BssidsMatchCapture
    OBVIOUS
  <2>1. /\ bssids \in Seq(BssidStats) /\ DOMAIN bssids = 1..Len(bssids) /\ Len(bssids) \in Nat
        /\ Len(bssids) <= MaxBssids
    BY LenProperties DEF StatsInv, TypeOK
  <2>2. CASE wantStats
    <3>1. BssidTable(bssids, bssidOverflow, seen)
      BY <2>2 DEF StatsInv
    <3>2. ASSUME ~ bssidOverflow PROVE ~ (Cardinality(BssidsIn(seen)) > MaxBssids)
      <4>1. /\ BssidsIn(seen) \subseteq ListedIn(bssids) /\ IsFiniteSet(ListedIn(bssids))
            /\ Cardinality(ListedIn(bssids)) = Len(bssids)
        BY <3>1, <3>2 DEF BssidTable
      <4>2. /\ Cardinality(BssidsIn(seen)) <= Cardinality(ListedIn(bssids))
            /\ IsFiniteSet(BssidsIn(seen))
        BY <4>1, FS_Subset
      <4>3. Cardinality(BssidsIn(seen)) \in Nat
        BY <4>2, FS_CardinalityType
      <4> QED
        BY <2>1, <4>1, <4>2, <4>3, CapacityAssumption
    <3>3. bssidOverflow => Cardinality(BssidsIn(seen)) > MaxBssids
      BY <3>1 DEF BssidTable
    <3>4. /\ \A i, j \in DOMAIN bssids : bssids[i].bssid = bssids[j].bssid => i = j
          /\ \A i \in DOMAIN bssids : Summarises(bssids[i], seen)
          /\ \A i, j \in DOMAIN bssids :
               i < j => AppearsBefore(bssids[i].bssid, bssids[j].bssid, seen)
      BY <2>1, <3>1 DEF BssidTable
    <3> QED
      BY <2>2, <3>2, <3>3, <3>4 DEF BssidsMatchCapture
  <2>3. CASE ~ wantStats
    <3>1. DOMAIN bssids = {} /\ ~ bssidOverflow
      BY <2>3, EmptySeq DEF StatsInv
    <3> QED
      BY <2>3, <3>1 DEF BssidsMatchCapture
  <2> QED
    BY <2>2, <2>3
<1> QED
  BY <1>1, StatsInvariant, PTL

(* The handshake table counts exactly the messages between the two         *)
(* stations of each pair, for every capacity.                              *)
THEOREM HandshakeTableIsTrue == Spec => []HandshakesMatchCapture
<1>1. StatsInv => HandshakesMatchCapture
  <2> SUFFICES ASSUME StatsInv PROVE HandshakesMatchCapture
    OBVIOUS
  <2>1. DOMAIN handshakes = 1..Len(handshakes)
    BY LenProperties DEF StatsInv, TypeOK
  <2>2. CASE wantStats
    BY <2>1, <2>2 DEF StatsInv, HandshakeTable, HandshakesMatchCapture
  <2>3. CASE ~ wantStats
    <3>1. DOMAIN handshakes = {}
      BY <2>3, EmptySeq DEF StatsInv
    <3> QED
      BY <3>1 DEF HandshakesMatchCapture
  <2> QED
    BY <2>2, <2>3
<1> QED
  BY <1>1, StatsInvariant, PTL

(* Exit status 0 means a capture read to its end without an error, and a   *)
(* summary that has every unicast BSSID and every pair of stations that    *)
(* exchanged a key message.                                                *)
THEOREM SuccessTellsAll == Spec => []SuccessIsComplete
<1>1. StatsInv => SuccessIsComplete
  <2> SUFFICES ASSUME StatsInv, exit = "success"
               PROVE  /\ ended = "eof" /\ errors = 0
                      /\ wantStats => \A k \in DOMAIN seen :
                           /\ seen[k].bssid \in Stations =>
                                \E i \in DOMAIN bssids : bssids[i].bssid = seen[k].bssid
                           /\ IsHandshake(seen[k]) =>
                                \E i \in DOMAIN handshakes :
                                  {handshakes[i].client, handshakes[i].bssid} = Ends(seen[k])
    BY DEF SuccessIsComplete
  <2>1. TypeOK /\ CountsAddUp /\ ~ failed /\ ~ bssidOverflow /\ ~ handshakeOverflow
        /\ ended # "no" /\ (ended = "error" => failed)
    BY DEF StatsInv
  <2>2. ended = "eof" /\ errors = 0
    BY <2>1, CapacityAssumption DEF TypeOK, CountsAddUp
  <2>3. /\ DOMAIN seen = 1..Len(seen) /\ DOMAIN bssids = 1..Len(bssids)
        /\ DOMAIN handshakes = 1..Len(handshakes)
    BY <2>1, LenProperties DEF TypeOK
  <2>4. ASSUME wantStats, NEW k \in DOMAIN seen, seen[k].bssid \in Stations
        PROVE  \E i \in DOMAIN bssids : bssids[i].bssid = seen[k].bssid
    <3>1. BssidsIn(seen) \subseteq ListedIn(bssids)
      BY <2>1, <2>4 DEF StatsInv, BssidTable
    <3>2. seen[k].bssid \in ListedIn(bssids)
      BY <2>4, <3>1 DEF BssidsIn
    <3> QED
      BY <2>3, <3>2 DEF ListedIn
  <2>5. ASSUME wantStats, NEW k \in DOMAIN seen, IsHandshake(seen[k])
        PROVE  \E i \in DOMAIN handshakes :
                 {handshakes[i].client, handshakes[i].bssid} = Ends(seen[k])
    <3>1. PICK i \in 1..Len(handshakes) :
                 handshakes[i].client = Client(seen[k]) /\ handshakes[i].bssid = seen[k].bssid
      BY <2>1, <2>3, <2>5 DEF StatsInv, HandshakeTable
    <3>2. Ends(seen[k]) = {Client(seen[k]), seen[k].bssid}
      BY <2>5, ClientIsOtherEnd
    <3> QED
      BY <2>3, <3>1, <3>2
  <2> QED
    BY <2>2, <2>4, <2>5
<1> QED
  BY <1>1, StatsInvariant, PTL
=============================================================================
