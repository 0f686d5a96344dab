---------------------------- MODULE CaptureStats ----------------------------
(***************************************************************************)
(* "airtrace parse": the loop of src/main.c that reads the records of a    *)
(* capture, parses each frame and adds it to the statistics, and the exit  *)
(* status.  The tables have a capacity; a frame about an address that does *)
(* not fit is not added and marks the summary as incomplete.               *)
(*                                                                         *)
(* The bytes of a frame are what airtrace_parse_frame makes of them: a     *)
(* record with the fields that the statistics use.                         *)
(***************************************************************************)
EXTENDS Integers, Sequences, FiniteSets, SequencesExt

CONSTANTS
  Stations,       (* the unicast addresses                                *)
  Groups,         (* the multicast addresses and zero                     *)
  Names,          (* the SSIDs that tell a name                           *)
  Zeros,          (* an SSID of NUL bytes, which tells none               *)
  Empty,          (* the SSID of length zero, which tells none            *)
  None,           (* the value of a field that a frame does not have      *)
  Codes,          (* reason codes                                         *)
  Frames,         (* the frames that can be in a capture                  *)
  MaxBssids,      (* MAX_BSSIDS                                           *)
  MaxHandshakes,  (* MAX_HANDSHAKES                                       *)
  MaxRecords      (* bound on the records of a capture                    *)

Subtypes == {"beacon", "disassoc", "deauth", "data"}
Addresses == Stations \union Groups
Ssids == Names \union {Zeros, Empty}

Frame == [subtype : Subtypes,
          reason  : Codes \union {None},          (* management only      *)
          bssid   : Addresses \union {None},
          addrs   : Addresses \X Addresses,
          ssid    : Ssids \union {None},
          channel : Nat,                          (* 0: not known         *)
          rssi    : Int \union {None},
          eapol   : 0..4]                         (* 0: no key message    *)

ASSUME FrameAssumption ==
  /\ Frames \subseteq Frame
  /\ Stations \intersect Groups = {}
  /\ None \notin Addresses \union Ssids \union Codes \union Int
  /\ Zeros # Empty /\ {Zeros, Empty} \intersect Names = {}

ASSUME CapacityAssumption ==
  MaxBssids \in Nat /\ MaxHandshakes \in Nat /\ MaxRecords \in Nat

VARIABLES
  wantStats,          (* whether --stats is given                         *)
  frames,             (* stats.frames                                     *)
  parsed,             (* stats.parsed                                     *)
  errors,             (* stats.errors                                     *)
  subtypes,           (* stats.subtypes                                   *)
  reasons,            (* stats.reasons                                    *)
  bssids,             (* stats.bssids                                     *)
  handshakes,         (* stats.handshakes                                 *)
  bssidOverflow,      (* stats.bssid_overflow                             *)
  handshakeOverflow,  (* stats.handshake_overflow                         *)
  failed,             (* result = EXIT_FAILURE, before the end            *)
  ended,              (* how the reader ended: "no", "eof" or "error"     *)
  exit,               (* "none" until main returns                        *)
  seen                (* history: the frames that were parsed, in order   *)

counters == <<frames, parsed, errors, subtypes, reasons>>
tables   == <<bssids, handshakes, bssidOverflow, handshakeOverflow>>
vars     == <<wantStats, counters, tables, failed, ended, exit, seen>>

Reasons == {"disassoc", "deauth"}

BssidStats ==
  [bssid : Stations, frames : Nat, ssid : Ssids \union {None}, channel : Nat,
   count : Nat, sum : Int, lo : Int \union {None}, hi : Int \union {None}]

HandshakeStats ==
  [client : Stations, bssid : Stations, mask : SUBSET (1..4), messages : [1..4 -> Nat]]

TypeOK ==
  /\ wantStats \in BOOLEAN
  /\ frames \in 0..MaxRecords /\ parsed \in 0..MaxRecords /\ errors \in 0..MaxRecords
  /\ subtypes \in [Subtypes -> Nat]
  /\ reasons \in [Reasons -> [Codes -> Nat]]
  /\ bssids \in Seq(BssidStats) /\ Len(bssids) <= MaxBssids
  /\ handshakes \in Seq(HandshakeStats) /\ Len(handshakes) <= MaxHandshakes
  /\ bssidOverflow \in BOOLEAN /\ handshakeOverflow \in BOOLEAN
  /\ failed \in BOOLEAN
  /\ ended \in {"no", "eof", "error"}
  /\ exit \in {"none", "success", "failure"}
  /\ seen \in Seq(Frames)

Init ==
  /\ wantStats \in BOOLEAN
  /\ frames = 0 /\ parsed = 0 /\ errors = 0
  /\ subtypes = [t \in Subtypes |-> 0]
  /\ reasons = [r \in Reasons |-> [c \in Codes |-> 0]]
  /\ bssids = <<>> /\ handshakes = <<>>
  /\ bssidOverflow = FALSE /\ handshakeOverflow = FALSE
  /\ failed = FALSE /\ ended = "no" /\ exit = "none" /\ seen = <<>>

-----------------------------------------------------------------------------
(* add_bssid *)

(* Variant: the latest SSID is kept, whatever it tells. *)
KeptSsidIsLatest(entry, f) == IF f.ssid # None THEN f.ssid ELSE entry.ssid

(* A zero length never replaces an SSID. *)
KeptSsid(entry, f) ==
  IF f.ssid # None /\ (entry.ssid = None \/ f.ssid # Empty) THEN f.ssid ELSE entry.ssid

AddSignal(entry, f) ==
  IF f.rssi = None
  THEN entry
  ELSE [entry EXCEPT
          !.count = @ + 1,
          !.sum = @ + f.rssi,
          !.lo = IF entry.count = 0 \/ f.rssi < @ THEN f.rssi ELSE @,
          !.hi = IF entry.count = 0 \/ f.rssi > @ THEN f.rssi ELSE @]

UpdatedBssid(entry, f) ==
  AddSignal([entry EXCEPT !.frames = @ + 1,
                          !.ssid = KeptSsid(entry, f),
                          !.channel = IF f.channel # 0 THEN f.channel ELSE @], f)

NewBssid(b) ==
  [bssid |-> b, frames |-> 0, ssid |-> None, channel |-> 0,
   count |-> 0, sum |-> 0, lo |-> None, hi |-> None]

BssidPlace(b) == SelectInSeq(bssids, LAMBDA entry : entry.bssid = b)

AddBssid(f) ==
  LET i == BssidPlace(f.bssid) IN
  \/ /\ f.bssid \notin Stations
     /\ UNCHANGED <<bssids, bssidOverflow>>
  \/ /\ f.bssid \in Stations /\ i # 0
     /\ bssids' = [bssids EXCEPT ![i] = UpdatedBssid(@, f)]
     /\ UNCHANGED bssidOverflow
  \/ /\ f.bssid \in Stations /\ i = 0 /\ Len(bssids) < MaxBssids
     /\ bssids' = Append(bssids, UpdatedBssid(NewBssid(f.bssid), f))
     /\ UNCHANGED bssidOverflow
  \/ /\ f.bssid \in Stations /\ i = 0 /\ Len(bssids) = MaxBssids
     /\ bssidOverflow' = TRUE
     /\ UNCHANGED bssids

-----------------------------------------------------------------------------
(* add_handshake *)

(* Variant: the client is taken to be the sender. *)
ClientIsSender(f) == f.addrs[2]

(* The client is the one of the first two addresses that is not the BSSID. *)
Client(f) ==
  IF f.addrs[1] = f.bssid THEN f.addrs[2]
  ELSE IF f.addrs[2] = f.bssid THEN f.addrs[1] ELSE None

IsHandshake(f) == f.eapol # 0 /\ f.bssid \in Stations /\ Client(f) \in Stations

(* Variant: messages count from zero. *)
MessageFromZero(f) == f.eapol - 1

(* The bit of the mask and the place in the counts, from one. *)
Message(f) == f.eapol

UpdatedHandshake(entry, f) ==
  [entry EXCEPT !.mask = @ \union {Message(f)}, !.messages[Message(f)] = @ + 1]

NewHandshake(f) ==
  [client |-> Client(f), bssid |-> f.bssid, mask |-> {}, messages |-> [m \in 1..4 |-> 0]]

HandshakePlace(client, b) ==
  SelectInSeq(handshakes, LAMBDA entry : entry.bssid = b /\ entry.client = client)

AddHandshake(f) ==
  LET i == HandshakePlace(Client(f), f.bssid) IN
  \/ /\ ~ IsHandshake(f)
     /\ UNCHANGED <<handshakes, handshakeOverflow>>
  \/ /\ IsHandshake(f) /\ i # 0
     /\ handshakes' = [handshakes EXCEPT ![i] = UpdatedHandshake(@, f)]
     /\ UNCHANGED handshakeOverflow
  \/ /\ IsHandshake(f) /\ i = 0 /\ Len(handshakes) < MaxHandshakes
     /\ handshakes' = Append(handshakes, UpdatedHandshake(NewHandshake(f), f))
     /\ UNCHANGED handshakeOverflow
  \/ /\ IsHandshake(f) /\ i = 0 /\ Len(handshakes) = MaxHandshakes
     /\ handshakeOverflow' = TRUE
     /\ UNCHANGED handshakes

-----------------------------------------------------------------------------
(* add_stats *)
AddStats(f) ==
  /\ parsed' = parsed + 1
  /\ subtypes' = [subtypes EXCEPT ![f.subtype] = @ + 1]
  /\ reasons' = IF f.subtype \in Reasons /\ f.reason # None
                THEN [reasons EXCEPT ![f.subtype][f.reason] = @ + 1]
                ELSE reasons
  /\ AddBssid(f)
  /\ AddHandshake(f)

Reading == ended = "no" /\ frames < MaxRecords

(* A record whose frame parses. *)
AcceptFrame ==
  /\ Reading
  /\ \E f \in Frames :
       /\ seen' = Append(seen, f)
       /\ \/ wantStats /\ AddStats(f)
          \/ ~ wantStats /\ UNCHANGED <<parsed, subtypes, reasons, tables>>
  /\ frames' = frames + 1
  /\ UNCHANGED <<wantStats, errors, failed, ended, exit>>

(* Variant: a rejected frame is reported and not counted. *)
RejectFrameUncounted ==
  /\ Reading
  /\ frames' = frames + 1
  /\ failed' = TRUE
  /\ UNCHANGED <<wantStats, errors, parsed, subtypes, reasons, tables, ended, exit, seen>>

(* A record whose frame the parser rejects: reading goes on. *)
RejectFrame ==
  /\ Reading
  /\ frames' = frames + 1
  /\ errors' = errors + 1
  /\ failed' = TRUE
  /\ UNCHANGED <<wantStats, parsed, subtypes, reasons, tables, ended, exit, seen>>

(* airtrace_pcap_next: the file ends between two records. *)
ReadEof ==
  /\ ended = "no" /\ ended' = "eof"
  /\ UNCHANGED <<wantStats, counters, tables, failed, exit, seen>>

(* A truncated, malformed or too large record ends the reader for good. *)
ReadFails ==
  /\ ended = "no" /\ ended' = "error"
  /\ failed' = TRUE
  /\ UNCHANGED <<wantStats, counters, tables, exit, seen>>

(* Variant: only the BSSID table can be too small. *)
ExitWithBssidOverflow ==
  /\ ended # "no" /\ exit = "none"
  /\ exit' = IF failed \/ bssidOverflow THEN "failure" ELSE "success"
  /\ UNCHANGED <<wantStats, counters, tables, failed, ended, seen>>

(* The statistics are printed and main returns; closing the capture or     *)
(* flushing the output can fail.                                           *)
Exit ==
  /\ ended # "no" /\ exit = "none"
  /\ \/ exit' = IF failed \/ bssidOverflow \/ handshakeOverflow THEN "failure" ELSE "success"
     \/ exit' = "failure"
  /\ UNCHANGED <<wantStats, counters, tables, failed, ended, seen>>

Finished == exit # "none" /\ UNCHANGED vars

Next ==
  \/ AcceptFrame \/ RejectFrame
  \/ ReadEof \/ ReadFails
  \/ Exit
  \/ Finished

Spec == Init /\ [][Next]_vars

-----------------------------------------------------------------------------
(* What the summary should say of an address, told from all the frames s   *)
(* that were parsed: the places of the frames that bear on a field.        *)

About(b, s)   == {k \in DOMAIN s : s[k].bssid = b}
Telling(b, s) == {k \in About(b, s) : s[k].ssid # None}
Naming(b, s)  == {k \in Telling(b, s) : s[k].ssid # Empty}
Tuned(b, s)   == {k \in About(b, s) : s[k].channel # 0}
Heard(b, s)   == {k \in About(b, s) : s[k].rssi # None}

IsLast(k, S) == k \in S /\ \A j \in S : j <= k

LastSsid(v, b, s) ==
  \/ \E k \in Naming(b, s) : IsLast(k, Naming(b, s)) /\ v = s[k].ssid
  \/ Naming(b, s) = {} /\ Telling(b, s) # {} /\ v = Empty
  \/ Telling(b, s) = {} /\ v = None

LastChannel(v, b, s) ==
  \/ \E k \in Tuned(b, s) : IsLast(k, Tuned(b, s)) /\ v = s[k].channel
  \/ Tuned(b, s) = {} /\ v = 0

Weakest(v, b, s) ==
  Heard(b, s) # {} =>
    /\ \E k \in Heard(b, s) : v = s[k].rssi
    /\ \A k \in Heard(b, s) : v <= s[k].rssi

Strongest(v, b, s) ==
  Heard(b, s) # {} =>
    /\ \E k \in Heard(b, s) : v = s[k].rssi
    /\ \A k \in Heard(b, s) : s[k].rssi <= v

Summarises(entry, s) ==
  LET b == entry.bssid IN
  /\ entry.frames = Cardinality(About(b, s))
  /\ LastSsid(entry.ssid, b, s)
  /\ LastChannel(entry.channel, b, s)
  /\ entry.count = Cardinality(Heard(b, s))
  /\ Weakest(entry.lo, b, s)
  /\ Strongest(entry.hi, b, s)

BssidsIn(s) == {s[k].bssid : k \in DOMAIN s} \intersect Stations

AppearsBefore(b, c, s) == \E k \in About(b, s) : \A l \in About(c, s) : k < l

(* The two stations between which a frame went. *)
Ends(f) == {f.addrs[1], f.addrs[2]}

Exchanged(client, b, m, s) ==
  {k \in DOMAIN s : /\ IsHandshake(s[k])
                    /\ s[k].bssid = b /\ Ends(s[k]) = {client, b}
                    /\ s[k].eapol = m}

(* The BSSID table holds one entry per unicast BSSID, up to its capacity,  *)
(* in the order of first appearance; each entry agrees with all frames of  *)
(* the capture about that BSSID, the ones that came while the table was    *)
(* full included: their number, the last SSID of nonzero length, the last  *)
(* known channel, and the count, minimum and maximum of the signal.        *)
BssidsMatchCapture ==
  /\ \A i, j \in DOMAIN bssids : bssids[i].bssid = bssids[j].bssid => i = j
  /\ \A i \in DOMAIN bssids : Summarises(bssids[i], seen)
  /\ \A i, j \in DOMAIN bssids : i < j => AppearsBefore(bssids[i].bssid, bssids[j].bssid, seen)
  /\ bssidOverflow <=> wantStats /\ Cardinality(BssidsIn(seen)) > MaxBssids

(* "Handshake completeness means all four message numbers were observed    *)
(* for the client/BSSID pair across the capture": the entries are those of *)
(* distinct pairs, and each counts exactly the messages between the two    *)
(* stations, in whichever direction they went.                             *)
HandshakesMatchCapture ==
  /\ \A i, j \in DOMAIN handshakes :
       handshakes[i].client = handshakes[j].client /\ handshakes[i].bssid = handshakes[j].bssid
       => i = j
  /\ \A i \in DOMAIN handshakes, m \in 1..4 :
       LET entry == handshakes[i] IN
       /\ entry.messages[m] = Cardinality(Exchanged(entry.client, entry.bssid, m, seen))
       /\ m \in entry.mask <=> entry.messages[m] > 0

Of(t, s) == {k \in DOMAIN s : s[k].subtype = t}
Giving(r, c, s) == {k \in DOMAIN s : s[k].subtype = r /\ s[k].reason = c}

(* Every record is either counted as parsed, under exactly one subtype, or *)
(* counted as an error, and the exit status tells of each error; a reason  *)
(* is counted once for every disassociation and deauthentication.          *)
CountsAddUp ==
  /\ frames = Len(seen) + errors
  /\ errors > 0 => failed
  /\ wantStats => parsed = Len(seen)
  /\ wantStats => \A t \in Subtypes : subtypes[t] = Cardinality(Of(t, seen))
  /\ wantStats => \A r \in Reasons, c \in Codes : reasons[r][c] = Cardinality(Giving(r, c, seen))

(* Exit status 0 means that the whole capture was read, that no frame was  *)
(* rejected and that nothing is missing from the summary: every unicast    *)
(* BSSID and every pair of stations that exchanged a key message is in it. *)
SuccessIsComplete ==
  exit = "success" =>
    /\ ended = "eof" /\ errors = 0
    /\ wantStats => \A k \in DOMAIN seen :
         /\ seen[k].bssid \in Stations => \E i \in DOMAIN bssids : bssids[i].bssid = seen[k].bssid
         /\ IsHandshake(seen[k]) =>
              \E i \in DOMAIN handshakes :
                {handshakes[i].client, handshakes[i].bssid} = Ends(seen[k])

(* "Retain a revealed SSID when subsequent beacons advertise a hidden      *)
(* SSID": once the name is known, the summary keeps telling a name.        *)
RevealedSsidIsRetained ==
  [][\A i \in DOMAIN bssids : bssids[i].ssid \in Names => bssids'[i].ssid \in Names]_vars
=============================================================================
