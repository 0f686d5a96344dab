--------------------------- MODULE MCCaptureStats ---------------------------
(* Values for the constants of CaptureStats: three access points and two   *)
(* clients, and tables with one place fewer than the frames can ask for.   *)
EXTENDS CaptureStats

CONSTANTS ap1, ap2, ap3, sta, sta2, broadcast, name

Plain == [subtype |-> "beacon", reason |-> None, bssid |-> ap1, addrs |-> <<broadcast, ap1>>,
          ssid |-> None, channel |-> 0, rssi |-> None, eapol |-> 0]

Beacon(b, s, c, r) ==
  [Plain EXCEPT !.bssid = b, !.addrs[2] = b, !.ssid = s, !.channel = c, !.rssi = r]

Key(from, to, b, m) ==
  [Plain EXCEPT !.subtype = "data", !.bssid = b, !.addrs = <<to, from>>, !.eapol = m]

MCStations == {ap1, ap2, ap3, sta, sta2}
MCGroups == {broadcast}
MCNames == {name}
MCCodes == {3, 8}

Advertisements ==
  {Beacon(ap1, name, 6, None), Beacon(ap1, Empty, 0, -40), Beacon(ap1, Zeros, 11, -70),
   Beacon(ap2, None, 0, None)}

Exchanges == {Key(ap1, sta, ap1, 1), Key(sta, ap1, ap1, 2), Key(ap2, sta, ap2, 1),
              Key(ap1, sta2, ap1, 1), Key(ap3, sta, ap3, 1)}

Others ==
  {[Plain EXCEPT !.subtype = "deauth", !.reason = 3],
   [Plain EXCEPT !.subtype = "disassoc", !.reason = 8, !.addrs = <<ap1, sta>>],
   [Plain EXCEPT !.subtype = "data", !.bssid = None],
   [Plain EXCEPT !.subtype = "data", !.bssid = broadcast, !.eapol = 1],
   [Plain EXCEPT !.subtype = "data", !.addrs = <<sta, broadcast>>, !.eapol = 3]}

MixedFrames == Advertisements \union Exchanges \union Others
=============================================================================
