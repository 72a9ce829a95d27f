----------------------------- MODULE HelloQuota -----------------------------
(* The Relay's limits for one source address (relay/quota.go) and the part of a
   connection's life that uses them (server.go serveConn): a device's hello is
   counted and checked under the Limiter's mutex, the device is registered at the
   Hub, and only then is the connection counted.

   A minute is Minute ticks.  Left out: other addresses, whose counters are
   separate, and what a connection does between its frames (modules RelayHub and
   Outbox). *)
EXTENDS Naturals, FiniteSets

CONSTANTS Conn,           \* connections from this address
          Size,           \* sizes of frames
          Minute,         \* a minute, in ticks
          MaxDevices,     \* MaxDeviceConnsPerIP
          HelloPerMinute,
          BytesPerMinute,
          LastTick        \* bound: time

QuotaAssumption ==
  /\ IsFiniteSet(Conn)
  /\ Minute \in Nat \ {0} /\ LastTick \in Nat
  /\ {MaxDevices, HelloPerMinute, BytesPerMinute} \subseteq Nat \ {0}
  /\ Size \subseteq Nat \ {0}

VARIABLES
  clock,
  hellos,   \* ipStat.hellos: who said hello, and when
  devices,  \* ipStat.devices
  bytes,    \* ipStat.bytes
  window,   \* ipStat.window, Unset before the first frame
  helloConn, \* what serveConn does with each connection
  reading,  \* connections whose inbox still reads
  passed,   \* history: hellos that passed the check, and when
  beside    \* history: who was being registered when the last one passed

quotaVars == <<clock, hellos, devices, bytes, window, helloConn, reading, passed, beside>>

Ticks == 0..LastTick
Unset == LastTick + 1

In(state) == {c \in Conn : helloConn[c] = state}

QuotaTypeOK ==
  /\ clock \in Ticks
  /\ hellos \subseteq Conn \X Ticks /\ passed \subseteq hellos \cup (Conn \X Ticks)
  /\ devices \in 0..Cardinality(Conn)
  /\ bytes \in Nat /\ window \in Ticks \cup {Unset}
  /\ helloConn \in [Conn -> {"new", "registering", "up", "over"}]
  /\ reading \subseteq Conn \ In("over") /\ beside \subseteq Conn

QuotaInit ==
  /\ clock = 0 /\ hellos = {} /\ devices = 0 /\ bytes = 0 /\ window = Unset /\ reading = Conn
  /\ helloConn = [c \in Conn |-> "new"] /\ passed = {} /\ beside = {}

ClockTicks ==
  /\ clock < LastTick /\ clock' = clock + 1
  /\ UNCHANGED <<hellos, devices, bytes, window, helloConn, reading, passed, beside>>

(* Hellos after the cut; one exactly a minute old is dropped. *)
WithinMinute == {h \in hellos : h[2] + Minute > clock}

(* serveConn returns. *)
Returns(c) == helloConn' = [helloConn EXCEPT ![c] = "over"] /\ reading' = reading \ {c}

AllowHelloOfAny(c) ==
  LET heard == WithinMinute \cup {<<c, clock>>}
      allowed == Cardinality(heard) <= HelloPerMinute
  IN /\ helloConn[c] = "new"
     /\ hellos' = heard
     /\ IF allowed
        THEN /\ helloConn' = [helloConn EXCEPT ![c] = "registering"]
             /\ passed' = passed \cup {<<c, clock>>}
             /\ beside' = In("registering") \cup {c}
             /\ UNCHANGED reading
        ELSE Returns(c) /\ UNCHANGED <<passed, beside>>
     /\ UNCHANGED <<clock, devices, bytes, window>>

(* AllowDeviceHello: a hello counts whether or not it is let through. *)
AllowDeviceHello(c) ==
  LET heard == WithinMinute \cup {<<c, clock>>}
      allowed == Cardinality(heard) <= HelloPerMinute /\ devices < MaxDevices
  IN /\ helloConn[c] = "new"
     /\ hellos' = heard
     /\ IF allowed
        THEN /\ helloConn' = [helloConn EXCEPT ![c] = "registering"]
             /\ passed' = passed \cup {<<c, clock>>}
             /\ beside' = In("registering") \cup {c}
             /\ UNCHANGED reading
        ELSE Returns(c) /\ UNCHANGED <<passed, beside>>
     /\ UNCHANGED <<clock, devices, bytes, window>>

(* OnDeviceUp, once the Hub has registered the device; the Hub may refuse, and
   does for a connection that was shut down. *)
Register(c) ==
  /\ helloConn[c] = "registering"
  /\ \/ /\ c \in reading /\ devices' = devices + 1
        /\ helloConn' = [helloConn EXCEPT ![c] = "up"] /\ UNCHANGED reading
     \/ Returns(c) /\ UNCHANGED devices
  /\ UNCHANGED <<clock, hellos, bytes, window, passed, beside>>

(* Whatever ends the connection, the deferred OnDeviceDown runs. *)
Disconnects(c) ==
  /\ helloConn[c] = "up" /\ Returns(c)
  /\ devices' = IF devices > 0 THEN devices - 1 ELSE devices
  /\ UNCHANGED <<clock, hellos, bytes, window, passed, beside>>

(* AddBytes, for each frame its inbox reads, even before the hello is answered:
   a window starts with the first frame a minute after the last one started, and
   a frame beyond the limit shuts its connection down. *)
AddBytes(c, size) ==
  LET fresh == window = Unset \/ clock >= window + Minute
      total == (IF fresh THEN 0 ELSE bytes) + size
  IN /\ c \in reading
     /\ window' = IF fresh THEN clock ELSE window
     /\ bytes' = total
     /\ reading' = IF total > BytesPerMinute THEN reading \ {c} ELSE reading
     /\ UNCHANGED <<clock, hellos, devices, helloConn, passed, beside>>

QuotaNext ==
  \/ ClockTicks
  \/ \E c \in Conn : AllowDeviceHello(c) \/ Register(c) \/ Disconnects(c)
  \/ \E c \in Conn, size \in Size : AddBytes(c, size)

QuotaSpec == QuotaInit /\ [][QuotaNext]_quotaVars

(***************************************************************************)
(* Properties                                                              *)
(***************************************************************************)

(* In no minute, wherever it starts, does the address get more hellos past the
   check than HelloPerMinute (the slice of times AllowDeviceHello keeps). *)
RateKept ==
  \A t \in Ticks :
    Cardinality({h \in passed : h[2] \in t..(t + Minute - 1)}) <= HelloPerMinute

(* The check is made before the connection is counted, so the limit is not hard;
   but every connection up beyond it was being registered when the last one
   passed: hellos that come one after the other never exceed it. *)
CeilingKept == devices < MaxDevices + Cardinality(beside \cap In("up"))

(* The counter is the number of connections that are up, through refusals,
   replacements and connections ended by their own traffic: one never counted
   down would refuse the address for ever.  It is above the limit only by hellos
   that were checked while others were being registered. *)
QuotaInv ==
  /\ QuotaTypeOK
  /\ devices = Cardinality(In("up"))
  /\ CeilingKept
  /\ RateKept

=============================================================================
