----------------------------- MODULE NetDevices -----------------------------
(***************************************************************************)
(* The protocols that run over a network device of their own: WireGuard,   *)
(* AmneziaWG (both variants) and TAP.  Listen and Dial acquire a device,   *)
(* configure it, and open sockets on it, one step after another, any of    *)
(* which may fail; a key exchange over TCP configures the one dynamic peer *)
(* of WireGuard and AmneziaWG, and a pre-provisioned peer on an inner      *)
(* address of its own needs none (blind mode).  TAP answers to the last    *)
(* address that sent it a frame.  The inner echo server is UDPDispatch's.  *)
(*                                                                         *)
(* Sockets, TUNs and TAPs go with their descriptors; the interface of the  *)
(* kernel's WireGuard needs `ip link del`, whose failure the code ignores  *)
(* or logs.  A "garbled" client sends hexadecimal that is no key.          *)
(* MaxPings bounds the answers in flight; more are lost.                   *)
(***************************************************************************)
EXTENDS Naturals, Sequences, FiniteSets

CONSTANTS Clients, MaxPings

ASSUME NetAssumption == MaxPings \in Nat \ {0}

(* A step of Listen or Dial: what it acquires, and what the code releases *)
(* when it fails.                                                         *)
Make(r, undo) == [acquires |-> {r}, undo |-> undo]
Run(undo) == [acquires |-> {}, undo |-> undo]

(* A failing control listener leaves the inner echo server running. *)
WGListen ==
  <<Make("iface", {}), Run({"iface"}), Run({"iface"}), Run({"iface"}), Run({"iface"}),
    Run({"iface"}), Make("echo", {"iface"}), Make("ctl", {"iface"})>>
WGDial == <<Make("iface", {}), Run({"iface"}), Run({"iface"}), Run({"iface"}), Run({"iface"}),
            Make("sock", {"iface"})>>

(* The device and its first configuration are one step: making it cannot  *)
(* fail.  From then on closing it closes the TUN.                          *)
AWGListen ==
  <<Make("tun", {}), Run({"tun"}), Run({"tun"}), Make("dev", {"dev", "tun"}),
    Run({"dev", "tun"}), Run({"dev", "tun"}), Make("echo", {"dev", "tun"}),
    Make("ctl", {"dev", "tun", "echo"})>>
\* Mutant of AWGDial: a socket that cannot be opened leaves the device.
AWGDialLeaky ==
  <<Make("tun", {}), Run({"tun"}), Run({"tun"}), Make("dev", {"dev", "tun"}),
    Run({"dev", "tun"}), Make("sock", {})>>
AWGDial ==
  <<Make("tun", {}), Run({"tun"}), Run({"tun"}), Make("dev", {"dev", "tun"}),
    Run({"dev", "tun"}), Make("sock", {"dev", "tun"})>>

TapListen == <<Make("tap", {}), Run({"tap"}), Run({"tap"}), Make("relay", {"tap"}),
               Make("echo", {"tap", "relay"})>>
TapDial == <<Make("tap", {}), Run({"tap"}), Run({"tap"}), Make("relay", {"tap"}),
             Make("sock", {"tap", "relay"})>>

Listen(k) == CASE k = "wireguard" -> WGListen [] k = "amnezia" -> AWGListen [] k = "tap" -> TapListen
DialSteps(k) == CASE k = "wireguard" -> WGDial [] k = "amnezia" -> AWGDial [] k = "tap" -> TapDial

-----------------------------------------------------------------------------
VARIABLES
  kind, role,           \* chosen at the start: protocol; each client's manner
  srv, lpc, sheld,      \* server: state, place in Listen, what it holds
  peers, owner, prev,   \* device: its peers, whose ClientIP is, s.prevPeer
  relay,                \* TAP: s.clientRelay
  x, cst, cpc, cheld,   \* client: key exchange, state, place in Dial, what it holds
  pings, echoes, got,   \* datagrams to the server and answers in its device; answered?
  stuck, halted         \* ends whose `ip link del` failed; TAP relays that returned

rigid == <<kind, role>>
device == <<peers, owner, prev, relay>>
clients == <<x, cst, cpc, cheld, got>>
inner == <<pings, echoes>>
failures == <<stuck, halted>>
state == <<srv, lpc, sheld, device, clients, inner, failures>>
vars == <<rigid, state>>

Static == "static"
None == "none"
Server == "server"
ASSUME NameAssumption == {Static, None, Server} \cap Clients = {}
Resources == {"iface", "tun", "dev", "tap", "relay", "echo", "ctl", "sock"}
Ends == Clients \cup {Server}

TypeOK ==
  /\ kind \in {"wireguard", "amnezia", "tap"} /\ role \in [Clients -> {"keyed", "blind", "garbled"}]
  /\ srv \in {"starting", "up", "failed", "closed"} /\ lpc \in 1 .. 8 /\ sheld \subseteq Resources
  /\ peers \subseteq Clients \cup {Static} /\ {owner, prev, relay} \subseteq Clients \cup {None}
  /\ x \in [Clients -> {"none", "sent", "answered", "refused"}]
  /\ cst \in [Clients -> {"idle", "exchange", "dialing", "up", "failed", "closed"}]
  /\ cpc \in [Clients -> 1 .. 6] /\ cheld \in [Clients -> SUBSET Resources]
  /\ got \in [Clients -> BOOLEAN]
  /\ pings \subseteq Clients /\ echoes \in Seq(Clients) /\ Len(echoes) <= MaxPings
  /\ stuck \subseteq Ends /\ halted \subseteq Ends \X {"in", "out"}

Init ==
  /\ kind \in {"wireguard", "amnezia", "tap"} /\ role \in [Clients -> {"keyed", "blind", "garbled"}]
  /\ kind = "tap" => \A c \in Clients : role[c] = "keyed"
  /\ \A c, d \in Clients : role[c] = "blind" /\ role[d] = "blind" => c = d
  /\ srv = "starting" /\ lpc = 1 /\ sheld = {}
  /\ peers = {} /\ owner = None /\ prev = None /\ relay = None
  /\ x = [c \in Clients |-> "none"] /\ cst = [c \in Clients |-> "idle"]
  /\ cpc = [c \in Clients |-> 1] /\ cheld = [c \in Clients |-> {}]
  /\ got = [c \in Clients |-> FALSE]
  /\ pings = {} /\ echoes = << >>
  /\ stuck = {} /\ halted = {}

(* What may stay of what is released: the interface ip(8) does not delete. *)
Stays(held, undo) == SUBSET (held \cap undo \cap {"iface"})
Remember(w, kept) == stuck' = (IF kept = {} THEN stuck ELSE stuck \cup {w})

-----------------------------------------------------------------------------
(* The server. *)

(* The static peer is one of the steps after the device, before the end. *)
ListenStep ==
  /\ srv = "starting"
  /\ LET step == Listen(kind)[lpc]
         last == lpc = Len(Listen(kind)) IN
     \/ /\ sheld' = sheld \cup step.acquires
        /\ srv' = (IF last THEN "up" ELSE "starting")
        /\ lpc' = (IF last THEN lpc ELSE lpc + 1)
        /\ peers' = IF kind # "tap" /\ last THEN {Static} ELSE {}
        /\ UNCHANGED stuck
     \/ /\ \E kept \in Stays(sheld, step.undo) :
             sheld' = (sheld \ step.undo) \cup kept /\ Remember(Server, kept)
        /\ srv' = "failed" /\ peers' = {}
        /\ UNCHANGED lpc
  /\ UNCHANGED <<owner, prev, relay, clients, inner, halted>>

(* What configuring the device may come to: it may be gone by now. *)
Tried == IF {"iface", "dev"} \cap sheld = {} THEN {FALSE} ELSE BOOLEAN

\* Mutant of AcceptClient: the previous peer is never removed.
AcceptClientKeeping(c) ==
  /\ x[c] = "sent" /\ srv \in {"up", "closed"}
  /\ \E works \in Tried :
       IF works /\ role[c] # "garbled"
       THEN /\ peers' = peers \cup {c} /\ owner' = c /\ prev' = c
            /\ x' = [x EXCEPT ![c] = "answered"]
       ELSE x' = [x EXCEPT ![c] = "refused"] /\ UNCHANGED <<peers, owner, prev>>
  /\ UNCHANGED <<srv, lpc, sheld, relay, cst, cpc, cheld, got, inner, failures>>

(* acceptClient, whole under peerMu: the previous client's peer is removed *)
(* (WireGuard ignores a failure, AmneziaWG ends there), the new one set on *)
(* ClientIP, which takes the address from whoever had it, and remembered.  *)
(* The client may have gone; its peer is set all the same.  The server's    *)
(* Close does not wait for an exchange under way.                          *)
AcceptClient(c) ==
  /\ x[c] = "sent" /\ srv \in {"up", "closed"}
  /\ \E removes, works \in Tried :
       LET left == IF prev # None /\ removes THEN peers \ {prev} ELSE peers
           held == IF prev # None /\ removes /\ owner = prev THEN None ELSE owner IN
       IF kind = "amnezia" /\ prev # None /\ ~removes
       THEN x' = [x EXCEPT ![c] = "refused"] /\ UNCHANGED <<peers, owner, prev>>
       ELSE IF works /\ role[c] # "garbled"
       THEN /\ peers' = left \cup {c} /\ owner' = c /\ prev' = c
            /\ x' = [x EXCEPT ![c] = "answered"]
       ELSE /\ peers' = left /\ owner' = held /\ UNCHANGED prev
            /\ x' = [x EXCEPT ![c] = "refused"]
  /\ UNCHANGED <<srv, lpc, sheld, relay, cst, cpc, cheld, got, inner, failures>>

(* The listener, the echo server and the device go, in that order; a device *)
(* that goes takes its peers along.                                        *)
CloseServer ==
  /\ srv = "up" /\ srv' = "closed"
  /\ \E kept \in Stays(sheld, Resources) :
       /\ sheld' = kept /\ Remember(Server, kept)
       /\ IF kept = {} THEN peers' = {} /\ owner' = None ELSE UNCHANGED <<peers, owner>>
  /\ relay' = None /\ pings' = {} /\ echoes' = << >>
  /\ UNCHANGED <<lpc, prev, clients, halted>>

-----------------------------------------------------------------------------
(* The client. *)

StartDial(c) ==
  /\ cst[c] = "idle"
  /\ IF kind # "tap" /\ role[c] # "blind"
     THEN IF srv = "up" THEN /\ cst' = [cst EXCEPT ![c] = "exchange"]
                             /\ x' = [x EXCEPT ![c] = "sent"]
                        ELSE cst' = [cst EXCEPT ![c] = "failed"] /\ UNCHANGED x
     ELSE cst' = [cst EXCEPT ![c] = "dialing"] /\ UNCHANGED x
  /\ UNCHANGED <<srv, lpc, sheld, device, cpc, cheld, got, inner, failures>>

(* The server's information, or its connection closed without it. *)
Exchanged(c) ==
  /\ cst[c] = "exchange" /\ x[c] \in {"answered", "refused"}
  /\ cst' = [cst EXCEPT ![c] = IF x[c] = "answered" THEN "dialing" ELSE "failed"]
  /\ UNCHANGED <<srv, lpc, sheld, device, x, cpc, cheld, got, inner, failures>>

(* wgControlTimeout, with the server's goroutine still to come. *)
GiveUp(c) ==
  /\ cst[c] = "exchange" /\ cst' = [cst EXCEPT ![c] = "failed"]
  /\ UNCHANGED <<srv, lpc, sheld, device, x, cpc, cheld, got, inner, failures>>

DialStep(c) ==
  /\ cst[c] = "dialing"
  /\ LET step == DialSteps(kind)[cpc[c]]
         last == cpc[c] = Len(DialSteps(kind)) IN
     \/ /\ cheld' = [cheld EXCEPT ![c] = @ \cup step.acquires]
        /\ cst' = [cst EXCEPT ![c] = IF last THEN "up" ELSE @]
        /\ cpc' = [cpc EXCEPT ![c] = IF last THEN @ ELSE @ + 1]
        /\ UNCHANGED stuck
     \/ /\ \E kept \in Stays(cheld[c], step.undo) :
             cheld' = [cheld EXCEPT ![c] = (@ \ step.undo) \cup kept] /\ Remember(c, kept)
        /\ cst' = [cst EXCEPT ![c] = "failed"]
        /\ UNCHANGED cpc
  /\ UNCHANGED <<srv, lpc, sheld, device, x, got, inner, halted>>

(* What it sent stays under way. *)
CloseClient(c) ==
  /\ cst[c] = "up" /\ cst' = [cst EXCEPT ![c] = "closed"]
  /\ \E kept \in Stays(cheld[c], Resources) :
       cheld' = [cheld EXCEPT ![c] = kept] /\ Remember(c, kept)
  /\ UNCHANGED <<srv, lpc, sheld, device, x, cpc, got, inner, halted>>

(* A datagram for the tunnel, which the relay of a TAP has to take out. *)
Ping(c) ==
  /\ cst[c] = "up" /\ ~got[c] /\ c \notin pings /\ <<c, "out">> \notin halted
  /\ pings' = pings \cup {c}
  /\ UNCHANGED <<srv, lpc, sheld, device, clients, echoes, failures>>

-----------------------------------------------------------------------------
(* The devices. *)

(* A relay goroutine of a TAP returns at its first error, ECONNREFUSED from *)
(* a server that is not there among them; the tunnel is not told.           *)
RelayReturns(w) ==
  /\ "relay" \in (IF w = Server THEN sheld ELSE cheld[w])
  /\ \E d \in {"in", "out"} : halted' = halted \cup {<<w, d>>}
  /\ UNCHANGED <<srv, lpc, sheld, device, clients, inner, stuck>>

(* WireGuard takes a datagram from a peer whose inner address it comes from. *)
Taken(c) == CASE kind = "tap" -> TRUE
              [] role[c] = "blind" -> Static \in peers
              [] OTHER -> c \in peers /\ owner = c

\* Mutant of Inbound: the relay learns the first client's address only.
InboundFirst(c) ==
  /\ c \in pings /\ srv = "up" /\ <<Server, "in">> \notin halted
  /\ pings' = pings \ {c}
  /\ relay' = (IF kind = "tap" /\ relay = None THEN c ELSE relay)
  /\ echoes' = (IF Taken(c) /\ Len(echoes) < MaxPings THEN Append(echoes, c) ELSE echoes)
  /\ UNCHANGED <<srv, lpc, sheld, peers, owner, prev, clients, failures>>

(* relayUDPToTap, or the device's receive path: up to the echo server, whose *)
(* answer enters the device again.                                           *)
Inbound(c) ==
  /\ c \in pings /\ srv = "up" /\ <<Server, "in">> \notin halted
  /\ pings' = pings \ {c}
  /\ relay' = (IF kind = "tap" THEN c ELSE relay)
  /\ echoes' = (IF Taken(c) /\ Len(echoes) < MaxPings THEN Append(echoes, c) ELSE echoes)
  /\ UNCHANGED <<srv, lpc, sheld, peers, owner, prev, clients, failures>>

(* relayTapToUDP, or the device's send path: to whom the address leads now. *)
RouteTo(c) == CASE kind = "tap" -> relay
                [] role[c] = "blind" -> (IF Static \in peers THEN c ELSE None)
                [] OTHER -> owner
Outbound ==
  /\ echoes # << >> /\ srv = "up" /\ <<Server, "out">> \notin halted
  /\ echoes' = Tail(echoes)
  /\ LET c == Head(echoes) IN
     got' = [got EXCEPT ![c] = @ \/ (RouteTo(c) = c /\ cst[c] = "up" /\ <<c, "in">> \notin halted)]
  /\ UNCHANGED <<srv, lpc, sheld, device, x, cst, cpc, cheld, pings, failures>>

Next ==
  /\ \/ ListenStep \/ CloseServer \/ Outbound
     \/ \E c \in Clients : \/ AcceptClient(c) \/ StartDial(c) \/ Exchanged(c) \/ GiveUp(c)
                           \/ DialStep(c) \/ CloseClient(c) \/ Ping(c) \/ Inbound(c)
     \/ \E w \in Ends : RelayReturns(w)
  /\ UNCHANGED rigid

(* Goroutines run and the network carries a datagram sent often enough;     *)
(* nothing obliges a relay to fail.                                         *)
Spec ==
  /\ Init /\ [][Next]_vars /\ WF_state(Outbound)
  /\ \A c \in Clients : WF_state(Ping(c)) /\ WF_state(Inbound(c))

-----------------------------------------------------------------------------
(* Properties. *)

(* A Listen or Dial that fails at any of its steps, and a Close, leave no   *)
(* device and no socket, but for the interface that `ip link del` would not *)
(* delete, and for WireGuard's inner echo server when the control listener  *)
(* is what fails.                                                           *)
Undeleted(w) == IF w \in stuck THEN {"iface"} ELSE {}
NothingLeft ==
  /\ srv = "failed" => sheld \subseteq Undeleted(Server) \cup (IF kind = "wireguard" THEN {"echo"} ELSE {})
  /\ srv = "closed" => sheld \subseteq Undeleted(Server)
  /\ \A c \in Clients : cst[c] \in {"failed", "closed"} => cheld[c] \subseteq Undeleted(c)
  /\ stuck # {} => kind = "wireguard"

(* Whatever the exchanges and their failures, the well-known peer stays and *)
(* AmneziaWG has one dynamic peer at most, the remembered one, which alone  *)
(* has ClientIP; a WireGuard peer that could not be removed has no address. *)
OneDynamicPeer ==
  /\ srv = "up" /\ kind # "tap" => Static \in peers
  /\ owner # None => owner = prev /\ owner \in peers
  /\ kind = "amnezia" => peers \subseteq {Static, prev}

(* The exchange of another client was refused after its own, which took the *)
(* peer of this one away and put none in its place: acceptClient removes    *)
(* before it adds, and returns.                                             *)
Displaced(c) ==
  /\ prev = c /\ owner = None /\ c \notin peers
  /\ \E d \in Clients \ {c} : x[d] = "refused"

(* A client that stays up, with nobody else up or in the middle of a dial,  *)
(* is answered, whoever was served before it: over a TAP as long as neither *)
(* end's relays return; over WireGuard and AmneziaWG a blind one always,    *)
(* and the one with the last exchange that worked unless a later one that   *)
(* was refused displaced it, which leaves it unanswered until it dials anew. *)
NewestServed ==
  \A c \in Clients :
    (<>[](/\ cst[c] = "up" /\ srv = "up"
          /\ \A d \in Clients \ {c} : cst[d] \in {"idle", "failed", "closed"}
          /\ \A d \in {"in", "out"} : {<<c, d>>, <<Server, d>>} \cap halted = {})
      /\ <>[](role[c] = "blind" \/ kind = "tap" \/ prev = c))
    => \/ <>got[c]
       \/ kind # "tap" /\ role[c] = "keyed" /\ <>[]Displaced(c)
=============================================================================
