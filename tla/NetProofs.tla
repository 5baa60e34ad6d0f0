------------------------------ MODULE NetProofs ------------------------------
(***************************************************************************)
(* Proofs about NetDevices, for any set of clients and any bound on the    *)
(* datagrams in flight.                                                    *)
(***************************************************************************)
EXTENDS NetDevices, TLAPS

-----------------------------------------------------------------------------
(* The peers of a device. *)

PeerNames == peers \subseteq Clients \cup {Static} /\ prev \in Clients \cup {None}

PInv ==
  /\ PeerNames /\ OneDynamicPeer
  /\ srv = "starting" => owner = None

LEMMA PInit == Init => PInv
BY DEF Init, PInv, PeerNames, OneDynamicPeer, None

LEMMA ListenPeers == PInv /\ ListenStep /\ UNCHANGED rigid => PInv'
<1> SUFFICES ASSUME PInv, ListenStep, UNCHANGED rigid PROVE PInv'
  OBVIOUS
<1>1. /\ peers' \in {{}, {Static}} /\ owner' = None /\ prev' = prev /\ kind' = kind
      /\ srv' # "up" \/ kind = "tap" \/ Static \in peers'
  BY DEF ListenStep, PInv, rigid
<1> QED BY <1>1 DEF PInv, PeerNames, OneDynamicPeer

(* What a key exchange does to the peers: nothing, or the previous client's *)
(* leaves, and then the new one's may come.                                *)
LEMMA AcceptPeers ==
  ASSUME PInv, NEW c \in Clients, AcceptClient(c), UNCHANGED rigid
  PROVE  PInv'
<1> USE NameAssumption DEF PInv
<1>1. srv # "starting" /\ srv' = srv /\ kind' = kind
  BY DEF AcceptClient, rigid
<1>2. PICK removes, works \in Tried :
        LET left == IF prev # None /\ removes THEN peers \ {prev} ELSE peers
            held == IF prev # None /\ removes /\ owner = prev THEN None ELSE owner IN
        IF kind = "amnezia" /\ prev # None /\ ~removes
        THEN x' = [x EXCEPT ![c] = "refused"] /\ UNCHANGED <<peers, owner, prev>>
        ELSE IF works /\ role[c] # "garbled"
        THEN /\ peers' = left \cup {c} /\ owner' = c /\ prev' = c
             /\ x' = [x EXCEPT ![c] = "answered"]
        ELSE /\ peers' = left /\ owner' = held /\ UNCHANGED prev
             /\ x' = [x EXCEPT ![c] = "refused"]
  BY Zenon DEF AcceptClient
<1>3. CASE kind = "amnezia" /\ prev # None /\ ~removes
  <2>1. peers' = peers /\ owner' = owner /\ prev' = prev
    BY <1>2, <1>3
  <2> QED BY <1>1, <2>1 DEF PeerNames, OneDynamicPeer
<1> DEFINE left == IF prev # None /\ removes THEN peers \ {prev} ELSE peers
           held == IF prev # None /\ removes /\ owner = prev THEN None ELSE owner
<1>4. ASSUME ~(kind = "amnezia" /\ prev # None /\ ~removes)
      PROVE  /\ left \subseteq peers /\ (Static \in peers => Static \in left)
             /\ held # None => held = prev /\ held \in left
             /\ kind = "amnezia" => left \subseteq {Static}
  BY <1>4 DEF PeerNames, OneDynamicPeer, Static, None
<1>5. CASE ~(kind = "amnezia" /\ prev # None /\ ~removes) /\ works /\ role[c] # "garbled"
  <2>1. peers' = left \cup {c} /\ owner' = c /\ prev' = c
    BY <1>2, <1>5
  <2> HIDE DEF left, held
  <2> QED BY <1>1, <1>4, <1>5, <2>1 DEF PeerNames, OneDynamicPeer
<1>6. CASE ~(kind = "amnezia" /\ prev # None /\ ~removes) /\ ~(works /\ role[c] # "garbled")
  <2>1. peers' = left /\ owner' = held /\ prev' = prev
    BY <1>2, <1>6
  <2> HIDE DEF left, held
  <2> QED BY <1>1, <1>4, <1>6, <2>1 DEF PeerNames, OneDynamicPeer
<1> QED BY <1>3, <1>5, <1>6

LEMMA PNext == PInv /\ [Next]_vars => PInv'
<1> SUFFICES ASSUME PInv, [Next]_vars PROVE PInv'
  OBVIOUS
<1>1. ASSUME CloseServer, UNCHANGED rigid PROVE PInv'
  <2>1. srv' = "closed" /\ prev' = prev /\ kind' = kind
    BY <1>1 DEF CloseServer, rigid
  <2>2. (peers' = {} /\ owner' = None) \/ (peers' = peers /\ owner' = owner)
    BY <1>1 DEF CloseServer
  <2> QED BY <2>1, <2>2 DEF PInv, PeerNames, OneDynamicPeer
<1>2. ASSUME \/ Outbound
             \/ \E c \in Clients : \/ StartDial(c) \/ Exchanged(c) \/ GiveUp(c) \/ DialStep(c)
                                   \/ CloseClient(c) \/ Ping(c) \/ Inbound(c)
             \/ \E w \in Ends : RelayReturns(w)
             \/ UNCHANGED vars
      PROVE  UNCHANGED <<srv, peers, owner, prev>>
  BY <1>2 DEF Outbound, StartDial, Exchanged, GiveUp, DialStep, CloseClient, Ping, Inbound,
              RelayReturns, vars, state, device
<1>3. kind' = kind
  BY DEF Next, vars, rigid
<1>4. ASSUME UNCHANGED <<srv, peers, owner, prev>> PROVE PInv'
  BY <1>3, <1>4 DEF PInv, PeerNames, OneDynamicPeer
<1>5. CASE UNCHANGED vars
  BY <1>2, <1>4, <1>5
<1>6. CASE Next
  <2>1. UNCHANGED rigid
    BY <1>6 DEF Next
  <2>2. CASE ListenStep
    BY <2>1, <2>2, ListenPeers
  <2>3. CASE CloseServer
    BY <1>1, <2>1, <2>3
  <2>4. CASE Outbound
    BY <1>2, <1>4, <2>4
  <2>5. CASE \E c \in Clients : AcceptClient(c)
    BY <2>1, <2>5, AcceptPeers
  <2>6. CASE \E c \in Clients : \/ StartDial(c) \/ Exchanged(c) \/ GiveUp(c) \/ DialStep(c)
                                \/ CloseClient(c) \/ Ping(c) \/ Inbound(c)
    BY <1>2, <1>4, <2>6
  <2>7. CASE \E w \in Ends : RelayReturns(w)
    BY <1>2, <1>4, <2>7
  <2> QED BY <1>6, <2>2, <2>3, <2>4, <2>5, <2>6, <2>7 DEF Next
<1> QED BY <1>5, <1>6

(* wireguard.go and amneziawg.go, acceptClient and Close: key exchanges in  *)
(* any order and number, failed or not, leave the well-known peer and one   *)
(* dynamic peer, the remembered one, with the address.                      *)
THEOREM PeersKept == Spec => []OneDynamicPeer
<1>1. PInv => OneDynamicPeer
  BY DEF PInv
<1> QED BY PInit, PNext, <1>1, PTL DEF Spec

-----------------------------------------------------------------------------
(* What is left behind. *)

(* What a server may leave: WireGuard's inner echo server. *)
Leak(k) == IF k = "wireguard" THEN {"echo"} ELSE {}
Kinds == {"wireguard", "amnezia", "tap"}

(* A step that fails undoes all that the steps before it acquired. *)
LEMMA ListenUndoes ==
  ASSUME NEW k \in Kinds, NEW n \in 1 .. Len(Listen(k)), NEW i \in 1 .. (n - 1)
  PROVE  Listen(k)[i].acquires \subseteq Listen(k)[n].undo \cup Leak(k)
<1>1. CASE k = "wireguard"
  BY <1>1, SMTT(60) DEF Listen, WGListen, Make, Run, Leak
<1>2. CASE k = "amnezia"
  BY <1>2, SMTT(60) DEF Listen, AWGListen, Make, Run, Leak
<1>3. CASE k = "tap"
  BY <1>3, SMTT(60) DEF Listen, TapListen, Make, Run, Leak
<1> QED BY <1>1, <1>2, <1>3 DEF Kinds

LEMMA DialUndoes ==
  ASSUME NEW k \in Kinds, NEW n \in 1 .. Len(DialSteps(k)), NEW i \in 1 .. (n - 1)
  PROVE  DialSteps(k)[i].acquires \subseteq DialSteps(k)[n].undo
<1>1. CASE k = "wireguard"
  BY <1>1, SMTT(60) DEF DialSteps, WGDial, Make, Run
<1>2. CASE k = "amnezia"
  BY <1>2, SMTT(60) DEF DialSteps, AWGDial, Make, Run
<1>3. CASE k = "tap"
  BY <1>3, SMTT(60) DEF DialSteps, TapDial, Make, Run
<1> QED BY <1>1, <1>2, <1>3 DEF Kinds

(* Only WireGuard has an interface to delete. *)
LEMMA Interfaces ==
  ASSUME NEW k \in Kinds, k # "wireguard"
  PROVE  /\ \A n \in 1 .. Len(Listen(k)) : "iface" \notin Listen(k)[n].acquires
         /\ \A n \in 1 .. Len(DialSteps(k)) : "iface" \notin DialSteps(k)[n].acquires
<1>1. CASE k = "amnezia"
  BY <1>1, SMTT(60) DEF Listen, DialSteps, AWGListen, AWGDial, Make, Run
<1>2. CASE k = "tap"
  BY <1>2, SMTT(60) DEF Listen, DialSteps, TapListen, TapDial, Make, Run
<1> QED BY <1>1, <1>2 DEF Kinds

(* Listen under way holds what its steps so far acquired; ended, what it    *)
(* may leak and what could not be deleted; and the same of every Dial.      *)
ServerHeld ==
  /\ lpc \in 1 .. Len(Listen(kind))
  /\ srv = "starting" => \A r \in sheld : \E i \in 1 .. (lpc - 1) : r \in Listen(kind)[i].acquires
  /\ srv = "failed" => sheld \subseteq Undeleted(Server) \cup Leak(kind)
  /\ srv = "closed" => sheld \subseteq Undeleted(Server)
  /\ "iface" \in sheld => kind = "wireguard"

ClientHeld(c) ==
  /\ cpc[c] \in 1 .. Len(DialSteps(kind))
  /\ cst[c] \in {"idle", "exchange"} => cheld[c] = {}
  /\ cst[c] = "dialing" =>
       \A r \in cheld[c] : \E i \in 1 .. (cpc[c] - 1) : r \in DialSteps(kind)[i].acquires
  /\ cst[c] \in {"failed", "closed"} => cheld[c] \subseteq Undeleted(c)
  /\ "iface" \in cheld[c] => kind = "wireguard"

HeldInv ==
  /\ kind \in Kinds
  /\ stuck # {} => kind = "wireguard"
  /\ DOMAIN cst = Clients /\ DOMAIN cpc = Clients /\ DOMAIN cheld = Clients
  /\ ServerHeld /\ \A c \in Clients : ClientHeld(c)

LEMMA Lengths ==
  ASSUME NEW k \in Kinds
  PROVE  Len(Listen(k)) \in Nat \ {0} /\ Len(DialSteps(k)) \in Nat \ {0}
BY DEF Kinds, Listen, DialSteps, WGListen, AWGListen, TapListen, WGDial, AWGDial, TapDial

LEMMA HeldInit == Init => HeldInv
<1> SUFFICES ASSUME Init PROVE HeldInv
  OBVIOUS
<1>1. kind \in Kinds
  BY DEF Init, Kinds
<1>2. 1 \in 1 .. Len(Listen(kind)) /\ 1 \in 1 .. Len(DialSteps(kind))
  BY <1>1, Lengths
<1> QED BY <1>1, <1>2 DEF Init, HeldInv, ServerHeld, ClientHeld

LEMMA ListenHeld ==
  ASSUME HeldInv, ListenStep, UNCHANGED kind
  PROVE  ServerHeld' /\ (stuck' # {} => kind = "wireguard") /\ stuck \subseteq stuck'
<1> DEFINE now == Listen(kind)[lpc]
           last == lpc = Len(Listen(kind))
<1> USE DEF HeldInv
<1>1. lpc \in 1 .. Len(Listen(kind)) /\ Len(Listen(kind)) \in Nat
  BY Lengths DEF ServerHeld
<1>2. CASE /\ sheld' = sheld \cup now.acquires
           /\ srv' = (IF last THEN "up" ELSE "starting")
           /\ lpc' = (IF last THEN lpc ELSE lpc + 1)
           /\ UNCHANGED stuck
  <2>1. lpc' \in 1 .. Len(Listen(kind))
    BY <1>1, <1>2
  <2>2. ASSUME ~last, NEW r \in sheld'
        PROVE  \E i \in 1 .. (lpc' - 1) : r \in Listen(kind)[i].acquires
    <3>1. lpc' = lpc + 1
      BY <1>2, <2>2
    <3>2. CASE r \in sheld
      <4>1. PICK i \in 1 .. (lpc - 1) : r \in Listen(kind)[i].acquires
        BY <3>2 DEF ServerHeld, ListenStep
      <4>2. i \in 1 .. (lpc' - 1)
        BY <1>1, <3>1
      <4> QED BY <4>1, <4>2
    <3>3. CASE r \in now.acquires
      <4>1. lpc \in 1 .. (lpc' - 1)
        BY <1>1, <3>1
      <4> QED BY <3>3, <4>1
    <3> QED BY <1>2, <2>2, <3>2, <3>3
  <2>3. "iface" \in sheld' => kind = "wireguard"
    BY <1>1, <1>2, Interfaces DEF ServerHeld
  <2> HIDE DEF now, last
  <2> QED BY <1>2, <2>1, <2>2, <2>3 DEF ServerHeld
<1>3. ASSUME NEW kept \in Stays(sheld, now.undo),
             sheld' = (sheld \ now.undo) \cup kept, Remember(Server, kept),
             srv' = "failed", UNCHANGED lpc
      PROVE  ServerHeld' /\ (stuck' # {} => kind = "wireguard") /\ stuck \subseteq stuck'
  <2>0. /\ kept \subseteq sheld \cap {"iface"} /\ stuck \subseteq stuck'
        /\ kept # {} => kind = "wireguard" /\ Server \in stuck'
        /\ stuck' # {} => kind = "wireguard"
    BY <1>3 DEF Stays, Remember, ServerHeld
  <2>1. ASSUME NEW r \in sheld', r \notin kept PROVE r \in Leak(kind)
    <3>1. PICK i \in 1 .. (lpc - 1) : r \in Listen(kind)[i].acquires
      BY <1>3, <2>1 DEF ServerHeld, ListenStep
    <3>2. r \in now.undo \cup Leak(kind)
      BY <1>1, <3>1, ListenUndoes
    <3> QED BY <1>3, <2>1, <3>2
  <2>2. sheld' \subseteq Undeleted(Server)' \cup Leak(kind)
    BY <2>0, <2>1 DEF Undeleted
  <2>3. "iface" \in sheld' => kind = "wireguard"
    BY <1>3, <2>0 DEF ServerHeld
  <2> HIDE DEF now
  <2> QED BY <1>1, <1>3, <2>0, <2>2, <2>3 DEF ServerHeld
<1> QED BY <1>2, <1>3 DEF ListenStep

LEMMA DialHeld ==
  ASSUME HeldInv, NEW c \in Clients, DialStep(c), UNCHANGED kind
  PROVE  /\ ClientHeld(c)' /\ \A d \in Clients \ {c} : ClientHeld(d)'
         /\ stuck' # {} => kind = "wireguard"
         /\ stuck \subseteq stuck'
<1> DEFINE now == DialSteps(kind)[cpc[c]]
           last == cpc[c] = Len(DialSteps(kind))
<1> USE DEF HeldInv
<1>1. cpc[c] \in 1 .. Len(DialSteps(kind)) /\ Len(DialSteps(kind)) \in Nat
  BY Lengths DEF ClientHeld
<1>2. ASSUME NEW d \in Clients \ {c} PROVE ClientHeld(d)'
  <2>1. cst'[d] = cst[d] /\ cpc'[d] = cpc[d] /\ cheld'[d] = cheld[d]
    BY DEF DialStep
  <2>2. stuck \subseteq stuck'
    BY DEF DialStep, Remember
  <2> QED BY <2>1, <2>2 DEF ClientHeld, Undeleted
<1>3. CASE /\ cheld' = [cheld EXCEPT ![c] = @ \cup now.acquires]
           /\ cst' = [cst EXCEPT ![c] = IF last THEN "up" ELSE @]
           /\ cpc' = [cpc EXCEPT ![c] = IF last THEN @ ELSE @ + 1]
           /\ UNCHANGED stuck
  <2>0. /\ cheld'[c] = cheld[c] \cup now.acquires
        /\ cst'[c] = (IF last THEN "up" ELSE "dialing")
        /\ cpc'[c] = (IF last THEN cpc[c] ELSE cpc[c] + 1)
    BY <1>3 DEF DialStep
  <2>1. cpc'[c] \in 1 .. Len(DialSteps(kind))
    BY <1>1, <2>0
  <2>2. ASSUME ~last, NEW r \in cheld'[c]
        PROVE  \E i \in 1 .. (cpc'[c] - 1) : r \in DialSteps(kind)[i].acquires
    <3>1. cpc'[c] = cpc[c] + 1
      BY <2>0, <2>2
    <3>2. CASE r \in cheld[c]
      <4>1. PICK i \in 1 .. (cpc[c] - 1) : r \in DialSteps(kind)[i].acquires
        BY <3>2 DEF ClientHeld, DialStep
      <4>2. i \in 1 .. (cpc'[c] - 1)
        BY <1>1, <3>1
      <4> QED BY <4>1, <4>2
    <3>3. CASE r \in now.acquires
      <4>1. cpc[c] \in 1 .. (cpc'[c] - 1)
        BY <1>1, <3>1
      <4> QED BY <3>3, <4>1
    <3> QED BY <2>0, <2>2, <3>2, <3>3
  <2>3. "iface" \in cheld'[c] => kind = "wireguard"
    BY <1>1, <2>0, Interfaces DEF ClientHeld
  <2> HIDE DEF now, last
  <2> QED BY <1>2, <1>3, <2>0, <2>1, <2>2, <2>3 DEF ClientHeld
<1>4. ASSUME NEW kept \in Stays(cheld[c], now.undo),
             cheld' = [cheld EXCEPT ![c] = (@ \ now.undo) \cup kept], Remember(c, kept),
             cst' = [cst EXCEPT ![c] = "failed"], UNCHANGED cpc
      PROVE  ClientHeld(c)' /\ (stuck' # {} => kind = "wireguard") /\ stuck \subseteq stuck'
  <2>0. /\ cheld'[c] = (cheld[c] \ now.undo) \cup kept /\ cst'[c] = "failed" /\ cpc'[c] = cpc[c]
        /\ kept \subseteq cheld[c] \cap {"iface"} /\ stuck \subseteq stuck'
        /\ kept # {} => kind = "wireguard" /\ c \in stuck'
        /\ stuck' # {} => kind = "wireguard"
    BY <1>4 DEF Stays, Remember, ClientHeld
  <2>1. ASSUME NEW r \in cheld'[c], r \notin kept PROVE FALSE
    <3>1. PICK i \in 1 .. (cpc[c] - 1) : r \in DialSteps(kind)[i].acquires
      BY <2>0, <2>1 DEF ClientHeld, DialStep
    <3>2. r \in now.undo
      BY <1>1, <3>1, DialUndoes
    <3> QED BY <2>0, <2>1, <3>2
  <2>2. cheld'[c] \subseteq Undeleted(c)'
    BY <2>0, <2>1 DEF Undeleted
  <2>3. "iface" \in cheld'[c] => kind = "wireguard"
    BY <2>0 DEF ClientHeld
  <2> HIDE DEF now
  <2> QED BY <1>1, <2>0, <2>2, <2>3 DEF ClientHeld
<1> QED BY <1>2, <1>3, <1>4 DEF DialStep

LEMMA HeldNext == HeldInv /\ [Next]_vars => HeldInv'
<1> SUFFICES ASSUME HeldInv, [Next]_vars PROVE HeldInv'
  OBVIOUS
<1>1. kind' = kind
  BY DEF Next, vars, rigid
<1>2. ASSUME UNCHANGED <<srv, lpc, sheld>>, stuck \subseteq stuck' PROVE ServerHeld'
  BY <1>1, <1>2 DEF HeldInv, ServerHeld, Undeleted
<1>3. ASSUME UNCHANGED <<cst, cpc, cheld>>, stuck \subseteq stuck' PROVE \A c \in Clients : ClientHeld(c)'
  BY <1>1, <1>3 DEF HeldInv, ClientHeld, Undeleted
<1>4. ASSUME UNCHANGED <<cst, cpc, cheld>> PROVE DOMAIN cst' = Clients /\ DOMAIN cpc' = Clients /\ DOMAIN cheld' = Clients
  BY <1>4 DEF HeldInv
<1>5. CASE ListenStep
  <2>1. UNCHANGED <<cst, cpc, cheld>>
    BY <1>5 DEF ListenStep, clients
  <2> QED BY <1>1, <1>3, <1>4, <1>5, <2>1, ListenHeld DEF HeldInv
<1>6. CASE CloseServer
  <2>1. UNCHANGED <<cst, cpc, cheld>> /\ srv' = "closed" /\ lpc' = lpc
    BY <1>6 DEF CloseServer, clients
  <2>2. PICK kept \in Stays(sheld, Resources) : sheld' = kept /\ Remember(Server, kept)
    BY <1>6 DEF CloseServer
  <2>3. /\ kept \subseteq sheld \cap {"iface"} /\ stuck \subseteq stuck'
        /\ kept # {} => kind = "wireguard" /\ Server \in stuck'
        /\ stuck' # {} => kind = "wireguard"
    BY <2>2 DEF Stays, Remember, HeldInv, ServerHeld
  <2>4. ServerHeld'
    BY <1>1, <2>1, <2>2, <2>3 DEF HeldInv, ServerHeld, Undeleted
  <2> QED BY <1>1, <1>3, <1>4, <2>1, <2>3, <2>4 DEF HeldInv
<1>7. ASSUME NEW c \in Clients, DialStep(c) PROVE HeldInv'
  <2>1. UNCHANGED <<srv, lpc, sheld>>
    BY <1>7 DEF DialStep
  <2>2. DOMAIN cst' = Clients /\ DOMAIN cpc' = Clients /\ DOMAIN cheld' = Clients
    BY <1>7 DEF DialStep, HeldInv
  <2> QED BY <1>1, <1>2, <1>7, <2>1, <2>2, DialHeld DEF HeldInv
<1>8. ASSUME NEW c \in Clients, StartDial(c) \/ Exchanged(c) \/ GiveUp(c) PROVE HeldInv'
  <2>1. UNCHANGED <<srv, lpc, sheld, cpc, cheld, stuck>>
    BY <1>8 DEF StartDial, Exchanged, GiveUp, failures
  <2>2. DOMAIN cst' = Clients
    BY <1>8 DEF StartDial, Exchanged, GiveUp, HeldInv
  <2>3. ASSUME NEW d \in Clients PROVE ClientHeld(d)'
    <3>1. cst'[d] = cst[d] \/ (cst[d] \in {"idle", "exchange"} /\ cst'[d] \in {"exchange", "dialing", "failed"})
      BY <1>8 DEF StartDial, Exchanged, GiveUp, HeldInv
    <3> QED BY <1>1, <2>1, <3>1 DEF HeldInv, ClientHeld, Undeleted
  <2> QED BY <1>1, <1>2, <2>1, <2>2, <2>3 DEF HeldInv
<1>9. ASSUME NEW c \in Clients, CloseClient(c) PROVE HeldInv'
  <2>1. UNCHANGED <<srv, lpc, sheld, cpc>>
    BY <1>9 DEF CloseClient
  <2>2. DOMAIN cst' = Clients /\ DOMAIN cheld' = Clients
    BY <1>9 DEF CloseClient, HeldInv
  <2>3. PICK kept \in Stays(cheld[c], Resources) :
          cheld' = [cheld EXCEPT ![c] = kept] /\ Remember(c, kept)
    BY <1>9 DEF CloseClient
  <2>4. /\ kept \subseteq cheld[c] \cap {"iface"} /\ stuck \subseteq stuck'
        /\ kept # {} => kind = "wireguard" /\ c \in stuck'
        /\ stuck' # {} => kind = "wireguard"
    BY <2>3 DEF Stays, Remember, HeldInv, ClientHeld
  <2>5. ASSUME NEW d \in Clients PROVE ClientHeld(d)'
    <3>1. /\ d # c => cst'[d] = cst[d] /\ cheld'[d] = cheld[d]
          /\ d = c => cst'[d] = "closed" /\ cheld'[d] = kept
      BY <1>9, <2>3 DEF CloseClient, HeldInv
    <3>2. CASE d = c
      BY <1>1, <2>1, <2>4, <3>1, <3>2 DEF HeldInv, ClientHeld, Undeleted
    <3>3. CASE d # c
      BY <1>1, <2>1, <2>4, <3>1, <3>3 DEF HeldInv, ClientHeld, Undeleted
    <3> QED BY <3>2, <3>3
  <2> QED BY <1>1, <1>2, <2>1, <2>2, <2>4, <2>5 DEF HeldInv
<1>10. ASSUME \/ Outbound \/ UNCHANGED vars
              \/ \E c \in Clients : AcceptClient(c) \/ Ping(c) \/ Inbound(c)
              \/ \E w \in Ends : RelayReturns(w)
      PROVE  UNCHANGED <<srv, lpc, sheld, cst, cpc, cheld, stuck>>
  BY <1>10 DEF Outbound, AcceptClient, Ping, Inbound, RelayReturns, clients, failures, vars, state
<1>11. ASSUME UNCHANGED <<srv, lpc, sheld, cst, cpc, cheld, stuck>> PROVE HeldInv'
  BY <1>1, <1>2, <1>3, <1>4, <1>11 DEF HeldInv
<1>12. CASE UNCHANGED vars
  BY <1>10, <1>11, <1>12
<1>13. CASE Next
  BY <1>5, <1>6, <1>7, <1>8, <1>9, <1>10, <1>11, <1>13 DEF Next
<1> QED BY <1>12, <1>13

(* wireguard.go, amneziawg.go and tap.go, Listen, Dial and Close: whichever *)
(* step fails, and after Close, no device and no socket is left but for an  *)
(* interface that `ip link del` would not delete and, its control listener  *)
(* failing, WireGuard's inner echo server.                                  *)
THEOREM CleanFailure == Spec => []NothingLeft
<1>1. HeldInv => NothingLeft
  BY DEF HeldInv, ServerHeld, ClientHeld, NothingLeft, Leak
<1> QED BY HeldInit, HeldNext, <1>1, PTL DEF Spec
=============================================================================
