----------------------------- MODULE PeerService -----------------------------
(***************************************************************************)
(* What a datagram server promises its clients, whatever goroutines,       *)
(* channels and locks it is made of: every client address has at most one  *)
(* session at a time, a session is never reopened, and the datagrams of a  *)
(* client are handled through its current session only, in arrival order,  *)
(* each at most once.  Datagrams may be lost; nothing else is allowed.     *)
(***************************************************************************)
EXTENDS Naturals

CONSTANTS
  Peers,        \* client source addresses
  MaxDgrams     \* arrival indices, hence also session numbers, are 1..MaxDgrams

Nil == 0
Sess == 1 .. MaxDgrams

VARIABLES
  current,      \* current[p]: the session that serves p, or Nil
  opened,       \* number of sessions opened so far: they are 1..opened
  last          \* last[p]: arrival index of the newest datagram of p handled

psVars == <<current, opened, last>>

PSInit ==
  /\ current = [p \in Peers |-> Nil]
  /\ opened = 0
  /\ last = [p \in Peers |-> 0]

(* A client without a session gets a fresh one. *)
Open(p) ==
  /\ current[p] = Nil
  /\ opened < MaxDgrams
  /\ opened' = opened + 1
  /\ current' = [current EXCEPT ![p] = opened + 1]
  /\ UNCHANGED last

(* The current session of p ends. *)
End(p) ==
  /\ current[p] # Nil
  /\ current' = [current EXCEPT ![p] = Nil]
  /\ UNCHANGED <<opened, last>>

(* The current session handles a datagram newer than all it handled. *)
Handle(p, n) ==
  /\ current[p] # Nil
  /\ n > last[p]
  /\ last' = [last EXCEPT ![p] = n]
  /\ UNCHANGED <<current, opened>>

PSNext == \E p \in Peers : Open(p) \/ End(p) \/ \E n \in 1 .. MaxDgrams : Handle(p, n)

PSSpec == PSInit /\ [][PSNext]_psVars
=============================================================================
