------------------------------- MODULE Forward -------------------------------
(***************************************************************************)
(* Forwarding of one local TCP connection through a tunnel: on the client  *)
(* handleForwardConn and DialAndRelay, on a --forward server Serve,        *)
(* serveForward and relay, with the application and the target at the      *)
(* ends.  Each side runs two goroutines, one per direction.                *)
(*                                                                         *)
(* A stream tunnel is reliable and ordered, and its Close is seen by the   *)
(* peer after the bytes before it; closing a connection with bytes unread  *)
(* resets it, which may cost the peer bytes still in flight.  It breaks by *)
(* no other cause, and holds Window frames: WriteFrame waits for room.  A  *)
(* datagram tunnel may lose and reorder frames, its calls may fail, and a  *)
(* Close is seen by nobody: the server only forgets the session, and the   *)
(* next datagram makes a new one.                                          *)
(*                                                                         *)
(* No call of the relay has a deadline.  c.Write returns once the local    *)
(* end has taken the bytes, which it may never do, or has closed; until    *)
(* then the goroutine that relays towards it does nothing else.            *)
(*                                                                         *)
(* Relayed bytes are chunks numbered per direction.  MaxUp and MaxDown     *)
(* bound the chunks of the application and of each target connection,      *)
(* MaxGrams both where the tunnel carries datagrams, MaxSess the sessions  *)
(* the server makes for this client.                                       *)
(***************************************************************************)
EXTENDS Naturals, Sequences, SequencesExt

CONSTANTS MaxUp, MaxDown, MaxGrams, MaxSess, Window

ASSUME ForwardAssumption == /\ {MaxUp, MaxDown, MaxGrams} \subseteq Nat
                            /\ MaxSess \in Nat \ {0} /\ Window \in Nat \ {0}

Sess == 1 .. MaxSess

\* FrameForwardDial, and FrameForwardData with a chunk of either origin.
Dial == [k |-> "dial", o |-> "app", i |-> 0]
Data(o, i) == [k |-> "data", o |-> o, i |-> i]
Frame == {Dial} \cup {Data("app", i) : i \in 1 .. MaxUp} \cup {Data("target", i) : i \in 1 .. MaxDown}

VARIABLES
  kind,                   \* the tunnel's: p.Kind()
  asent, aclosed, agot,   \* application: chunks written, closed?, frames passed to it
  cread, cm, cu,          \* client: chunks read; its tunnel -> c and c -> tunnel goroutines
  c2s, s2c,               \* the tunnel, one sequence of frames per direction
  cur, born,              \* server: the open session (0: none), sessions created
  hs, su,                 \* per session: its tunnel -> c and c -> tunnel goroutines
  tread, tsent, tclosed, tgot  \* per session: chunks read, and the target's state

app == <<asent, aclosed, agot>>
client == <<cread, cm, cu>>
tunnel == <<c2s, s2c>>
table == <<cur, born>>
target == <<tsent, tclosed, tgot>>
state == <<app, client, tunnel, table, hs, su, tread, target>>
vars == <<kind, state>>

Stream == kind = "stream"

\* relay's second loop: in ReadFrame, or in c.Write with a chunk in hand.
Relaying == {"relay", "write"}

Init ==
  /\ kind \in {"stream", "datagram"}
  /\ asent = 0 /\ aclosed = FALSE /\ agot = << >>
  /\ cread = 0 /\ cm = "dial" /\ cu = "off"
  /\ c2s = << >> /\ s2c = << >>
  /\ cur = (IF Stream THEN 1 ELSE 0) /\ born = cur
  /\ hs = [s \in Sess |-> IF s = cur THEN "peek" ELSE "none"]
  /\ su = [s \in Sess |-> "off"]
  /\ tread = [s \in Sess |-> 0] /\ tsent = [s \in Sess |-> 0]
  /\ tclosed = [s \in Sess |-> FALSE] /\ tgot = [s \in Sess |-> << >>]

-----------------------------------------------------------------------------
(* The tunnel. *)

ClientClosed == cm = "gone" \/ cu = "done"

(* A datagram may be lost. *)
Sent(q, f) == {Append(q, f)} \cup (IF Stream THEN {} ELSE {q})

(* WriteFrame on a stream waits for room. *)
Room(q) == Stream => Len(q) < Window

(* The frames ReadFrame may return next, as positions in the tunnel. *)
Ready(q) == IF Stream THEN (IF q = << >> THEN {} ELSE {1}) ELSE 1 .. Len(q)

(* The client closes its end: what it has not read is gone, and the *)
(* reset may take bytes on their way to the server.                 *)
CloseClientEnd ==
  IF ClientClosed THEN UNCHANGED tunnel
  ELSE /\ s2c' = << >>
       /\ c2s' \in IF Stream /\ s2c # << >> THEN Prefixes(c2s) ELSE {c2s}

(* The server closes a stream, or forgets a datagram session. *)
CloseServerEnd ==
  /\ cur' = 0
  /\ IF Stream /\ cur # 0
     THEN /\ c2s' = << >>
          /\ s2c' \in IF c2s # << >> THEN Prefixes(s2c) ELSE {s2c}
     ELSE UNCHANGED tunnel

-----------------------------------------------------------------------------
(* The two ends. *)

AppWrite ==
  /\ ~aclosed /\ cm # "gone" /\ asent < MaxUp /\ (Stream \/ asent < MaxGrams)
  /\ asent' = asent + 1
  /\ UNCHANGED <<aclosed, agot, client, tunnel, table, hs, su, tread, target>>

AppClose ==
  /\ ~aclosed /\ aclosed' = TRUE
  /\ UNCHANGED <<asent, agot, client, tunnel, table, hs, su, tread, target>>

(* The other end takes what its side's c.Write was waiting with. *)
AppTakes ==
  /\ cm = "write" /\ ~aclosed /\ cm' = "relay"
  /\ UNCHANGED <<app, cread, cu, tunnel, table, hs, su, tread, target>>

TargetTakes(s) ==
  /\ hs[s] = "write" /\ ~tclosed[s] /\ hs' = [hs EXCEPT ![s] = "relay"]
  /\ UNCHANGED <<app, client, tunnel, table, su, tread, target>>

TargetWrite(s) ==
  /\ hs[s] \in Relaying /\ ~tclosed[s]
  /\ tsent[s] < MaxDown /\ (Stream \/ tsent[s] < MaxGrams)
  /\ tsent' = [tsent EXCEPT ![s] = @ + 1]
  /\ UNCHANGED <<app, client, tunnel, table, hs, su, tread, tclosed, tgot>>

TargetClose(s) ==
  /\ hs[s] \in Relaying /\ ~tclosed[s]
  /\ tclosed' = [tclosed EXCEPT ![s] = TRUE]
  /\ UNCHANGED <<app, client, tunnel, table, hs, su, tread, tsent, tgot>>

-----------------------------------------------------------------------------
(* The client: DialAndRelay and relay. *)

SendDial ==
  /\ cm = "dial"
  /\ c2s' \in Sent(c2s, Dial)
  /\ cm' = "relay" /\ cu' = "run"
  /\ UNCHANGED <<app, cread, s2c, table, hs, su, tread, target>>

SendDialFails ==
  /\ cm = "dial" /\ cm' = "gone"
  /\ CloseClientEnd
  /\ UNCHANGED <<app, cread, cu, table, hs, su, tread, target>>

(* Mutant of ClientUp: the frame shares the read buffer, and goes out with *)
(* whatever was read last.                                                 *)
ClientUpSharedBuffer ==
  /\ cu = "run" /\ cm \in Relaying /\ cread < asent
  /\ cread' = cread + 1
  /\ Room(c2s) /\ c2s' \in Sent(c2s, Data("app", asent)) /\ UNCHANGED cu
  /\ UNCHANGED <<app, cm, s2c, table, hs, su, tread, target>>

(* c -> tunnel: a chunk of the application becomes a frame, when there is *)
(* room.  A write to a stream the server closed fails, or is swallowed by *)
(* the kernel; one to a datagram socket may fail.                         *)
ClientUp ==
  /\ cu = "run" /\ cm \in Relaying /\ cread < asent
  /\ cread' = cread + 1
  /\ \/ /\ ~(Stream /\ cur = 0) /\ Room(c2s)
        /\ c2s' \in Sent(c2s, Data("app", cread + 1)) /\ UNCHANGED cu
     \/ /\ Stream => cur = 0
        /\ cu' \in {"run", "close"} /\ UNCHANGED c2s
  /\ UNCHANGED <<app, cm, s2c, table, hs, su, tread, target>>

(* Mutant of ClientUpEnd: the goroutine returns without closing the tunnel. *)
ClientUpLeaves ==
  /\ cu = "run"
  /\ (aclosed /\ cread = asent) \/ cm = "gone"
  /\ cu' = "off"
  /\ UNCHANGED <<app, cread, cm, tunnel, table, hs, su, tread, target>>

(* The application closed, or the other goroutine closed c. *)
ClientUpEnd ==
  /\ cu = "run"
  /\ (aclosed /\ cread = asent) \/ cm = "gone"
  /\ cu' = "close"
  /\ UNCHANGED <<app, cread, cm, tunnel, table, hs, su, tread, target>>

ClientUpClose ==
  /\ cu = "close" /\ cu' = "done"
  /\ CloseClientEnd
  /\ UNCHANGED <<app, cread, cm, table, hs, su, tread, target>>

(* tunnel -> c: data goes to the application, in a c.Write. *)
ClientDown ==
  /\ cm = "relay" /\ ~ClientClosed
  /\ \E i \in Ready(s2c) :
       /\ s2c' = RemoveAt(s2c, i)
       /\ IF s2c[i].k = "data" THEN agot' = Append(agot, s2c[i]) /\ cm' = "write"
          ELSE UNCHANGED <<agot, cm>>
  /\ UNCHANGED <<asent, aclosed, cread, cu, c2s, table, hs, su, tread, target>>

(* A closed application refuses it, unless the kernel took it before. *)
ClientWriteClosed ==
  /\ cm = "write" /\ aclosed
  /\ cm' \in {"relay", "gone"}
  /\ IF cm' = "gone" THEN CloseClientEnd ELSE UNCHANGED tunnel
  /\ UNCHANGED <<app, cread, cu, table, hs, su, tread, target>>

(* ReadFrame fails: this end is closed, or a stream has ended.  The       *)
(* deferred calls then close the local connection and the tunnel.         *)
ClientDownEnd ==
  /\ cm = "relay"
  /\ ClientClosed \/ (Stream /\ cur = 0 /\ s2c = << >>)
  /\ cm' = "gone"
  /\ CloseClientEnd
  /\ UNCHANGED <<app, cread, cu, table, hs, su, tread, target>>

(* A read from a datagram socket may fail at any time. *)
ClientReadFails ==
  /\ ~Stream /\ cm = "relay" /\ cm' = "gone"
  /\ CloseClientEnd
  /\ UNCHANGED <<app, cread, cu, table, hs, su, tread, target>>

-----------------------------------------------------------------------------
(* The server: the dispatcher's new session, then Serve, EchoLoop and relay. *)

(* A datagram that finds no session makes one. *)
NewSession ==
  /\ ~Stream /\ cur = 0 /\ c2s # << >> /\ born < MaxSess
  /\ born' = born + 1 /\ cur' = born'
  /\ hs' = [hs EXCEPT ![born'] = "peek"]
  /\ UNCHANGED <<app, client, tunnel, su, tread, target>>

(* WriteFrame: a frame to a closed client is lost. *)
Reply(q, f) == IF ClientClosed THEN {q} ELSE Sent(q, f)

(* Serve's first frame: a dial starts a relay, anything else an echo.  *)
(* When that cannot be written Serve returns and closes nothing.       *)
ServePeek(s) ==
  /\ hs[s] = "peek" /\ cur = s
  /\ \E i \in Ready(c2s) :
       /\ c2s' = RemoveAt(c2s, i)
       /\ IF c2s[i] = Dial
          THEN hs' = [hs EXCEPT ![s] = "dial"] /\ UNCHANGED s2c
          ELSE \/ hs' = [hs EXCEPT ![s] = "echo"] /\ s2c' \in Reply(s2c, c2s[i])
               \/ hs' = [hs EXCEPT ![s] = "gone"] /\ UNCHANGED s2c
  /\ UNCHANGED <<app, client, table, su, tread, target>>

(* EchoLoop closes when a write fails. *)
ServeEcho(s) ==
  /\ hs[s] = "echo" /\ cur = s
  /\ \E i \in Ready(c2s) :
       /\ c2s' = RemoveAt(c2s, i)
       /\ \/ s2c' \in Reply(s2c, c2s[i]) /\ UNCHANGED <<cur, hs>>
          \/ cur' = 0 /\ hs' = [hs EXCEPT ![s] = "gone"] /\ UNCHANGED s2c
  /\ UNCHANGED <<app, client, born, su, tread, target>>

DialOk(s) ==
  /\ hs[s] = "dial"
  /\ hs' = [hs EXCEPT ![s] = "relay"] /\ su' = [su EXCEPT ![s] = "run"]
  /\ UNCHANGED <<app, client, tunnel, table, tread, target>>

(* serveForward closes the tunnel when the target cannot be reached. *)
DialFail(s) ==
  /\ hs[s] = "dial"
  /\ hs' = [hs EXCEPT ![s] = "gone"]
  /\ CloseServerEnd
  /\ UNCHANGED <<app, client, born, su, tread, target>>

(* Mutant of ServerDown: the frame handed out stays pending in the tunnel. *)
ServerDownKeepsPending(s) ==
  /\ hs[s] = "relay" /\ cur = s
  /\ \E i \in Ready(c2s) :
       /\ c2s[i].k = "data" /\ Len(tgot[s]) < 2
       /\ tgot' = [tgot EXCEPT ![s] = Append(@, c2s[i])]
  /\ hs' = [hs EXCEPT ![s] = "write"]
  /\ UNCHANGED <<app, client, tunnel, table, su, tread, tsent, tclosed>>

(* tunnel -> c: data goes to the target, in a c.Write. *)
ServerDown(s) ==
  /\ hs[s] = "relay" /\ cur = s
  /\ \E i \in Ready(c2s) :
       /\ c2s' = RemoveAt(c2s, i)
       /\ IF c2s[i].k = "data"
          THEN tgot' = [tgot EXCEPT ![s] = Append(@, c2s[i])] /\ hs' = [hs EXCEPT ![s] = "write"]
          ELSE UNCHANGED <<tgot, hs>>
  /\ UNCHANGED <<app, client, s2c, table, su, tread, tsent, tclosed>>

(* A target that closed has the write fail, unless the kernel took it: *)
(* closing with bytes unread resets the connection.                    *)
ServerWriteClosed(s) ==
  /\ hs[s] = "write" /\ tclosed[s]
  /\ \E h \in {"relay", "gone"} : hs' = [hs EXCEPT ![s] = h]
  /\ UNCHANGED <<app, client, tunnel, table, su, tread, target>>

(* ReadFrame fails: a stream has ended or is closed at this end, or no     *)
(* datagram came for udpSessionIdle.  EchoLoop closes, the others return.  *)
ServerReadEnd(s) ==
  /\ hs[s] \in {"peek", "echo", "relay"}
  /\ cur # s \/ (c2s = << >> /\ (Stream => ClientClosed))
  /\ hs' = [hs EXCEPT ![s] = "gone"]
  /\ IF hs[s] = "echo" THEN CloseServerEnd ELSE UNCHANGED <<cur, tunnel>>
  /\ UNCHANGED <<app, client, born, su, tread, target>>

(* c -> tunnel: WriteFrame waits with a chunk of the target in hand, *)
(* which the end of the other goroutine does not change.             *)
ServerUpBlock(s) ==
  /\ su[s] = "run" /\ hs[s] \in Relaying /\ tread[s] < tsent[s]
  /\ ~ClientClosed /\ ~Room(s2c)
  /\ su' = [su EXCEPT ![s] = "send"]
  /\ UNCHANGED <<app, client, tunnel, table, hs, tread, target>>

(* The chunk becomes a frame, or cannot be written. *)
ServerUp(s) ==
  /\ su[s] = "send" \/ (su[s] = "run" /\ hs[s] \in Relaying)
  /\ tread[s] < tsent[s] /\ (ClientClosed \/ Room(s2c))
  /\ tread' = [tread EXCEPT ![s] = @ + 1]
  /\ \/ s2c' \in Reply(s2c, Data("target", tread'[s])) /\ su' = [su EXCEPT ![s] = "run"]
     \/ (Stream => ClientClosed) /\ UNCHANGED s2c /\ su' = [su EXCEPT ![s] = "close"]
  /\ UNCHANGED <<app, client, c2s, table, hs, target>>

(* Mutants of ServerUpEnd: the error of a read is handled before its bytes; *)
(* the goroutine returns without closing the tunnel.                        *)
ServerUpEndEarly(s) ==
  /\ su[s] = "run"
  /\ tclosed[s] \/ hs[s] = "gone"
  /\ su' = [su EXCEPT ![s] = "close"]
  /\ UNCHANGED <<app, client, tunnel, table, hs, tread, target>>

ServerUpLeaves(s) ==
  /\ su[s] = "run"
  /\ (tclosed[s] /\ tread[s] = tsent[s]) \/ hs[s] = "gone"
  /\ su' = [su EXCEPT ![s] = "off"]
  /\ UNCHANGED <<app, client, tunnel, table, hs, tread, target>>

(* The target closed, or the other goroutine closed c. *)
ServerUpEnd(s) ==
  /\ su[s] = "run"
  /\ (tclosed[s] /\ tread[s] = tsent[s]) \/ hs[s] = "gone"
  /\ su' = [su EXCEPT ![s] = "close"]
  /\ UNCHANGED <<app, client, tunnel, table, hs, tread, target>>

ServerUpClose(s) ==
  /\ su[s] = "close" /\ su' = [su EXCEPT ![s] = "done"]
  /\ CloseServerEnd
  /\ UNCHANGED <<app, client, born, hs, tread, target>>

-----------------------------------------------------------------------------
ClientReader == SendDial \/ SendDialFails \/ ClientDown \/ ClientWriteClosed \/ ClientDownEnd
ClientWriter == ClientUp \/ ClientUpEnd \/ ClientUpClose
ServerReader(s) ==
  \/ ServePeek(s) \/ ServeEcho(s) \/ DialOk(s) \/ DialFail(s)
  \/ ServerDown(s) \/ ServerWriteClosed(s) \/ ServerReadEnd(s)
ServerWriter(s) == ServerUpBlock(s) \/ ServerUp(s) \/ ServerUpEnd(s) \/ ServerUpClose(s)

Next ==
  /\ UNCHANGED kind
  /\ \/ AppWrite \/ AppTakes \/ AppClose
     \/ ClientReader \/ ClientReadFails \/ ClientWriter \/ NewSession
     \/ \E s \in Sess :
          \/ TargetWrite(s) \/ TargetTakes(s) \/ TargetClose(s)
          \/ ServerReader(s) \/ ServerWriter(s)

(* Every goroutine keeps running; the application and the target owe nothing, *)
(* not even to read.                                                          *)
Fairness ==
  /\ WF_state(ClientReader) /\ WF_state(ClientWriter) /\ WF_state(NewSession)
  /\ \A s \in Sess : WF_state(ServerReader(s)) /\ WF_state(ServerWriter(s))

Spec == Init /\ [][Next]_vars /\ Fairness

-----------------------------------------------------------------------------
(* Properties. *)

TypeOK ==
  /\ kind \in {"stream", "datagram"}
  /\ asent \in 0 .. MaxUp /\ aclosed \in BOOLEAN /\ agot \in Seq(Frame)
  /\ cread \in 0 .. asent /\ cm \in {"dial", "relay", "write", "gone"}
  /\ cu \in {"off", "run", "close", "done"}
  /\ c2s \in Seq(Frame) /\ s2c \in Seq(Frame)
  /\ cur \in 0 .. born /\ born \in 0 .. MaxSess
  /\ hs \in [Sess -> {"none", "peek", "echo", "dial", "relay", "write", "gone"}]
  /\ su \in [Sess -> {"off", "run", "send", "close", "done"}]
  /\ tread \in [Sess -> 0 .. MaxDown] /\ tsent \in [Sess -> 0 .. MaxDown]
  /\ \A s \in Sess : tread[s] <= tsent[s]
  /\ tclosed \in [Sess -> BOOLEAN] /\ tgot \in [Sess -> Seq(Frame)]

Chunks(o, n) == [i \in 1 .. n |-> Data(o, i)]

(* A stream tunnel carries TCP traffic: each end is passed, in order and   *)
(* without gaps, the chunks the other end wrote, and nothing else.         *)
InOrder ==
  Stream => /\ IsPrefix(tgot[1], Chunks("app", asent))
            /\ IsPrefix(agot, Chunks("target", tsent[1]))

(* What the target is passed comes from the application, and on a datagram *)
(* tunnel too it is never passed twice.                                    *)
TargetBytes ==
  \A s \in Sess, t \in Sess : \A i \in DOMAIN tgot[s], j \in DOMAIN tgot[t] :
    tgot[s][i].o = "app" /\ (tgot[s][i] = tgot[t][j] => s = t /\ i = j)

(* relay: over a stream tunnel, a target that answers and closes is heard  *)
(* in full, provided it has taken all that the application wrote, and that *)
(* the application goes on reading.                                        *)
Heard(s) == \A i \in 1 .. tsent[s] : Data("target", i) \in {agot[j] : j \in DOMAIN agot}
DownloadComplete ==
  \A s \in Sess :
    (Stream /\ tclosed[s] /\ hs[s] = "relay" /\ asent = Len(tgot[s]))
      ~> (Heard(s) \/ aclosed \/ asent > Len(tgot[s]) \/ [](cm = "write"))

ClientUnwound == cm = "gone" /\ cu \in {"off", "done"}
Unwound(s) == hs[s] \in {"none", "gone"} /\ su[s] \in {"off", "done"}

(* relay: the application closing ends both goroutines of the client, and  *)
(* every relay of the server with its target connection, except what is    *)
(* held for ever by a target that stays open and does not read: its relay, *)
(* and over a stream the client that waits for room or for the server.     *)
AppCloseUnwinds ==
  /\ aclosed ~> (ClientUnwound \/ (Stream /\ [](hs[1] = "write")))
  /\ \A s \in Sess : aclosed ~> (Unwound(s) \/ [](hs[s] = "write"))

(* Over a stream tunnel the target closing ends both relays and closes the *)
(* application's connection, and so does a target that cannot be dialed,   *)
(* unless the application does not read; over a datagram tunnel only the   *)
(* server's end is torn down.                                              *)
DialFailed == \E s \in Sess : hs[s] = "gone" /\ su[s] = "off" /\ cm = "relay"
TargetCloseUnwinds ==
  /\ \A s \in Sess :
       tclosed[s] ~> ((Unwound(s) /\ (Stream => ClientUnwound)) \/ (Stream /\ [](cm = "write")))
  /\ (Stream /\ DialFailed) ~> ClientUnwound

(* The same for every tunnel, as the comment in serveForward has it.  Over *)
(* datagrams the client is never told: no run claims it.                   *)
DialFailureDrops == DialFailed ~> ClientUnwound

(* relay's comment: it copies "in both directions until either side closes, *)
(* then tears both down".  A target that does not read refutes it.          *)
CloseTearsDown == aclosed ~> (ClientUnwound /\ \A s \in Sess : Unwound(s))
=============================================================================
