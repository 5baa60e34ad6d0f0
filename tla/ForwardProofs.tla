---------------------------- MODULE ForwardProofs ----------------------------
(***************************************************************************)
(* Proofs about Forward, for any numbers of chunks and sessions and both   *)
(* kinds of tunnels: what goes through a relay arrives in order over a     *)
(* stream, and unmixed and unrepeated over datagrams.                      *)
(***************************************************************************)
EXTENDS Forward, SequenceTheorems, TLAPS

(* A frame on its way to the server is the dial, or a chunk the client has *)
(* read from the application.                                              *)
Upward == {Dial} \cup {Data("app", n) : n \in 1 .. cread}

(* No chunk is twice on its way, or on its way and delivered, or delivered *)
(* twice, on however many sessions.                                        *)
OnceOK ==
  /\ \A i \in 1 .. Len(c2s) : c2s[i] \in Upward
  /\ \A i, j \in 1 .. Len(c2s) : c2s[i] = c2s[j] /\ c2s[i] # Dial => i = j
  /\ \A s \in Sess : \A i \in 1 .. Len(tgot[s]) :
       /\ tgot[s][i] \in Upward \ {Dial}
       /\ \A j \in 1 .. Len(c2s) : c2s[j] # tgot[s][i]
       /\ \A t \in Sess : \A j \in 1 .. Len(tgot[t]) : tgot[s][i] = tgot[t][j] => s = t /\ i = j

(* A stream has one session, and its server's first frame is the dial. *)
SessionOK ==
  /\ born = 1 /\ hs[1] \in {"peek", "dial", "relay", "write", "gone"}
  /\ \A s \in Sess \ {1} : hs[s] = "none" /\ su[s] = "off"
  /\ hs[1] \in {"peek", "dial"} => su[1] = "off" /\ cur = 1
  /\ cm = "dial" => cu = "off" /\ cread = 0 /\ c2s = << >> /\ hs[1] = "peek"

(* What the target has and what is on the way to it are the chunks in      *)
(* order; without gap until one end closes.                                *)
Peeking == IF hs[1] = "peek" THEN 1 ELSE 0
UpOK ==
  /\ Len(tgot[1]) <= cread /\ \A i \in 1 .. Len(tgot[1]) : tgot[1][i] = Data("app", i)
  /\ hs[1] = "peek" => tgot[1] = << >>
  /\ hs[1] # "gone" =>
       /\ Len(tgot[1]) + Len(c2s) <= cread + Peeking
       /\ cm # "dial" /\ ~ClientClosed /\ cur = 1 => Len(tgot[1]) + Len(c2s) = cread + Peeking
       /\ \A i \in 1 .. Len(c2s) :
            c2s[i] = IF i <= Peeking THEN Dial ELSE Data("app", Len(tgot[1]) + i - Peeking)

(* The same in the other direction. *)
DownOK ==
  /\ \A i \in 1 .. Len(agot) : agot[i] = Data("target", i)
  /\ \A i \in 1 .. Len(s2c) : s2c[i] = Data("target", Len(agot) + i)
  /\ Len(agot) + Len(s2c) <= tread[1]
  /\ hs[1] \in {"peek", "dial"} => tread[1] = 0
  /\ ~ClientClosed /\ su[1] \in {"run", "send"} => Len(agot) + Len(s2c) = tread[1]
  /\ ClientClosed => s2c = << >>

StreamOK == Stream => SessionOK /\ UpOK /\ DownOK

FInv == TypeOK /\ OnceOK /\ StreamOK

-----------------------------------------------------------------------------
(* The tunnel. *)

(* r is q, or what was left of q when a connection was reset. *)
Cut(r, q) == r \in Seq(Frame) /\ Len(r) <= Len(q) /\ \A i \in 1 .. Len(r) : r[i] = q[i]

(* Reading a frame out of the order it was sent in takes only this one. *)
LEMMA RemoveAtProperties ==
  ASSUME NEW S, NEW q \in Seq(S), NEW i \in 1 .. Len(q)
  PROVE  /\ RemoveAt(q, i) \in Seq(S) /\ Len(RemoveAt(q, i)) = Len(q) - 1
         /\ \A j \in 1 .. Len(q) - 1 : RemoveAt(q, i)[j] = IF j < i THEN q[j] ELSE q[j + 1]
<1> DEFINE a == SubSeq(q, 1, i - 1)
           b == SubSeq(q, i + 1, Len(q))
<1>0. Len(q) \in Nat /\ i \in Nat /\ 1 <= i /\ i <= Len(q)
  BY LenProperties
<1>1. a \in Seq(S) /\ Len(a) = i - 1 /\ \A j \in 1 .. i - 1 : a[j] = q[j]
  <2>1. \A j \in 1 .. i - 1 : q[j] \in S
    BY <1>0, ElementOfSeq
  <2>2. 1 \in 1 .. Len(q) + 1 /\ i - 1 \in 0 .. Len(q)
    BY <1>0
  <2> QED BY <1>0, <2>1, <2>2, SubSeqProperties
<1>2. b \in Seq(S) /\ Len(b) = Len(q) - i /\ \A j \in 1 .. Len(q) - i : b[j] = q[i + j]
  <2>1. i + 1 \in 1 .. Len(q) + 1 /\ Len(q) \in i .. Len(q)
    BY <1>0
  <2> QED BY <1>0, <2>1, SubSeqProperties
<1> HIDE DEF a, b
<1>3. /\ a \o b \in Seq(S) /\ Len(a \o b) = Len(q) - 1
      /\ \A j \in 1 .. Len(q) - 1 : (a \o b)[j] = IF j <= i - 1 THEN a[j] ELSE b[j - (i - 1)]
  <2>1. /\ a \o b \in Seq(S) /\ Len(a \o b) = Len(a) + Len(b)
        /\ \A j \in 1 .. Len(a) + Len(b) : (a \o b)[j] = IF j <= Len(a) THEN a[j] ELSE b[j - Len(a)]
    BY <1>1, <1>2, ConcatProperties
  <2>2. Len(a) + Len(b) = Len(q) - 1
    BY <1>0, <1>1, <1>2
  <2> QED BY <1>1, <2>1, <2>2
<1>4. \A j \in 1 .. Len(q) - 1 : (a \o b)[j] = IF j < i THEN q[j] ELSE q[j + 1]
  <2> SUFFICES ASSUME NEW j \in 1 .. Len(q) - 1 PROVE (a \o b)[j] = IF j < i THEN q[j] ELSE q[j + 1]
    OBVIOUS
  <2>1. CASE j < i
    BY <1>0, <1>1, <1>3, <2>1
  <2>2. CASE ~(j < i)
    <3>1. j - (i - 1) \in 1 .. Len(q) - i /\ i + (j - (i - 1)) = j + 1 /\ ~(j <= i - 1)
      BY <1>0, <2>2
    <3> QED BY <1>2, <1>3, <2>2, <3>1
  <2> QED BY <2>1, <2>2
<1> QED BY <1>3, <1>4 DEF RemoveAt, a, b

LEMMA FirstRemoved ==
  ASSUME NEW S, NEW q \in Seq(S), 1 \in 1 .. Len(q)
  PROVE  /\ Len(RemoveAt(q, 1)) = Len(q) - 1
         /\ \A j \in 1 .. Len(q) - 1 : RemoveAt(q, 1)[j] = q[j + 1]
<1>1. /\ Len(RemoveAt(q, 1)) = Len(q) - 1
      /\ \A j \in 1 .. Len(q) - 1 : RemoveAt(q, 1)[j] = IF j < 1 THEN q[j] ELSE q[j + 1]
  BY RemoveAtProperties
<1>2. \A j \in 1 .. Len(q) - 1 : ~(j < 1)
  BY LenProperties
<1> QED BY <1>1, <1>2

LEMMA PrefixesCut ==
  ASSUME NEW q \in Seq(Frame), NEW r \in Prefixes(q)
  PROVE  Cut(r, q)
<1>1. PICK n \in 0 .. Len(q) : r = SubSeq(q, 1, n)
  BY DEF Prefixes
<1>2. Len(q) \in Nat /\ \A j \in 1 .. n : q[j] \in Frame
  BY LenProperties, ElementOfSeq
<1>3. r \in Seq(Frame) /\ Len(r) = n /\ \A j \in 1 .. n : r[j] = q[j]
  BY <1>1, <1>2, SubSeqProperties
<1> QED BY <1>2, <1>3 DEF Cut

LEMMA WholeAndNothing ==
  ASSUME NEW q \in Seq(Frame)
  PROVE  Cut(q, q) /\ Cut(<< >>, q)
BY LenProperties DEF Cut

LEMMA ClientEndCuts ==
  ASSUME TypeOK, CloseClientEnd
  PROVE  /\ Cut(c2s', c2s) /\ Cut(s2c', s2c)
         /\ IF ClientClosed THEN UNCHANGED tunnel ELSE s2c' = << >>
<1>1. c2s \in Seq(Frame) /\ s2c \in Seq(Frame)
  BY DEF TypeOK
<1>2. CASE ClientClosed
  BY <1>1, <1>2, WholeAndNothing DEF CloseClientEnd, tunnel
<1>3. CASE ~ClientClosed
  BY <1>1, <1>3, WholeAndNothing, PrefixesCut DEF CloseClientEnd
<1> QED BY <1>2, <1>3

LEMMA ServerEndCuts ==
  ASSUME TypeOK, CloseServerEnd
  PROVE  /\ Cut(c2s', c2s) /\ Cut(s2c', s2c) /\ cur' = 0 /\ 0 \in 0 .. born
         /\ c2s' \in Seq(Frame) /\ s2c' \in Seq(Frame)
<1>1. c2s \in Seq(Frame) /\ s2c \in Seq(Frame)
  BY DEF TypeOK
<1>2. ASSUME Stream /\ cur # 0
      PROVE  Cut(c2s', c2s) /\ Cut(s2c', s2c)
  BY <1>1, <1>2, WholeAndNothing, PrefixesCut DEF CloseServerEnd
<1>3. ASSUME ~(Stream /\ cur # 0)
      PROVE  Cut(c2s', c2s) /\ Cut(s2c', s2c)
  BY <1>1, <1>3, WholeAndNothing DEF CloseServerEnd, tunnel
<1>4. 0 \in 0 .. born
  BY ForwardAssumption DEF TypeOK
<1> QED BY <1>2, <1>3, <1>4 DEF CloseServerEnd, Cut

LEMMA SentSeq ==
  ASSUME NEW q \in Seq(Frame), NEW f \in Frame, NEW r \in Sent(q, f)
  PROVE  /\ r \in Seq(Frame) /\ r \in {q, Append(q, f)} /\ (Stream => r = Append(q, f))
         /\ Len(q) \in Nat /\ Len(Append(q, f)) = Len(q) + 1
         /\ \A i \in 1 .. Len(q) : Append(q, f)[i] = q[i]
         /\ Append(q, f)[Len(q) + 1] = f
BY AppendProperties, LenProperties DEF Sent

LEMMA FramesTyped ==
  /\ Dial \in Frame
  /\ \A n \in 1 .. MaxUp : Data("app", n) \in Frame
  /\ \A n \in 1 .. MaxDown : Data("target", n) \in Frame
BY DEF Frame

-----------------------------------------------------------------------------
(* Types. *)

LEMMA FTypeInit == Init => TypeOK
<1> SUFFICES ASSUME Init PROVE TypeOK
  OBVIOUS
<1> USE ForwardAssumption DEF Init, Sess
<1>1. cur \in 0 .. born /\ born \in 0 .. MaxSess
  OBVIOUS
<1>2. << >> \in Seq(Frame)
  OBVIOUS
<1>3. tgot \in [Sess -> Seq(Frame)] /\ agot \in Seq(Frame) /\ c2s \in Seq(Frame) /\ s2c \in Seq(Frame)
  BY <1>2
<1>4. /\ hs \in [Sess -> {"none", "peek", "echo", "dial", "relay", "write", "gone"}]
      /\ su \in [Sess -> {"off", "run", "send", "close", "done"}] /\ tclosed \in [Sess -> BOOLEAN]
  OBVIOUS
<1>5. /\ tread \in [Sess -> 0 .. MaxDown] /\ tsent \in [Sess -> 0 .. MaxDown]
      /\ \A s \in Sess : tread[s] <= tsent[s]
  OBVIOUS
<1>6. /\ asent \in 0 .. MaxUp /\ cread \in 0 .. asent
      /\ kind \in {"stream", "datagram"} /\ cm \in {"dial", "relay", "write", "gone"}
      /\ cu \in {"off", "run", "close", "done"}
  OBVIOUS
<1>7. aclosed \in BOOLEAN
  OBVIOUS
<1> HIDE DEF Init
<1> QED BY <1>1, <1>3, <1>4, <1>5, <1>6, <1>7 DEF TypeOK

(* The ends and the goroutines of the client. *)
LEMMA ClientTypes ==
  ASSUME TypeOK, UNCHANGED kind,
         AppWrite \/ AppTakes \/ AppClose \/ ClientReader \/ ClientReadFails \/ ClientWriter
  PROVE  TypeOK'
<1> USE ForwardAssumption DEF app, client, tunnel, table, target, Sess
<1>0. c2s \in Seq(Frame) /\ s2c \in Seq(Frame) /\ cread \in 0 .. asent /\ asent \in 0 .. MaxUp
  BY DEF TypeOK
<1>1. CASE AppWrite \/ AppClose
  <2>1. asent' \in 0 .. MaxUp /\ cread \in 0 .. asent'
    BY <1>0, <1>1 DEF AppWrite, AppClose
  <2>2. aclosed' \in BOOLEAN
    BY <1>1, Zenon DEF TypeOK, AppWrite, AppClose
  <2> QED BY <1>1, <2>1, <2>2 DEF TypeOK, AppWrite, AppClose
<1>2. CASE SendDial
  <2>1. c2s' \in Seq(Frame)
    BY <1>0, <1>2, SentSeq, FramesTyped DEF SendDial
  <2> QED BY <1>2, <2>1 DEF TypeOK, SendDial
<1>3. CASE ClientUp
  <2>1. c2s' \in Seq(Frame)
    <3>1. cread + 1 \in 1 .. MaxUp
      BY <1>0, <1>3 DEF ClientUp
    <3> QED BY <1>0, <1>3, <3>1, SentSeq, FramesTyped DEF ClientUp
  <2>2. cread' \in 0 .. asent /\ cu' \in {"off", "run", "close", "done"}
    BY <1>0, <1>3 DEF ClientUp
  <2> QED BY <1>3, <2>1, <2>2 DEF TypeOK, ClientUp
<1>4. CASE ClientUpEnd
  BY <1>4 DEF TypeOK, ClientUpEnd
<1>5. CASE ClientUpClose
  <2>1. c2s' \in Seq(Frame) /\ s2c' \in Seq(Frame)
    BY <1>5, ClientEndCuts DEF ClientUpClose, Cut
  <2> QED BY <1>5, <2>1 DEF TypeOK, ClientUpClose
<1>6. CASE ClientDown
  <2>1. PICK i \in Ready(s2c) :
          /\ s2c' = RemoveAt(s2c, i)
          /\ IF s2c[i].k = "data" THEN agot' = Append(agot, s2c[i]) /\ cm' = "write"
             ELSE UNCHANGED <<agot, cm>>
    BY <1>6 DEF ClientDown
  <2>2. i \in 1 .. Len(s2c)
    BY <1>0, LenProperties, EmptySeq DEF Ready
  <2>3. s2c[i] \in Frame /\ RemoveAt(s2c, i) \in Seq(Frame)
    BY <1>0, <2>2, ElementOfSeq, RemoveAtProperties
  <2>4. s2c' \in Seq(Frame)
    BY <2>1, <2>3
  <2>5. agot' \in Seq(Frame)
    <3>1. agot \in Seq(Frame) /\ Append(agot, s2c[i]) \in Seq(Frame)
      BY <2>3, AppendProperties DEF TypeOK
    <3> QED BY <2>1, <3>1
  <2>6. cm' \in {"dial", "relay", "write", "gone"}
    BY <2>1 DEF TypeOK
  <2> QED BY <1>6, <2>4, <2>5, <2>6 DEF TypeOK, ClientDown
<1>7. CASE ClientDownEnd
  <2>1. c2s' \in Seq(Frame) /\ s2c' \in Seq(Frame)
    BY <1>7, ClientEndCuts DEF ClientDownEnd, Cut
  <2> QED BY <1>7, <2>1 DEF TypeOK, ClientDownEnd
<1>8. CASE SendDialFails \/ ClientReadFails \/ ClientWriteClosed
  <2>1. c2s' \in Seq(Frame) /\ s2c' \in Seq(Frame)
    BY <1>0, <1>8, ClientEndCuts DEF SendDialFails, ClientReadFails, ClientWriteClosed, Cut
  <2>2. cm' \in {"dial", "relay", "write", "gone"}
    BY <1>8 DEF SendDialFails, ClientReadFails, ClientWriteClosed
  <2> QED BY <1>8, <2>1, <2>2 DEF TypeOK, SendDialFails, ClientReadFails, ClientWriteClosed
<1>9. CASE AppTakes
  BY <1>9 DEF TypeOK, AppTakes
<1> QED BY <1>1, <1>2, <1>3, <1>4, <1>5, <1>6, <1>7, <1>8, <1>9 DEF ClientReader, ClientWriter

(* WriteFrame at the server: what it adds is a frame. *)
LEMMA ReplySeq ==
  ASSUME NEW q \in Seq(Frame), NEW f \in Frame, NEW r \in Reply(q, f)
  PROVE  r \in Seq(Frame)
BY SentSeq DEF Reply

LEMMA ReadyIsPosition ==
  ASSUME NEW q \in Seq(Frame), NEW i \in Ready(q)
  PROVE  /\ i \in 1 .. Len(q) /\ q[i] \in Frame /\ RemoveAt(q, i) \in Seq(Frame)
         /\ Stream => i = 1
<1>1. i \in 1 .. Len(q)
  BY LenProperties, EmptySeq DEF Ready
<1>2. Stream => i = 1
  BY DEF Ready
<1> QED BY <1>1, <1>2, ElementOfSeq, RemoveAtProperties

LEMMA ServerTypes ==
  ASSUME TypeOK, UNCHANGED kind, NEW s \in Sess, TargetTakes(s) \/ ServerReader(s) \/ ServerWriter(s)
  PROVE  TypeOK'
<1> USE ForwardAssumption DEF app, client, table, target
<1>0. /\ c2s \in Seq(Frame) /\ s2c \in Seq(Frame)
      /\ tread[s] \in 0 .. MaxDown /\ tsent[s] \in 0 .. MaxDown /\ tread[s] <= tsent[s]
  BY DEF TypeOK
<1>1. CASE ServePeek(s) \/ ServeEcho(s)
  <2>1. PICK i \in Ready(c2s) : c2s' = RemoveAt(c2s, i) /\ (s2c' = s2c \/ s2c' \in Reply(s2c, c2s[i]))
    BY <1>1 DEF ServePeek, ServeEcho
  <2>2. c2s' \in Seq(Frame) /\ s2c' \in Seq(Frame)
    BY <1>0, <2>1, ReadyIsPosition, ReplySeq
  <2>3. hs' \in [Sess -> {"none", "peek", "echo", "dial", "relay", "write", "gone"}]
    BY <1>1 DEF TypeOK, ServePeek, ServeEcho
  <2>4. cur' \in 0 .. born
    BY <1>1 DEF TypeOK, ServePeek, ServeEcho
  <2> QED BY <1>1, <2>2, <2>3, <2>4 DEF TypeOK, ServePeek, ServeEcho
<1>2. CASE DialOk(s)
  BY <1>2 DEF TypeOK, DialOk, tunnel
<1>3. CASE DialFail(s)
  <2>1. c2s' \in Seq(Frame) /\ s2c' \in Seq(Frame) /\ cur' \in 0 .. born'
    BY <1>3, ServerEndCuts DEF DialFail
  <2> QED BY <1>3, <2>1 DEF TypeOK, DialFail
<1>4. CASE ServerDown(s)
  <2>1. PICK i \in Ready(c2s) :
          /\ c2s' = RemoveAt(c2s, i)
          /\ IF c2s[i].k = "data"
             THEN tgot' = [tgot EXCEPT ![s] = Append(@, c2s[i])] /\ hs' = [hs EXCEPT ![s] = "write"]
             ELSE UNCHANGED <<tgot, hs>>
    BY <1>4 DEF ServerDown
  <2>2. c2s' \in Seq(Frame) /\ c2s[i] \in Frame
    BY <1>0, <2>1, ReadyIsPosition
  <2>3. tgot[s] \in Seq(Frame) /\ Append(tgot[s], c2s[i]) \in Seq(Frame)
    BY <2>2, AppendProperties DEF TypeOK
  <2>4. tgot' \in [Sess -> Seq(Frame)]
    BY <2>1, <2>3 DEF TypeOK
  <2>5. hs' \in [Sess -> {"none", "peek", "echo", "dial", "relay", "write", "gone"}]
    BY <2>1 DEF TypeOK
  <2> QED BY <1>4, <2>2, <2>4, <2>5 DEF TypeOK, ServerDown
<1>5. CASE ServerReadEnd(s)
  <2>1. c2s' \in Seq(Frame) /\ s2c' \in Seq(Frame) /\ cur' \in 0 .. born'
    <3>1. CASE hs[s] = "echo"
      BY <1>5, <3>1, ServerEndCuts DEF ServerReadEnd
    <3>2. CASE hs[s] # "echo"
      BY <1>5, <3>2 DEF ServerReadEnd, TypeOK, tunnel
    <3> QED BY <3>1, <3>2
  <2> QED BY <1>5, <2>1 DEF TypeOK, ServerReadEnd
<1>6. CASE ServerUp(s)
  <2>1. tread[s] + 1 \in 1 .. MaxDown /\ tread[s] + 1 <= tsent[s]
    BY <1>0, <1>6 DEF ServerUp
  <2>2. tread' = [tread EXCEPT ![s] = tread[s] + 1] /\ tread'[s] = tread[s] + 1
    BY <1>6 DEF ServerUp, TypeOK
  <2>3. tread' \in [Sess -> 0 .. MaxDown] /\ \A t \in Sess : tread'[t] <= tsent[t]
    BY <2>1, <2>2 DEF TypeOK
  <2>4. s2c' \in Seq(Frame)
    BY <1>0, <1>6, <2>1, <2>2, ReplySeq, FramesTyped DEF ServerUp
  <2>5. su' \in [Sess -> {"off", "run", "send", "close", "done"}]
    BY <1>6 DEF ServerUp, TypeOK
  <2> QED BY <1>6, <2>3, <2>4, <2>5 DEF TypeOK, ServerUp
<1>7. CASE ServerUpEnd(s)
  BY <1>7 DEF TypeOK, ServerUpEnd, tunnel
<1>8. CASE ServerUpClose(s)
  <2>1. c2s' \in Seq(Frame) /\ s2c' \in Seq(Frame) /\ cur' \in 0 .. born'
    BY <1>8, ServerEndCuts DEF ServerUpClose
  <2> QED BY <1>8, <2>1 DEF TypeOK, ServerUpClose
<1>9. CASE TargetTakes(s) \/ ServerWriteClosed(s)
  <2>1. hs' \in [Sess -> {"none", "peek", "echo", "dial", "relay", "write", "gone"}]
    BY <1>9 DEF TypeOK, TargetTakes, ServerWriteClosed
  <2> QED BY <1>9, <2>1 DEF TypeOK, TargetTakes, ServerWriteClosed, tunnel
<1>10. CASE ServerUpBlock(s)
  <2>1. su' \in [Sess -> {"off", "run", "send", "close", "done"}]
    BY <1>10 DEF TypeOK, ServerUpBlock
  <2> QED BY <1>10, <2>1 DEF TypeOK, ServerUpBlock, tunnel
<1> QED BY <1>1, <1>2, <1>3, <1>4, <1>5, <1>6, <1>7, <1>8, <1>9, <1>10 DEF ServerReader, ServerWriter

LEMMA FTypeStep == TypeOK /\ [Next]_vars => TypeOK'
<1> SUFFICES ASSUME TypeOK, [Next]_vars PROVE TypeOK'
  OBVIOUS
<1> USE ForwardAssumption DEF app, client, tunnel, table, target
<1>1. CASE UNCHANGED kind /\ (AppWrite \/ AppTakes \/ AppClose \/ ClientReader \/ ClientReadFails \/ ClientWriter)
  BY <1>1, ClientTypes
<1>2. ASSUME UNCHANGED kind, NEW s \in Sess, TargetTakes(s) \/ ServerReader(s) \/ ServerWriter(s) PROVE TypeOK'
  BY <1>2, ServerTypes
<1>3. CASE UNCHANGED kind /\ NewSession
  <2>1. born' \in 1 .. MaxSess /\ cur' \in 0 .. born'
    BY <1>3 DEF NewSession, TypeOK
  <2>2. hs' \in [Sess -> {"none", "peek", "echo", "dial", "relay", "write", "gone"}]
    BY <1>3, <2>1 DEF TypeOK, NewSession
  <2>3. born' \in 0 .. MaxSess
    BY <2>1
  <2> QED BY <1>3, <2>1, <2>2, <2>3 DEF TypeOK, NewSession
<1>4. ASSUME UNCHANGED kind, NEW s \in Sess, TargetWrite(s) PROVE TypeOK'
  <2>1. tsent' \in [Sess -> 0 .. MaxDown] /\ \A t \in Sess : tread[t] <= tsent'[t]
    BY <1>4 DEF TargetWrite, TypeOK
  <2> QED BY <1>4, <2>1 DEF TypeOK, TargetWrite
<1>5. ASSUME UNCHANGED kind, NEW s \in Sess, TargetClose(s) PROVE TypeOK'
  BY <1>5 DEF TypeOK, TargetClose
<1>6. CASE UNCHANGED vars
  BY <1>6 DEF TypeOK, vars, state
<1> QED BY <1>1, <1>2, <1>3, <1>4, <1>5, <1>6 DEF Next

-----------------------------------------------------------------------------
(* No chunk is delivered twice. *)

LEMMA OnceInit == Init => OnceOK
BY DEF Init, OnceOK

(* Frames that get lost, or cut off, leave no two alike. *)
LEMMA OnceCut ==
  ASSUME TypeOK, OnceOK, Cut(c2s', c2s), UNCHANGED <<tgot, cread>>
  PROVE  OnceOK'
<1>1. \A i \in 1 .. Len(c2s') : i \in 1 .. Len(c2s) /\ c2s'[i] = c2s[i]
  BY LenProperties DEF Cut, TypeOK
<1> QED BY <1>1 DEF OnceOK, Upward

(* A frame that is new, or a dial, is sent. *)
LEMMA OnceSent ==
  ASSUME TypeOK, OnceOK, NEW f \in Frame, c2s' \in Sent(c2s, f), UNCHANGED tgot,
         f \in Upward', cread' \in {cread, cread + 1}, f # Dial => f \notin Upward
  PROVE  OnceOK'
<1>0. c2s \in Seq(Frame) /\ cread \in Nat
  BY DEF TypeOK
<1>1. \A g \in Upward : g \in Upward'
  BY <1>0 DEF Upward
<1>2. CASE c2s' = c2s
  BY <1>1, <1>2 DEF OnceOK
<1>3. CASE c2s' = Append(c2s, f)
  <2>1. \A i \in 1 .. Len(c2s') : IF i \in 1 .. Len(c2s) THEN c2s'[i] = c2s[i] ELSE c2s'[i] = f /\ i = Len(c2s) + 1
    BY <1>0, <1>3, SentSeq
  <2>2. \A i \in 1 .. Len(c2s') : c2s'[i] \in Upward'
    BY <1>1, <2>1 DEF OnceOK
  <2>3. \A i, j \in 1 .. Len(c2s') : c2s'[i] = c2s'[j] /\ c2s'[i] # Dial => i = j
    BY <2>1 DEF OnceOK
  <2>4. \A s \in Sess : \A i \in 1 .. Len(tgot[s]) :
          /\ tgot[s][i] \in Upward' \ {Dial}
          /\ \A j \in 1 .. Len(c2s') : c2s'[j] # tgot[s][i]
    BY <1>1, <2>1 DEF OnceOK
  <2> QED BY <2>2, <2>3, <2>4 DEF OnceOK
<1> QED BY <1>0, <1>2, <1>3, SentSeq

(* A frame is taken, by nobody or by a target. *)
LEMMA OnceTaken ==
  ASSUME TypeOK, OnceOK, NEW i \in 1 .. Len(c2s), c2s' = RemoveAt(c2s, i), UNCHANGED cread,
         NEW s \in Sess,
         tgot' = tgot \/ (c2s[i] # Dial /\ tgot' = [tgot EXCEPT ![s] = Append(@, c2s[i])])
  PROVE  OnceOK'
<1> DEFINE old(j) == IF j < i THEN j ELSE j + 1
<1>0. /\ c2s \in Seq(Frame) /\ Len(c2s) \in Nat /\ c2s[i] \in Frame
      /\ tgot \in [Sess -> Seq(Frame)]
      /\ \A t \in Sess : Len(tgot[t]) \in Nat
  BY LenProperties, ElementOfSeq DEF TypeOK
<1>a. /\ Len(c2s') = Len(c2s) - 1
      /\ \A j \in 1 .. Len(c2s) - 1 : c2s'[j] = IF j < i THEN c2s[j] ELSE c2s[j + 1]
  BY <1>0, RemoveAtProperties
<1>1. ASSUME NEW j \in 1 .. Len(c2s') PROVE old(j) \in 1 .. Len(c2s) \ {i} /\ c2s'[j] = c2s[old(j)]
  <2>1. j \in 1 .. Len(c2s) - 1 /\ i \in Nat /\ j \in Nat
    BY <1>0, <1>a
  <2>2. old(j) \in 1 .. Len(c2s) /\ old(j) # i
    BY <1>0, <2>1
  <2>3. c2s'[j] = c2s[old(j)]
    BY <1>a, <2>1
  <2> QED BY <2>2, <2>3
<1>2. ASSUME NEW j \in 1 .. Len(c2s'), NEW k \in 1 .. Len(c2s'), old(j) = old(k) PROVE j = k
  BY <1>0, <1>a, <1>2
<1> HIDE DEF old
<1>3. \A j \in 1 .. Len(c2s') : c2s'[j] \in Upward'
  BY <1>1 DEF OnceOK, Upward
<1>4. \A j, k \in 1 .. Len(c2s') : c2s'[j] = c2s'[k] /\ c2s'[j] # Dial => j = k
  <2> SUFFICES ASSUME NEW j \in 1 .. Len(c2s'), NEW k \in 1 .. Len(c2s'), c2s'[j] = c2s'[k], c2s'[j] # Dial
               PROVE  j = k
    OBVIOUS
  <2>1. /\ old(j) \in 1 .. Len(c2s) /\ c2s'[j] = c2s[old(j)]
        /\ old(k) \in 1 .. Len(c2s) /\ c2s'[k] = c2s[old(k)]
    BY <1>1
  <2>2. \A x, y \in 1 .. Len(c2s) : c2s[x] = c2s[y] /\ c2s[x] # Dial => x = y
    BY DEF OnceOK
  <2>3. old(j) = old(k)
    BY <2>1, <2>2
  <2> QED BY <1>2, <2>3
<1>5. CASE tgot' = tgot
  <2>1. Upward' = Upward
    BY DEF Upward
  <2>2. \A t \in Sess : \A j \in 1 .. Len(tgot[t]) : \A k \in 1 .. Len(c2s') : c2s'[k] # tgot[t][j]
    BY <1>1 DEF OnceOK
  <2>3. \A t \in Sess : \A j \in 1 .. Len(tgot[t]) :
          /\ tgot[t][j] \in Upward \ {Dial}
          /\ \A u \in Sess : \A k \in 1 .. Len(tgot[u]) : tgot[t][j] = tgot[u][k] => t = u /\ j = k
    BY DEF OnceOK
  <2> QED BY <1>3, <1>4, <1>5, <2>1, <2>2, <2>3 DEF OnceOK
<1>6. CASE c2s[i] # Dial /\ tgot' = [tgot EXCEPT ![s] = Append(@, c2s[i])]
  <2> DEFINE new(t, j) == t = s /\ j = Len(tgot[s]) + 1
  <2>1. \A t \in Sess : \A j \in 1 .. Len(tgot'[t]) :
          IF j \in 1 .. Len(tgot[t]) THEN tgot'[t][j] = tgot[t][j] ELSE new(t, j) /\ tgot'[t][j] = c2s[i]
    <3>1. tgot'[s] = Append(tgot[s], c2s[i]) /\ \A t \in Sess \ {s} : tgot'[t] = tgot[t]
      BY <1>0, <1>6
    <3>2. /\ Len(tgot'[s]) = Len(tgot[s]) + 1 /\ tgot'[s][Len(tgot[s]) + 1] = c2s[i]
          /\ \A j \in 1 .. Len(tgot[s]) : tgot'[s][j] = tgot[s][j]
      BY <1>0, <3>1, AppendProperties
    <3>3. ASSUME NEW t \in Sess, NEW j \in 1 .. Len(tgot'[t]), t # s
          PROVE  j \in 1 .. Len(tgot[t]) /\ tgot'[t][j] = tgot[t][j]
      BY <3>1, <3>3
    <3>4. ASSUME NEW j \in 1 .. Len(tgot'[s])
          PROVE  IF j \in 1 .. Len(tgot[s]) THEN tgot'[s][j] = tgot[s][j]
                 ELSE j = Len(tgot[s]) + 1 /\ tgot'[s][j] = c2s[i]
      BY <1>0, <3>2
    <3> QED BY <3>3, <3>4
  <2> HIDE DEF new
  <2>2. c2s[i] \in Upward' \ {Dial} /\ \A j \in 1 .. Len(c2s') : c2s'[j] # c2s[i]
    BY <1>1, <1>6 DEF OnceOK, Upward
  <2>3. \A t \in Sess : \A j \in 1 .. Len(tgot[t]) :
          /\ tgot[t][j] \in Upward' \ {Dial} /\ tgot[t][j] # c2s[i]
          /\ \A k \in 1 .. Len(c2s') : c2s'[k] # tgot[t][j]
    <3>1. \A t \in Sess : \A j \in 1 .. Len(tgot[t]) :
            /\ tgot[t][j] \in Upward \ {Dial}
            /\ \A k \in 1 .. Len(c2s) : c2s[k] # tgot[t][j]
      BY DEF OnceOK
    <3>2. Upward' = Upward
      BY DEF Upward
    <3> QED BY <1>1, <3>1, <3>2
  <2>4. ASSUME NEW t \in Sess, NEW u \in Sess, NEW j \in 1 .. Len(tgot'[t]), NEW k \in 1 .. Len(tgot'[u]),
               tgot'[t][j] = tgot'[u][k]
        PROVE  t = u /\ j = k
    <3>1. CASE j \in 1 .. Len(tgot[t]) /\ k \in 1 .. Len(tgot[u])
      BY <2>1, <2>4, <3>1 DEF OnceOK
    <3>2. CASE j \notin 1 .. Len(tgot[t]) /\ k \notin 1 .. Len(tgot[u])
      BY <2>1, <3>2 DEF new
    <3>3. CASE ~(j \in 1 .. Len(tgot[t]) <=> k \in 1 .. Len(tgot[u]))
      BY <2>1, <2>3, <2>4, <3>3
    <3> QED BY <3>1, <3>2, <3>3
  <2>5. \A t \in Sess : \A j \in 1 .. Len(tgot'[t]) :
          /\ tgot'[t][j] \in Upward' \ {Dial}
          /\ \A k \in 1 .. Len(c2s') : c2s'[k] # tgot'[t][j]
    BY <2>1, <2>2, <2>3
  <2> QED BY <1>3, <1>4, <2>4, <2>5 DEF OnceOK
<1> QED BY <1>5, <1>6

LEMMA OnceStep == TypeOK /\ OnceOK /\ [Next]_vars => OnceOK'
<1> SUFFICES ASSUME TypeOK, OnceOK, [Next]_vars PROVE OnceOK'
  OBVIOUS
<1> USE DEF app, client, tunnel, table, target
<1>0. c2s \in Seq(Frame) /\ cread \in 0 .. asent /\ asent \in 0 .. MaxUp
  BY DEF TypeOK
<1>1. ASSUME UNCHANGED <<c2s, tgot, cread>> PROVE OnceOK'
  BY <1>0, <1>1, WholeAndNothing, OnceCut
<1>2. CASE SendDial
  <2>1. Dial \in Upward'
    BY DEF Upward
  <2> QED BY <1>2, <2>1, FramesTyped, OnceSent DEF SendDial
<1>3. CASE ClientUp
  <2>1. CASE c2s' = c2s
    <3>1. cread' \in {cread, cread + 1} /\ UNCHANGED tgot
      BY <1>3 DEF ClientUp
    <3>2. \A g \in Upward : g \in Upward'
      BY <1>0, <3>1 DEF Upward
    <3> QED BY <2>1, <3>1, <3>2 DEF OnceOK
  <2>2. CASE c2s' \in Sent(c2s, Data("app", cread + 1))
    <3>1. cread + 1 \in 1 .. MaxUp /\ cread' = cread + 1 /\ UNCHANGED tgot
      BY <1>0, <1>3, ForwardAssumption DEF ClientUp
    <3>2. Data("app", cread + 1) \in Upward' /\ Data("app", cread + 1) \notin Upward
      <4>1. cread \in Nat /\ cread + 1 \in 1 .. cread'
        BY <1>0, <3>1
      <4>2. \A n \in 1 .. cread : Data("app", cread + 1) # Data("app", n)
        BY <4>1 DEF Data
      <4>3. Data("app", cread + 1) # Dial
        BY DEF Data, Dial
      <4> QED BY <4>1, <4>2, <4>3 DEF Upward
    <3> QED BY <2>2, <3>1, <3>2, FramesTyped, OnceSent
  <2> QED BY <1>3, <2>1, <2>2 DEF ClientUp
<1>4. CASE ClientUpClose \/ ClientDownEnd \/ SendDialFails \/ ClientReadFails
  BY <1>4, ClientEndCuts, OnceCut DEF ClientUpClose, ClientDownEnd, SendDialFails, ClientReadFails
<1>5. CASE ClientWriteClosed
  <2>1. c2s' = c2s \/ CloseClientEnd
    BY <1>5 DEF ClientWriteClosed
  <2> QED BY <1>0, <1>5, <2>1, WholeAndNothing, ClientEndCuts, OnceCut DEF ClientWriteClosed
<1>6. CASE AppWrite \/ AppTakes \/ AppClose \/ ClientDown \/ ClientUpEnd \/ NewSession \/ UNCHANGED vars
  BY <1>1, <1>6 DEF AppWrite, AppTakes, AppClose, ClientDown, ClientUpEnd, NewSession, vars, state
<1>7. ASSUME NEW s \in Sess,
             TargetWrite(s) \/ TargetTakes(s) \/ TargetClose(s) \/ ServerReader(s) \/ ServerWriter(s)
      PROVE  OnceOK'
  <2>1. CASE ServePeek(s) \/ ServeEcho(s)
    <3>1. PICK i \in Ready(c2s) : c2s' = RemoveAt(c2s, i)
      BY <2>1 DEF ServePeek, ServeEcho
    <3> QED BY <1>0, <2>1, <3>1, ReadyIsPosition, OnceTaken DEF ServePeek, ServeEcho
  <2>2. CASE ServerDown(s)
    <3>1. PICK i \in Ready(c2s) :
            /\ c2s' = RemoveAt(c2s, i)
            /\ tgot' = tgot \/ (c2s[i].k = "data" /\ tgot' = [tgot EXCEPT ![s] = Append(@, c2s[i])])
      BY <2>2 DEF ServerDown
    <3>2. c2s[i].k = "data" => c2s[i] # Dial
      BY DEF Dial
    <3> QED BY <1>0, <2>2, <3>1, <3>2, ReadyIsPosition, OnceTaken DEF ServerDown
  <2>3. CASE DialFail(s) \/ ServerUpClose(s)
    BY <2>3, ServerEndCuts, OnceCut DEF DialFail, ServerUpClose
  <2>4. CASE ServerReadEnd(s)
    <3>1. CASE hs[s] = "echo"
      BY <2>4, <3>1, ServerEndCuts, OnceCut DEF ServerReadEnd
    <3> QED BY <1>1, <2>4, <3>1 DEF ServerReadEnd
  <2>5. CASE TargetWrite(s) \/ TargetTakes(s) \/ TargetClose(s) \/ DialOk(s)
    BY <1>1, <2>5 DEF TargetWrite, TargetTakes, TargetClose, DialOk
  <2>6. CASE ServerWriteClosed(s) \/ ServerUpBlock(s) \/ ServerUp(s) \/ ServerUpEnd(s)
    BY <1>1, <2>6 DEF ServerWriteClosed, ServerUpBlock, ServerUp, ServerUpEnd
  <2> QED BY <1>7, <2>1, <2>2, <2>3, <2>4, <2>5, <2>6 DEF ServerReader, ServerWriter
<1> QED BY <1>2, <1>3, <1>4, <1>5, <1>6, <1>7 DEF Next, ClientReader, ClientWriter

-----------------------------------------------------------------------------
(* Over a stream everything arrives in order. *)

LEMMA StreamInit == Init => StreamOK
<1> SUFFICES ASSUME Init, Stream PROVE StreamOK
  BY DEF StreamOK
<1>0. 1 \in Sess /\ cur = 1 /\ born = 1
  BY ForwardAssumption DEF Init, Sess
<1>1. /\ hs[1] = "peek" /\ su[1] = "off" /\ tread[1] = 0 /\ tgot[1] = << >>
      /\ \A s \in Sess \ {1} : hs[s] = "none" /\ su[s] = "off"
  BY <1>0 DEF Init
<1>2. cm = "dial" /\ cu = "off" /\ cread = 0 /\ c2s = << >> /\ s2c = << >> /\ agot = << >>
  BY DEF Init
<1>3. SessionOK
  BY <1>0, <1>1, <1>2 DEF SessionOK
<1>4. UpOK
  BY <1>1, <1>2 DEF UpOK, Peeking
<1>5. DownOK
  BY <1>1, <1>2 DEF DownOK
<1> QED BY <1>3, <1>4, <1>5 DEF StreamOK

LEMMA StreamFacts ==
  ASSUME TypeOK
  PROVE  /\ 1 \in Sess /\ c2s \in Seq(Frame) /\ s2c \in Seq(Frame) /\ agot \in Seq(Frame)
         /\ Len(c2s) \in Nat /\ Len(s2c) \in Nat /\ Len(agot) \in Nat
         /\ tgot \in [Sess -> Seq(Frame)] /\ tgot[1] \in Seq(Frame) /\ Len(tgot[1]) \in Nat
         /\ cread \in Nat /\ tread \in [Sess -> 0 .. MaxDown] /\ tread[1] \in Nat /\ Peeking \in {0, 1}
         /\ hs \in [Sess -> {"none", "peek", "echo", "dial", "relay", "write", "gone"}]
         /\ su \in [Sess -> {"off", "run", "send", "close", "done"}]
<1>1. 1 \in Sess
  BY ForwardAssumption DEF Sess
<1>2. tgot[1] \in Seq(Frame) /\ tread[1] \in Nat
  BY <1>1, ForwardAssumption DEF TypeOK
<1>3. cread \in Nat /\ Peeking \in {0, 1}
  BY DEF TypeOK, Peeking
<1> QED BY <1>1, <1>2, <1>3, LenProperties DEF TypeOK

(* Bytes cut off on their way up, by an end that closes. *)
LEMMA UpCut ==
  ASSUME TypeOK, UpOK, Cut(c2s', c2s), UNCHANGED <<tgot, cread>>,
         hs'[1] \in {hs[1], "gone"},
         cm' # "dial" /\ ~ClientClosed' /\ cur' = 1
           => c2s' = c2s /\ cm # "dial" /\ ~ClientClosed /\ cur = 1
  PROVE  UpOK'
<1>1. Len(tgot[1]) \in Nat /\ Len(c2s) \in Nat /\ Len(c2s') \in Nat /\ cread \in Nat /\ Peeking \in {0, 1}
  BY StreamFacts, LenProperties DEF Cut
<1>2. Len(c2s') <= Len(c2s) /\ \A i \in 1 .. Len(c2s') : i \in 1 .. Len(c2s) /\ c2s'[i] = c2s[i]
  BY <1>1 DEF Cut
<1>3. CASE hs'[1] = "gone"
  BY <1>3 DEF UpOK
<1>4. CASE hs'[1] = hs[1]
  <2>1. Peeking' = Peeking
    BY <1>4 DEF Peeking
  <2>2. ASSUME hs[1] # "gone"
        PROVE  /\ Len(tgot[1]) + Len(c2s') <= cread + Peeking
               /\ \A i \in 1 .. Len(c2s') :
                    c2s'[i] = IF i <= Peeking THEN Dial ELSE Data("app", Len(tgot[1]) + i - Peeking)
    BY <1>1, <1>2, <2>2 DEF UpOK
  <2>3. hs[1] # "gone" /\ cm' # "dial" /\ ~ClientClosed' /\ cur' = 1
          => Len(tgot[1]) + Len(c2s') = cread + Peeking
    BY DEF UpOK
  <2>4. /\ Len(tgot[1]) <= cread /\ \A i \in 1 .. Len(tgot[1]) : tgot[1][i] = Data("app", i)
        /\ hs[1] = "peek" => tgot[1] = << >>
    BY DEF UpOK
  <2> QED BY <1>4, <2>1, <2>2, <2>3, <2>4 DEF UpOK
<1> QED BY <1>3, <1>4

(* The same on their way down. *)
LEMMA DownCut ==
  ASSUME TypeOK, DownOK, Cut(s2c', s2c), UNCHANGED <<agot, tread>>,
         hs'[1] \in {"peek", "dial"} => hs[1] \in {"peek", "dial"},
         ~ClientClosed' /\ su'[1] \in {"run", "send"}
           => s2c' = s2c /\ ~ClientClosed /\ su[1] \in {"run", "send"},
         ClientClosed' => s2c' = << >>
  PROVE  DownOK'
<1>1. Len(agot) \in Nat /\ Len(s2c) \in Nat /\ Len(s2c') \in Nat /\ tread[1] \in Nat
  BY StreamFacts, LenProperties DEF Cut
<1>2. Len(s2c') <= Len(s2c) /\ \A i \in 1 .. Len(s2c') : i \in 1 .. Len(s2c) /\ s2c'[i] = s2c[i]
  BY <1>1 DEF Cut
<1>3. Len(agot') + Len(s2c') <= tread'[1]
  BY <1>1, <1>2 DEF DownOK
<1>4. \A i \in 1 .. Len(s2c') : s2c'[i] = Data("target", Len(agot') + i)
  BY <1>2 DEF DownOK
<1> QED BY <1>3, <1>4 DEF DownOK

(* The client's steps, one direction at a time. *)
LEMMA ClientStream ==
  ASSUME TypeOK, SessionOK, UpOK, DownOK, Stream, UNCHANGED kind,
         AppTakes \/ ClientReader \/ ClientWriter
  PROVE  SessionOK' /\ UpOK' /\ DownOK'
<1> USE DEF app, client, tunnel, table, target
<1>0. /\ UNCHANGED <<born, cur, hs, su, tread, tgot>>
      /\ 1 \in Sess /\ c2s \in Seq(Frame) /\ s2c \in Seq(Frame) /\ agot \in Seq(Frame)
      /\ Len(c2s) \in Nat /\ Len(s2c) \in Nat /\ Len(agot) \in Nat
      /\ Len(tgot[1]) \in Nat /\ cread \in Nat /\ tread[1] \in Nat /\ Peeking \in {0, 1}
      /\ Peeking' = Peeking
  <2>1. UNCHANGED <<born, cur, hs, su, tread, tgot>>
    BY DEF ClientReader, ClientWriter, AppTakes, SendDial, SendDialFails, ClientDown, ClientWriteClosed,
           ClientDownEnd, ClientUp, ClientUpEnd, ClientUpClose
  <2> QED BY <2>1, StreamFacts DEF Peeking
<1>s. cm' # "dial" => SessionOK'
  BY <1>0 DEF SessionOK
<1>1. CASE SendDial
  <2>0. cm = "dial" /\ c2s = << >> /\ cread = 0 /\ hs[1] = "peek" /\ cu = "off"
    BY <1>1 DEF SendDial, SessionOK
  <2>1. c2s' = Append(c2s, Dial)
    BY <1>1 DEF SendDial, Sent
  <2>2. Len(c2s') = 1 /\ c2s'[1] = Dial
    BY <2>0, <2>1
  <2>3. UpOK'
    <3>1. tgot[1] = << >> /\ Peeking = 1 /\ cread' = 0
      BY <1>1, <2>0 DEF UpOK, Peeking, SendDial
    <3> QED BY <1>0, <2>0, <2>2, <3>1 DEF UpOK
  <2>4. DownOK'
    <3>1. ~ClientClosed /\ ~ClientClosed'
      BY <1>1, <2>0 DEF SendDial, ClientClosed
    <3> QED BY <1>0, <1>1, <3>1, WholeAndNothing, DownCut DEF SendDial
  <2>5. cm' # "dial"
    BY <1>1 DEF SendDial
  <2> QED BY <1>s, <2>3, <2>4, <2>5
<1>2. CASE ClientUp
  <2>1. cm' = cm /\ cm \in Relaying /\ cm # "dial" /\ cread' = cread + 1 /\ UNCHANGED <<s2c, agot>>
    BY <1>2 DEF ClientUp, Relaying
  <2>2. ~ClientClosed /\ ~ClientClosed'
    BY <1>2 DEF ClientUp, ClientClosed, Relaying
  <2>3. DownOK'
    BY <1>0, <2>1, <2>2, WholeAndNothing, DownCut
  <2>4. UpOK'
    <3>1. Len(tgot[1]) <= cread' /\ \A i \in 1 .. Len(tgot[1]) : tgot[1][i] = Data("app", i)
      BY <1>0, <2>1 DEF UpOK
    <3>2. CASE cur = 0
      <4>1. c2s' = c2s
        BY <1>2, <3>2 DEF ClientUp
      <4> QED BY <1>0, <2>1, <3>1, <3>2, <4>1 DEF UpOK
    <3>3. CASE cur # 0
      <4>1. cur = 1
        BY <1>0, <3>3 DEF SessionOK, TypeOK
      <4>2. cread + 1 \in 1 .. MaxUp
        BY <1>2, ForwardAssumption DEF ClientUp, TypeOK
      <4>3. c2s' = Append(c2s, Data("app", cread + 1))
        BY <1>0, <1>2, <3>3, <4>2, SentSeq, FramesTyped DEF ClientUp
      <4>4. /\ Len(c2s') = Len(c2s) + 1 /\ c2s'[Len(c2s) + 1] = Data("app", cread + 1)
            /\ \A i \in 1 .. Len(c2s) : c2s'[i] = c2s[i]
        BY <1>0, <4>2, <4>3, FramesTyped, AppendProperties
      <4>5. ASSUME hs[1] # "gone"
            PROVE  /\ Len(tgot[1]) + Len(c2s') = cread' + Peeking
                   /\ \A i \in 1 .. Len(c2s') :
                        c2s'[i] = IF i <= Peeking THEN Dial ELSE Data("app", Len(tgot[1]) + i - Peeking)
        <5>1. Len(tgot[1]) + Len(c2s) = cread + Peeking
          BY <2>1, <2>2, <4>1, <4>5 DEF UpOK
        <5>2. Len(tgot[1]) + (Len(c2s) + 1) - Peeking = cread + 1 /\ ~(Len(c2s) + 1 <= Peeking)
          <6>1. Peeking = 1 => Len(tgot[1]) = 0
            BY DEF UpOK, Peeking
          <6>2. Len(tgot[1]) \in Nat /\ Len(c2s) \in Nat /\ cread \in Nat
            BY <1>0
          <6>3. Peeking = 0 \/ Peeking = 1
            BY DEF Peeking
          <6> QED BY <5>1, <6>1, <6>2, <6>3
        <5>3. \A i \in 1 .. Len(c2s) :
                c2s'[i] = IF i <= Peeking THEN Dial ELSE Data("app", Len(tgot[1]) + i - Peeking)
          BY <4>4, <4>5 DEF UpOK
        <5>4. \A i \in 1 .. Len(c2s') : i \in 1 .. Len(c2s) \/ i = Len(c2s) + 1
          BY <1>0, <4>4
        <5>5. Len(tgot[1]) + Len(c2s') = cread' + Peeking
          <6> DEFINE got == Len(tgot[1])
          <6>1. got + Len(c2s) = cread + Peeking /\ got \in Nat /\ Len(c2s) \in Nat /\ cread \in Nat
            BY <1>0, <5>1
          <6>2. Len(c2s') = Len(c2s) + 1 /\ cread' = cread + 1 /\ Peeking \in Nat
            BY <1>0, <2>1, <4>4
          <6> HIDE DEF got
          <6>3. got + Len(c2s') = cread' + Peeking
            BY <6>1, <6>2
          <6> QED BY <6>3 DEF got
        <5> QED BY <4>4, <5>2, <5>3, <5>4, <5>5
      <4> QED BY <1>0, <2>1, <3>1, <4>5 DEF UpOK
    <3> QED BY <3>2, <3>3
  <2> QED BY <1>s, <2>1, <2>3, <2>4
<1>3. CASE ClientUpEnd
  <2>1. cm' = cm /\ UNCHANGED <<cread, c2s, s2c, agot>> /\ cu = "run" /\ cu' = "close"
    BY <1>3 DEF ClientUpEnd
  <2>2. ClientClosed' = ClientClosed /\ cm' # "dial"
    BY <2>1 DEF ClientClosed, SessionOK
  <2>3. UpOK' /\ DownOK'
    BY <1>0, <2>1, <2>2, WholeAndNothing, UpCut, DownCut DEF DownOK
  <2> QED BY <1>s, <2>2, <2>3
<1>4. CASE ClientUpClose \/ ClientDownEnd \/ SendDialFails \/ (ClientWriteClosed /\ cm' = "gone")
  <2>1. Cut(c2s', c2s) /\ Cut(s2c', s2c) /\ UNCHANGED <<cread, agot>> /\ cm' # "dial" /\ ClientClosed'
    BY <1>4, ClientEndCuts
       DEF ClientUpClose, ClientDownEnd, SendDialFails, ClientWriteClosed, ClientClosed, SessionOK
  <2>2. s2c' = << >>
    BY <1>4, ClientEndCuts DEF ClientUpClose, ClientDownEnd, SendDialFails, ClientWriteClosed, DownOK
  <2> QED BY <1>0, <1>s, <2>1, <2>2, UpCut, DownCut
<1>6. CASE AppTakes \/ (ClientWriteClosed /\ cm' # "gone")
  <2>1. cm = "write" /\ cm' = "relay" /\ UNCHANGED <<cread, cu, c2s, s2c, agot>>
    BY <1>6 DEF AppTakes, ClientWriteClosed
  <2>2. ClientClosed' = ClientClosed /\ cm' # "dial" /\ cm # "dial"
    BY <2>1 DEF ClientClosed
  <2>3. UpOK' /\ DownOK'
    BY <1>0, <2>1, <2>2, WholeAndNothing, UpCut, DownCut DEF DownOK
  <2> QED BY <1>s, <2>2, <2>3
<1>5. CASE ClientDown
  <2>0. UNCHANGED <<cread, cu>> /\ cm = "relay" /\ ~ClientClosed
    BY <1>5 DEF ClientDown
  <2>1. /\ 1 \in 1 .. Len(s2c) /\ s2c[1] \in Frame /\ s2c' = RemoveAt(s2c, 1) /\ UNCHANGED c2s
        /\ cm' \in Relaying
        /\ agot' = IF s2c[1].k = "data" THEN Append(agot, s2c[1]) ELSE agot
    BY <1>0, <1>5, ReadyIsPosition DEF ClientDown, Relaying
  <2>2. s2c[1] = Data("target", Len(agot) + 1) /\ agot' = Append(agot, s2c[1])
    BY <2>1 DEF DownOK, Data
  <2>3. Len(s2c') = Len(s2c) - 1 /\ \A j \in 1 .. Len(s2c) - 1 : s2c'[j] = s2c[j + 1]
    BY <1>0, <2>1, FirstRemoved
  <2>4. /\ Len(agot') = Len(agot) + 1 /\ agot'[Len(agot) + 1] = s2c[1]
        /\ \A j \in 1 .. Len(agot) : agot'[j] = agot[j]
    BY <1>0, <2>1, <2>2, AppendProperties
  <2>5. ~ClientClosed' /\ cm' # "dial"
    BY <2>0, <2>1 DEF ClientClosed, Relaying
  <2>6. \A j \in 1 .. Len(agot') : agot'[j] = Data("target", j)
    BY <1>0, <2>2, <2>4 DEF DownOK
  <2>7. \A j \in 1 .. Len(s2c') : s2c'[j] = Data("target", Len(agot') + j)
    <3> SUFFICES ASSUME NEW j \in 1 .. Len(s2c') PROVE s2c'[j] = Data("target", Len(agot') + j)
      OBVIOUS
    <3>1. j \in 1 .. Len(s2c) - 1 /\ j + 1 \in 1 .. Len(s2c) /\ Len(agot) + (j + 1) = Len(agot') + j
      BY <1>0, <2>3, <2>4
    <3>2. s2c[j + 1] = Data("target", Len(agot) + (j + 1))
      BY <3>1 DEF DownOK
    <3> QED BY <2>3, <3>1, <3>2
  <2>8. Len(agot') + Len(s2c') = Len(agot) + Len(s2c)
    BY <1>0, <2>3, <2>4
  <2>9. DownOK'
    BY <1>0, <2>0, <2>5, <2>6, <2>7, <2>8 DEF DownOK
  <2> QED BY <1>0, <1>s, <2>0, <2>1, <2>5, <2>9, WholeAndNothing, UpCut
<1> QED BY <1>1, <1>2, <1>3, <1>4, <1>5, <1>6 DEF ClientReader, ClientWriter

(* The server's steps: its only session is the first. *)
LEMMA ServerStream ==
  ASSUME TypeOK, SessionOK, UpOK, DownOK, Stream, UNCHANGED kind,
         NEW s \in Sess, TargetTakes(s) \/ ServerReader(s) \/ ServerWriter(s)
  PROVE  SessionOK' /\ UpOK' /\ DownOK'
<1> USE DEF app, client, table, target
<1>0. /\ UNCHANGED <<born, cm, cu, cread, agot>>
      /\ 1 \in Sess /\ c2s \in Seq(Frame) /\ s2c \in Seq(Frame) /\ agot \in Seq(Frame)
      /\ Len(c2s) \in Nat /\ Len(s2c) \in Nat /\ Len(agot) \in Nat
      /\ tgot[1] \in Seq(Frame) /\ tread \in [Sess -> 0 .. MaxDown]
      /\ cread \in Nat /\ tread[1] \in Nat /\ Peeking \in {0, 1}
      /\ (ClientClosed' <=> ClientClosed)
      /\ hs \in [Sess -> {"none", "peek", "echo", "dial", "relay", "write", "gone"}]
      /\ su \in [Sess -> {"off", "run", "send", "close", "done"}]
  <2>1. UNCHANGED <<born, cm, cu, cread, agot>>
    BY DEF ServerReader, ServerWriter, ServePeek, ServeEcho, DialOk, DialFail, ServerDown, ServerReadEnd,
           ServerWriteClosed, ServerUpBlock, ServerUp, ServerUpEnd, ServerUpClose, TargetTakes
  <2> QED BY <2>1, StreamFacts DEF ClientClosed
<1>l. Len(tgot[1]) \in Nat
  BY StreamFacts
<1>1. s = 1
  BY DEF SessionOK, Relaying, ServerReader, ServerWriter, ServePeek, ServeEcho, DialOk, DialFail, ServerDown,
         ServerWriteClosed, ServerReadEnd, ServerUpBlock, ServerUp, ServerUpEnd, ServerUpClose, TargetTakes
<1>2. CASE DialFail(s) \/ ServerReadEnd(s) \/ ServerUpClose(s)
  <2>0. hs[1] # "echo" /\ ~(cm = "dial" /\ ServerReadEnd(s)) /\ ~(cm = "dial" /\ DialFail(s))
    BY <1>0, <1>1 DEF SessionOK, ServerReadEnd, DialFail, ClientClosed
  <2>1. UNCHANGED <<tgot, tread>> /\ Cut(c2s', c2s) /\ Cut(s2c', s2c)
    BY <1>0, <1>1, <1>2, <2>0, ServerEndCuts, WholeAndNothing
       DEF DialFail, ServerReadEnd, ServerUpClose, tunnel
  <2>2. hs'[1] \in {hs[1], "gone"} /\ \A t \in Sess \ {1} : hs'[t] = hs[t] /\ su'[t] = su[t]
    BY <1>0, <1>1, <1>2 DEF DialFail, ServerReadEnd, ServerUpClose
  <2>3. (hs'[1] = "gone" \/ su'[1] = "done") /\ (hs'[1] # "gone" => cur' = 0 /\ hs' = hs /\ su[1] = "close")
    BY <1>0, <1>1, <1>2, ServerEndCuts DEF DialFail, ServerReadEnd, ServerUpClose
  <2>4. s2c = << >> => s2c' = << >>
    BY <1>0, <2>1, LenProperties, EmptySeq DEF Cut
  <2>5. c2s = << >> => c2s' = << >>
    BY <1>0, <2>1, LenProperties, EmptySeq DEF Cut
  <2>6. UpOK'
    <3>1. CASE hs'[1] = "gone"
      BY <1>0, <2>1, <3>1 DEF UpOK
    <3>2. CASE hs'[1] # "gone"
      BY <1>0, <2>1, <2>2, <2>3, <3>2, UpCut
    <3> QED BY <3>1, <3>2
  <2>7. DownOK'
    <3>1. ClientClosed' => s2c' = << >>
      BY <1>0, <2>4 DEF DownOK
    <3>2. ASSUME su'[1] \in {"run", "send"} PROVE su[1] \in {"run", "send"} /\ s2c' = s2c
      <4>1. ServerReadEnd(s)
        BY <1>0, <1>1, <1>2, <3>2 DEF DialFail, ServerUpClose, SessionOK
      <4> QED BY <1>1, <2>0, <3>2, <4>1 DEF ServerReadEnd, tunnel
    <3> QED BY <1>0, <2>1, <2>2, <2>3, <3>1, <3>2, DownCut
  <2>8. SessionOK'
    <3>1. cm = "dial" => ServerUpClose(s)
      BY <1>2, <2>0
    <3>2. cm = "dial" => FALSE
      BY <1>1, <3>1 DEF SessionOK, ServerUpClose
    <3>3. hs'[1] \in {"peek", "dial"} => FALSE
      BY <2>2, <2>3 DEF SessionOK
    <3> QED BY <1>0, <2>2, <3>2, <3>3 DEF SessionOK
  <2> QED BY <2>6, <2>7, <2>8
<1>3. CASE DialOk(s)
  <2>1. UNCHANGED <<c2s, s2c, cur, tread, tgot>> /\ hs[1] = "dial" /\ hs'[1] = "relay" /\ su'[1] = "run"
    BY <1>0, <1>1, <1>3 DEF DialOk, tunnel
  <2>2. \A t \in Sess \ {1} : hs'[t] = hs[t] /\ su'[t] = su[t]
    BY <1>0, <1>1, <1>3 DEF DialOk
  <2>3. SessionOK'
    BY <1>0, <2>1, <2>2 DEF SessionOK
  <2>4. UpOK'
    BY <1>0, <2>1 DEF UpOK, Peeking, ClientClosed
  <2>5. DownOK'
    <3>1. tread[1] = 0 /\ Len(agot) + Len(s2c) = 0
      BY <1>0, <2>1 DEF DownOK
    <3> QED BY <1>0, <2>1, <3>1 DEF DownOK
  <2> QED BY <2>3, <2>4, <2>5
<1>4. CASE ServePeek(s)
  <2>1. /\ hs[1] = "peek" /\ 1 \in 1 .. Len(c2s) /\ c2s' = RemoveAt(c2s, 1) /\ UNCHANGED <<cur, su, tread, tgot>>
        /\ c2s[1] = Dial => hs' = [hs EXCEPT ![1] = "dial"] /\ UNCHANGED s2c
    BY <1>0, <1>1, <1>4, ReadyIsPosition DEF ServePeek
  <2>2. c2s[1] = Dial /\ tgot[1] = << >> /\ Peeking = 1
    BY <2>1 DEF UpOK, Peeking
  <2>3. hs'[1] = "dial" /\ \A t \in Sess \ {1} : hs'[t] = hs[t]
    BY <1>0, <2>1, <2>2
  <2>4. Peeking' = 0
    BY <2>3 DEF Peeking
  <2>5. Len(c2s') = Len(c2s) - 1 /\ \A j \in 1 .. Len(c2s) - 1 : c2s'[j] = c2s[j + 1]
    BY <1>0, <2>1, FirstRemoved
  <2>6. cm # "dial" /\ hs[1] # "gone"
    BY <1>0, <2>1 DEF SessionOK
  <2>7. UpOK'
    <3>1. /\ Len(c2s) <= cread + 1
          /\ ~ClientClosed /\ cur = 1 => Len(c2s) = cread + 1
          /\ \A j \in 1 .. Len(c2s) : c2s[j] = IF j <= 1 THEN Dial ELSE Data("app", 0 + j - 1)
      BY <1>0, <2>2, <2>6 DEF UpOK
    <3>2. \A j \in 1 .. Len(c2s') : c2s'[j] = Data("app", j)
      <4> SUFFICES ASSUME NEW j \in 1 .. Len(c2s') PROVE c2s'[j] = Data("app", j)
        OBVIOUS
      <4>1. j \in 1 .. Len(c2s) - 1 /\ j + 1 \in 1 .. Len(c2s) /\ ~(j + 1 <= 1) /\ 0 + (j + 1) - 1 = j
        BY <1>0, <2>5
      <4> QED BY <2>5, <3>1, <4>1
    <3>3. tgot' = tgot /\ Len(tgot[1]) = 0
      BY <2>1, <2>2
    <3>4. Len(c2s') <= cread /\ (~ClientClosed /\ cur = 1 => Len(c2s') = cread)
      BY <1>0, <2>5, <3>1
    <3>5. \A j \in 1 .. Len(c2s') : c2s'[j] = IF j <= 0 THEN Dial ELSE Data("app", 0 + j - 0)
      BY <3>2
    <3> QED BY <1>0, <2>1, <2>2, <2>3, <2>4, <3>3, <3>4, <3>5 DEF UpOK
  <2>8. DownOK'
    BY <1>0, <2>1, <2>2, <2>3, WholeAndNothing, DownCut DEF DownOK
  <2>9. SessionOK'
    BY <1>0, <2>1, <2>3, <2>6 DEF SessionOK
  <2> QED BY <2>7, <2>8, <2>9
<1>5. CASE ServerDown(s)
  <2>1. /\ hs[1] = "relay" /\ 1 \in 1 .. Len(c2s) /\ c2s' = RemoveAt(c2s, 1)
        /\ UNCHANGED <<s2c, cur, su, tread>>
        /\ IF c2s[1].k = "data"
           THEN tgot' = [tgot EXCEPT ![1] = Append(@, c2s[1])] /\ hs' = [hs EXCEPT ![1] = "write"]
           ELSE UNCHANGED <<tgot, hs>>
    BY <1>0, <1>1, <1>5, ReadyIsPosition DEF ServerDown
  <2>2. cm # "dial" /\ \A t \in Sess \ {1} : hs'[t] = hs[t]
    BY <1>0, <2>1 DEF SessionOK
  <2>3. SessionOK'
    BY <1>0, <2>1, <2>2 DEF SessionOK
  <2>4. DownOK'
    <3>1. hs'[1] \in {"relay", "write"}
      BY <1>0, <2>1
    <3> QED BY <1>0, <2>1, <3>1, WholeAndNothing, DownCut DEF DownOK
  <2>5. UpOK'
    <3>1. Peeking = 0 /\ Peeking' = 0 /\ hs'[1] \in {"relay", "write"}
      BY <1>0, <2>1 DEF Peeking
    <3>a. 0 + 1 - 0 = 1 /\ Len(tgot[1]) + 1 - 0 = Len(tgot[1]) + 1 /\ ~(1 <= 0)
      BY <1>l
    <3>2. c2s[1] = Data("app", Len(tgot[1]) + 1) /\ c2s[1].k = "data"
      BY <2>1, <3>1, <3>a DEF UpOK, Data
    <3>3. tgot'[1] = Append(tgot[1], c2s[1]) /\ c2s[1] \in Frame
      <4>1. tgot' = [tgot EXCEPT ![1] = Append(@, c2s[1])]
        BY <1>0, <2>1, <3>2
      <4>2. tgot \in [Sess -> Seq(Frame)] /\ c2s[1] \in Frame
        BY <1>0, <2>1, StreamFacts, ElementOfSeq
      <4> QED BY <1>0, <4>1, <4>2
    <3>4. Len(c2s') = Len(c2s) - 1 /\ \A j \in 1 .. Len(c2s) - 1 : c2s'[j] = c2s[j + 1]
      BY <1>0, <2>1, FirstRemoved
    <3>5. /\ Len(tgot'[1]) = Len(tgot[1]) + 1 /\ tgot'[1][Len(tgot[1]) + 1] = c2s[1]
          /\ \A j \in 1 .. Len(tgot[1]) : tgot'[1][j] = tgot[1][j]
      BY <1>0, <3>3, AppendProperties
    <3> DEFINE got == Len(tgot[1])
               now == Len(tgot'[1])
    <3>6. /\ got \in Nat /\ now = got + 1 /\ got <= cread /\ got + Len(c2s) <= cread
          /\ ~ClientClosed /\ cur = 1 => got + Len(c2s) = cread
      <4>1. got <= cread /\ got + Len(c2s) <= cread + Peeking /\ (~ClientClosed /\ cur = 1 => got + Len(c2s) = cread + Peeking)
        BY <2>1, <2>2 DEF UpOK
      <4> QED BY <1>0, <1>l, <3>1, <3>5, <4>1
    <3>7. \A j \in 1 .. now : tgot'[1][j] = Data("app", j)
      <4>1. \A j \in 1 .. now : j \in 1 .. got \/ j = got + 1
        BY <3>6
      <4>2. \A j \in 1 .. got : tgot[1][j] = Data("app", j)
        BY DEF UpOK
      <4> QED BY <3>2, <3>5, <4>1, <4>2
    <3>8. \A j \in 1 .. Len(c2s') : c2s'[j] = Data("app", now + j)
      <4> SUFFICES ASSUME NEW j \in 1 .. Len(c2s') PROVE c2s'[j] = Data("app", now + j)
        OBVIOUS
      <4>1. j \in 1 .. Len(c2s) - 1 /\ j + 1 \in 1 .. Len(c2s)
        BY <1>0, <3>4
      <4>2. ~(j + 1 <= 0) /\ got + (j + 1) - 0 = now + j
        <5> HIDE DEF got, now
        <5> QED BY <3>6, <4>1
      <4>3. c2s[j + 1] = Data("app", got + (j + 1) - 0)
        BY <2>1, <3>1, <4>1, <4>2 DEF UpOK
      <4> QED BY <3>4, <4>1, <4>2, <4>3
    <3>9. \A j \in 1 .. Len(c2s') : c2s'[j] = IF j <= 0 THEN Dial ELSE Data("app", now + j - 0)
      <4> HIDE DEF got, now
      <4> QED BY <3>6, <3>8
    <3>10. now <= cread /\ now + Len(c2s') <= cread + 0 /\ (~ClientClosed /\ cur = 1 => now + Len(c2s') = cread + 0)
      <4>1. Len(c2s') = Len(c2s) - 1 /\ Len(c2s) \in Nat /\ 1 <= Len(c2s) /\ cread \in Nat
        BY <1>0, <2>1, <3>4
      <4> HIDE DEF got, now
      <4> QED BY <3>6, <4>1
    <3> QED BY <1>0, <2>1, <3>1, <3>7, <3>9, <3>10 DEF UpOK
  <2> QED BY <2>3, <2>4, <2>5
<1>6. CASE ServerUp(s)
  <2>1. /\ su[1] \in {"run", "send"} /\ UNCHANGED <<c2s, cur, hs, tgot>>
        /\ tread' = [tread EXCEPT ![1] = @ + 1]
        /\ \/ s2c' \in Reply(s2c, Data("target", tread'[1])) /\ su' = [su EXCEPT ![1] = "run"]
           \/ ClientClosed /\ UNCHANGED s2c /\ su' = [su EXCEPT ![1] = "close"]
    BY <1>1, <1>6 DEF ServerUp
  <2>a. hs[1] \notin {"peek", "dial"}
    BY <2>1 DEF SessionOK
  <2>2. tread'[1] = tread[1] + 1 /\ tread[1] + 1 \in 1 .. MaxDown
    BY <1>0, <1>1, <1>6, <2>1, ForwardAssumption DEF TypeOK, ServerUp
  <2>3. SessionOK'
    BY <1>0, <2>1 DEF SessionOK
  <2>4. UpOK'
    <3>1. Peeking' = Peeking
      BY <2>1 DEF Peeking
    <3> QED BY <1>0, <2>1, WholeAndNothing, UpCut DEF UpOK
  <2>5. DownOK'
    <3>1. CASE ClientClosed
      <4>1. s2c' = << >> /\ s2c = << >>
        BY <2>1, <3>1 DEF Reply, DownOK
      <4> QED BY <1>0, <2>1, <2>2, <2>a, <3>1, <4>1 DEF DownOK
    <3>2. CASE ~ClientClosed
      <4>1. s2c' = Append(s2c, Data("target", tread[1] + 1))
        BY <2>1, <2>2, <3>2 DEF Reply, Sent
      <4>2. /\ Len(s2c') = Len(s2c) + 1 /\ s2c'[Len(s2c) + 1] = Data("target", tread[1] + 1)
            /\ \A j \in 1 .. Len(s2c) : s2c'[j] = s2c[j]
        BY <1>0, <2>2, <4>1, FramesTyped, AppendProperties
      <4>3. Len(agot) + Len(s2c) = tread[1]
        BY <2>1, <3>2 DEF DownOK
      <4>4. \A j \in 1 .. Len(s2c') : j \in 1 .. Len(s2c) \/ j = Len(s2c) + 1
        BY <1>0, <4>2
      <4>5. Len(agot) + (Len(s2c) + 1) = tread[1] + 1
        BY <1>0, <4>3
      <4>6. \A j \in 1 .. Len(s2c') : s2c'[j] = Data("target", Len(agot) + j)
        BY <4>2, <4>4, <4>5 DEF DownOK
      <4>7. Len(agot) + Len(s2c') = tread'[1]
        BY <2>2, <4>2, <4>5
      <4> QED BY <1>0, <2>1, <2>2, <2>a, <3>2, <4>6, <4>7 DEF DownOK
    <3> QED BY <3>1, <3>2
  <2> QED BY <2>3, <2>4, <2>5
<1>7. CASE ServerUpEnd(s) \/ ServerUpBlock(s)
  <2>1. /\ UNCHANGED <<c2s, s2c, cur, hs, tgot, tread>> /\ su[1] = "run"
        /\ su' = [su EXCEPT ![1] = "close"] \/ su' = [su EXCEPT ![1] = "send"]
    BY <1>1, <1>7 DEF ServerUpEnd, ServerUpBlock, tunnel
  <2>2. SessionOK'
    BY <1>0, <2>1 DEF SessionOK
  <2>3. UpOK'
    BY <1>0, <2>1, WholeAndNothing, UpCut DEF UpOK
  <2>4. DownOK'
    BY <1>0, <2>1, WholeAndNothing, DownCut DEF DownOK
  <2> QED BY <2>2, <2>3, <2>4
<1>8. CASE ServeEcho(s)
  BY <1>1, <1>8 DEF ServeEcho, SessionOK
<1>9. CASE TargetTakes(s) \/ ServerWriteClosed(s)
  <2>1. /\ UNCHANGED <<c2s, s2c, cur, su, tgot, tread>> /\ hs[1] = "write" /\ hs'[1] \in {"relay", "gone"}
        /\ \A t \in Sess \ {1} : hs'[t] = hs[t]
    BY <1>0, <1>1, <1>9 DEF TargetTakes, ServerWriteClosed, tunnel
  <2>2. SessionOK'
    BY <1>0, <2>1 DEF SessionOK
  <2>3. UpOK'
    BY <1>0, <2>1 DEF UpOK, Peeking
  <2>4. DownOK'
    BY <1>0, <2>1, WholeAndNothing, DownCut DEF DownOK
  <2> QED BY <2>2, <2>3, <2>4
<1> QED BY <1>2, <1>3, <1>4, <1>5, <1>6, <1>7, <1>8, <1>9 DEF ServerReader, ServerWriter

LEMMA StreamStep == TypeOK /\ StreamOK /\ [Next]_vars => StreamOK'
<1> SUFFICES ASSUME TypeOK, StreamOK, [Next]_vars, Stream' PROVE StreamOK'
  BY DEF StreamOK
<1>0. UNCHANGED kind /\ Stream /\ SessionOK /\ UpOK /\ DownOK
  BY DEF Next, vars, Stream, StreamOK
<1>1. CASE AppTakes \/ ClientReader \/ ClientWriter
  BY <1>0, <1>1, ClientStream DEF StreamOK
<1>2. ASSUME NEW s \in Sess, TargetTakes(s) \/ ServerReader(s) \/ ServerWriter(s) PROVE StreamOK'
  BY <1>0, <1>2, ServerStream DEF StreamOK
<1>3. CASE UNCHANGED <<client, tunnel, table, hs, su, tread, tgot, agot>>
  BY <1>0, <1>3 DEF client, tunnel, table, StreamOK, SessionOK, UpOK, DownOK, Peeking, ClientClosed
<1>4. ASSUME \/ AppWrite \/ AppClose \/ UNCHANGED vars
             \/ \E s \in Sess : TargetWrite(s) \/ TargetClose(s)
      PROVE  UNCHANGED <<client, tunnel, table, hs, su, tread, tgot, agot>>
  BY <1>4 DEF AppWrite, AppClose, TargetWrite, TargetClose, vars, state, app, target
<1>5. ~NewSession /\ ~ClientReadFails
  BY <1>0 DEF NewSession, ClientReadFails
<1> QED BY <1>1, <1>2, <1>3, <1>4, <1>5 DEF Next

(* Every variable keeps to its domain; in particular no more chunks are    *)
(* relayed than were written, whichever end closes first.                  *)
THEOREM ForwardTypes == Spec => []TypeOK
<1> QED BY FTypeInit, FTypeStep, PTL DEF Spec

(* The invariant: what is on its way and what has arrived, taken together. *)
THEOREM ForwardInvariant == Spec => []FInv
<1>1. Init => FInv
  BY FTypeInit, OnceInit, StreamInit DEF FInv
<1>2. FInv /\ [Next]_vars => FInv'
  BY FTypeStep, OnceStep, StreamStep DEF FInv
<1> QED BY <1>1, <1>2, PTL DEF Spec

(* Over a stream tunnel the target and the application each receive what   *)
(* the other wrote, in order and without gaps (relay, DialAndRelay).       *)
THEOREM RelayedInOrder == Spec => []InOrder
<1>1. FInv => InOrder
  <2> SUFFICES ASSUME FInv, Stream PROVE InOrder
    BY DEF InOrder
  <2>0. /\ TypeOK /\ UpOK /\ DownOK
        /\ 1 \in Sess /\ agot \in Seq(Frame) /\ tgot[1] \in Seq(Frame)
        /\ Len(agot) \in Nat /\ Len(tgot[1]) \in Nat /\ Len(s2c) \in Nat
    BY StreamFacts DEF FInv, StreamOK
  <2>1. ASSUME NEW q \in Seq(Frame), NEW o, NEW n \in Nat, Len(q) <= n, \A i \in 1 .. Len(q) : q[i] = Data(o, i)
        PROVE  IsPrefix(q, Chunks(o, n))
    <3> DEFINE m == Len(q)
    <3>0. m \in Nat /\ m <= n
      BY <2>1, LenProperties
    <3>1. Chunks(o, n) \in Seq({Data(o, i) : i \in 1 .. n}) /\ Len(Chunks(o, n)) = n
      <4> DEFINE S == {Data(o, i) : i \in 1 .. n}
      <4>1. Chunks(o, n) \in [1 .. n -> S]
        BY DEF Chunks
      <4> HIDE DEF S
      <4>2. Chunks(o, n) \in Seq(S)
        BY <2>1, <4>1, SeqDef
      <4>3. Len(Chunks(o, n)) = n
        BY <2>1 DEF Chunks
      <4> QED BY <4>2, <4>3 DEF S
    <3>2. /\ SubSeq(q, 1, m) = [i \in 1 .. m |-> q[i]]
          /\ SubSeq(Chunks(o, n), 1, m) = [i \in 1 .. m |-> Chunks(o, n)[i]]
      BY <3>0, <3>1
    <3>3. \A i \in 1 .. m : q[i] = Chunks(o, n)[i]
      BY <2>1, <3>0 DEF Chunks
    <3> QED BY <3>0, <3>1, <3>2, <3>3 DEF IsPrefix
  <2>2. Len(tgot[1]) <= asent /\ asent \in Nat
    BY <2>0 DEF UpOK, TypeOK
  <2>3. Len(agot) <= tsent[1] /\ tsent[1] \in Nat
    <3>1. Len(agot) + Len(s2c) <= tread[1] /\ tread[1] <= tsent[1] /\ tread[1] \in Nat /\ tsent[1] \in Nat
      BY <2>0, ForwardAssumption DEF DownOK, TypeOK
    <3> QED BY <2>0, <3>1
  <2>4. IsPrefix(tgot[1], Chunks("app", asent))
    BY <2>0, <2>1, <2>2 DEF UpOK
  <2>5. IsPrefix(agot, Chunks("target", tsent[1]))
    BY <2>0, <2>1, <2>3 DEF DownOK
  <2> QED BY <2>4, <2>5 DEF InOrder
<1> QED BY <1>1, ForwardInvariant, PTL

(* Whatever the tunnel loses or reorders and however often the session is  *)
(* made again, a target receives only what the application sent, and no    *)
(* chunk is delivered twice, to one target or to two.                      *)
THEOREM DeliveredOnce == Spec => []TargetBytes
<1>1. FInv => TargetBytes
  <2> SUFFICES ASSUME FInv, NEW s \in Sess, NEW t \in Sess, NEW i \in DOMAIN tgot[s], NEW j \in DOMAIN tgot[t]
               PROVE  tgot[s][i].o = "app" /\ (tgot[s][i] = tgot[t][j] => s = t /\ i = j)
    BY DEF TargetBytes
  <2>1. i \in 1 .. Len(tgot[s]) /\ j \in 1 .. Len(tgot[t])
    BY LenProperties DEF FInv, TypeOK
  <2>2. tgot[s][i] \in Upward \ {Dial} /\ (tgot[s][i] = tgot[t][j] => s = t /\ i = j)
    BY <2>1 DEF FInv, OnceOK
  <2> QED BY <2>2 DEF Upward, Data
<1> QED BY <1>1, ForwardInvariant, PTL
=============================================================================
