---------------------------- MODULE StreamProofs ----------------------------
(***************************************************************************)
(* Proofs about StreamServers: what a client without the key, or one that  *)
(* met another service on the port, can reach; for any number of clients,  *)
(* any of the protocols and any capacity.                                  *)
(***************************************************************************)
EXTENDS StreamServers, SequenceTheorems, TLAPS

-----------------------------------------------------------------------------
(* Scripts.  Words are the messages of all of them. *)

Words == {"nothing", "close", "retry", "drop", "hello", "server", "fin", "frame", "220", "EHLO", "caps",
          "STARTTLS", "AUTH", "535", "235", "BINARY", "299", "msg1", "msg2", "random", "record",
          "header", "password", "address", "CONNECT", "200", "upgrade", "101", "407", "auth", "404",
          "233", "request", "ok", "key"}
Steps == ({"send", "recv", "await"} \X Words) \cup ({"check"} \X Words \X Words \X Words)
         \cup {Arm, Clear, Enter, Hand, Up}
Scripts == Seq(Steps)

LEMMA StepTypes ==
  /\ \A m \in Words : R(m) \in Steps /\ S(m) \in Steps /\ Await(m) \in Steps
  /\ \A m, w, r \in Words : Check(m, w, r) \in Steps
  /\ Arm \in Steps /\ Clear \in Steps /\ Enter \in Steps /\ Hand \in Steps /\ Up \in Steps
BY DEF R, S, Check, Await, Steps

(* The steps of a script that are reached without passing a check, and what *)
(* the peer hears in them.                                                  *)
HasCheck(s) == \E e \in ToSet(s) : e[1] = "check"
Early(s) == {s[i] : i \in {j \in DOMAIN s : \A k \in 1 .. j - 1 : s[k][1] # "check"}}
Said(E) == {e[2] : e \in {d \in E : d[1] = "send"}} \cup {e[4] : e \in {d \in E : d[1] = "check"}}

LEMMA EarlySteps == \A s : Early(s) \subseteq ToSet(s)
BY DEF Early, ToSet

LEMMA ConcatScripts ==
  ASSUME NEW s \in Scripts, NEW t \in Scripts
  PROVE  /\ s \o t \in Scripts /\ ToSet(s \o t) = ToSet(s) \cup ToSet(t)
         /\ Early(s \o t) \subseteq Early(s) \cup Early(t)
         /\ HasCheck(s) => Early(s \o t) \subseteq Early(s)
         /\ HasCheck(s) \/ HasCheck(t) => HasCheck(s \o t)
<1> USE DEF Scripts
<1>1. /\ s \o t \in Scripts /\ Len(s \o t) = Len(s) + Len(t)
      /\ \A i \in 1 .. Len(s) + Len(t) : (s \o t)[i] = IF i <= Len(s) THEN s[i] ELSE t[i - Len(s)]
  BY ConcatProperties
<1>2. /\ Len(s) \in Nat /\ DOMAIN s = 1 .. Len(s) /\ Len(t) \in Nat /\ DOMAIN t = 1 .. Len(t)
      /\ DOMAIN (s \o t) = 1 .. Len(s) + Len(t)
  BY <1>1
<1>3. ASSUME NEW i \in DOMAIN s PROVE i \in DOMAIN (s \o t) /\ (s \o t)[i] = s[i]
  BY <1>1, <1>2
<1>4. ASSUME NEW i \in DOMAIN t PROVE Len(s) + i \in DOMAIN (s \o t) /\ (s \o t)[Len(s) + i] = t[i]
  BY <1>1, <1>2
<1>5. ASSUME NEW i \in DOMAIN (s \o t) 
      PROVE  i \in DOMAIN s \/ (i - Len(s) \in DOMAIN t /\ i = Len(s) + (i - Len(s)))
  BY <1>2
<1>6. ToSet(s \o t) = ToSet(s) \cup ToSet(t)
  <2>1. ASSUME NEW e \in ToSet(s) PROVE e \in ToSet(s \o t)
    BY <1>3 DEF ToSet
  <2>2. ASSUME NEW e \in ToSet(t) PROVE e \in ToSet(s \o t)
    BY <1>4 DEF ToSet
  <2>3. ASSUME NEW i \in DOMAIN (s \o t) PROVE (s \o t)[i] \in ToSet(s) \cup ToSet(t)
    <3>1. CASE i \in DOMAIN s
      BY <1>3, <3>1 DEF ToSet
    <3>2. CASE i - Len(s) \in DOMAIN t /\ i = Len(s) + (i - Len(s))
      <4> DEFINE j == i - Len(s)
      <4>1. j \in DOMAIN t /\ i = Len(s) + j
        BY <3>2
      <4> HIDE DEF j
      <4> QED BY <1>4, <4>1 DEF ToSet
    <3> QED BY <1>5, <2>3, <3>1, <3>2
  <2>4. ToSet(s \o t) \subseteq ToSet(s) \cup ToSet(t)
    BY <2>3 DEF ToSet
  <2> QED BY <2>1, <2>2, <2>4
<1>7. ASSUME NEW i \in DOMAIN (s \o t), \A k \in 1 .. i - 1 : (s \o t)[k][1] # "check"
      PROVE  (s \o t)[i] \in Early(s) \/ (~HasCheck(s) /\ (s \o t)[i] \in Early(t))
  <2>1. CASE i \in DOMAIN s
    <3>1. \A k \in 1 .. i - 1 : k \in DOMAIN s
      BY <1>2, <2>1
    <3>2. \A k \in 1 .. i - 1 : s[k][1] # "check"
      BY <1>3, <1>7, <3>1
    <3>3. s[i] \in Early(s)
      BY <2>1, <3>2 DEF Early
    <3> QED BY <1>3, <2>1, <3>3
  <2>2. CASE i \notin DOMAIN s
    <3> DEFINE j == i - Len(s)
    <3>0. Len(s) \in Nat /\ i \in Nat
      BY <1>2
    <3>1. j \in DOMAIN t /\ i = Len(s) + j
      BY <1>5, <2>2
    <3>2. \A k \in DOMAIN s : k \in 1 .. i - 1
      BY <1>2, <2>2, <3>0
    <3>3. ~HasCheck(s)
      BY <1>3, <1>7, <3>2 DEF HasCheck, ToSet
    <3>4. ASSUME NEW k \in 1 .. j - 1 PROVE t[k][1] # "check"
      <4>1. k \in DOMAIN t /\ Len(s) + k \in 1 .. i - 1
        BY <1>2, <3>0, <3>1
      <4> QED BY <1>4, <1>7, <4>1
    <3>5. (s \o t)[i] = t[j]
      BY <1>4, <3>1
    <3> QED BY <3>1, <3>3, <3>4, <3>5 DEF Early
  <2> QED BY <2>1, <2>2
<1>8. Early(s \o t) \subseteq Early(s) \cup Early(t) /\ (HasCheck(s) => Early(s \o t) \subseteq Early(s))
  BY <1>7 DEF Early
<1>9. HasCheck(s) \/ HasCheck(t) => HasCheck(s \o t)
  BY <1>6 DEF HasCheck
<1> QED BY <1>1, <1>6, <1>8, <1>9

LEMMA StepList ==
  /\ S("hello") \in Steps /\ S("server") \in Steps /\ S("fin") \in Steps /\ S("frame") \in Steps
  /\ S("220") \in Steps /\ S("EHLO") \in Steps /\ S("caps") \in Steps /\ S("STARTTLS") \in Steps
  /\ S("AUTH") \in Steps /\ S("235") \in Steps /\ S("BINARY") \in Steps /\ S("299") \in Steps
  /\ S("msg1") \in Steps /\ S("msg2") \in Steps /\ S("random") \in Steps /\ S("record") \in Steps
  /\ S("header") \in Steps /\ S("password") \in Steps /\ S("address") \in Steps
  /\ S("CONNECT") \in Steps /\ S("200") \in Steps /\ S("upgrade") \in Steps /\ S("101") \in Steps
  /\ S("auth") \in Steps /\ S("233") \in Steps /\ S("request") \in Steps /\ S("ok") \in Steps
  /\ S("key") \in Steps /\ R("hello") \in Steps /\ R("server") \in Steps /\ R("fin") \in Steps
  /\ R("frame") \in Steps /\ R("220") \in Steps /\ R("EHLO") \in Steps /\ R("caps") \in Steps
  /\ R("STARTTLS") \in Steps /\ R("235") \in Steps /\ R("BINARY") \in Steps /\ R("299") \in Steps
  /\ R("address") \in Steps /\ R("CONNECT") \in Steps /\ R("200") \in Steps
  /\ R("upgrade") \in Steps /\ R("101") \in Steps /\ R("233") \in Steps /\ R("request") \in Steps
  /\ R("ok") \in Steps /\ Check("AUTH", "close", "535") \in Steps
  /\ Check("msg1", "close", "nothing") \in Steps /\ Check("msg2", "close", "nothing") \in Steps
  /\ Check("record", "close", "nothing") \in Steps /\ Check("random", "close", "nothing") \in Steps
  /\ Check("header", "close", "nothing") \in Steps /\ Check("password", "close", "nothing") \in Steps
  /\ Check("CONNECT", "retry", "407") \in Steps /\ Check("hello", "drop", "nothing") \in Steps
  /\ Check("auth", "retry", "404") \in Steps /\ Check("key", "close", "nothing") \in Steps
<1>1. /\ "nothing" \in Words /\ "close" \in Words /\ "retry" \in Words /\ "drop" \in Words
      /\ "535" \in Words /\ "407" \in Words /\ "404" \in Words /\ "hello" \in Words
      /\ "server" \in Words /\ "fin" \in Words /\ "frame" \in Words /\ "220" \in Words
      /\ "EHLO" \in Words /\ "caps" \in Words /\ "STARTTLS" \in Words /\ "AUTH" \in Words
      /\ "235" \in Words /\ "BINARY" \in Words /\ "299" \in Words /\ "msg1" \in Words
      /\ "msg2" \in Words /\ "random" \in Words /\ "record" \in Words /\ "header" \in Words
      /\ "password" \in Words /\ "address" \in Words /\ "CONNECT" \in Words /\ "200" \in Words
      /\ "upgrade" \in Words /\ "101" \in Words /\ "auth" \in Words /\ "233" \in Words
      /\ "request" \in Words /\ "ok" \in Words /\ "key" \in Words
  BY DEF Words
<1> QED BY <1>1, StepTypes

(* The pieces that scripts share. *)
LEMMA Pieces ==
  /\ TLSServe \in Scripts /\ ToSet(TLSServe) = {R("hello"), S("server")}
  /\ TLSDial \in Scripts /\ ToSet(TLSDial) = {S("hello"), R("server")}
  /\ QUICHello \in Scripts /\ ToSet(QUICHello) = {S("hello"), R("server"), S("fin")}
  /\ EchoLoop \in Scripts /\ ToSet(EchoLoop) = {R("frame"), S("frame")}
  /\ FirstPing \in Scripts
<1>1. TLSServe \in Scripts /\ TLSDial \in Scripts /\ EchoLoop \in Scripts /\ <<S("fin")>> \in Scripts
  BY StepList DEF Scripts, TLSServe, TLSDial, EchoLoop
<1>2. FirstPing \in Scripts
  BY StepTypes, StepList DEF Scripts, FirstPing
<1>3. /\ ToSet(TLSServe) = {R("hello"), S("server")} /\ ToSet(TLSDial) = {S("hello"), R("server")}
      /\ ToSet(EchoLoop) = {R("frame"), S("frame")} /\ ToSet(<<S("fin")>>) = {S("fin")}
  BY DEF TLSServe, TLSDial, EchoLoop, ToSet
<1>4. QUICHello \in Scripts /\ ToSet(QUICHello) = {S("hello"), R("server"), S("fin")}
  <2>1. QUICHello = TLSDial \o <<S("fin")>>
    BY DEF QUICHello
  <2>2. QUICHello \in Scripts /\ ToSet(QUICHello) = ToSet(TLSDial) \cup ToSet(<<S("fin")>>)
    BY <1>1, <2>1, ConcatScripts
  <2> QED BY <1>3, <2>2
<1> QED BY <1>1, <1>2, <1>3, <1>4

-----------------------------------------------------------------------------
(* The servers of the protocols with a key. *)

(* What a client without the key may hear. *)
Refusals(p) ==
  CASE p = "smtp" -> {"220", "caps", "server", "535"}
    [] p = "naive" -> {"server", "407"}
    [] p = "shadowtls" -> {"random", "server", "nothing"}
    [] p \in {"trojan", "anytls"} -> {"server", "nothing"}
    [] OTHER -> {"nothing"}

(* A script whose early steps say no more than that, and hand no tunnel over. *)
Guards(s, p) ==
  /\ s \in Scripts /\ HasCheck(s)
  /\ Said(Early(s)) \subseteq Refusals(p)
  /\ Hand \in Early(s) => p = "shadowsocks"

LEMMA SMTPGuards == Guards(SMTPServer, "smtp")
<1> DEFINE a == <<Arm, S("220"), R("EHLO"), S("caps"), R("STARTTLS"), S("220")>>
           b == <<R("EHLO"), S("caps"), Check("AUTH", "close", "535"), S("235"), R("BINARY"), S("299"),
                  Clear, Hand>>
<1>1. a \in Scripts /\ b \in Scripts
  BY StepTypes, StepList DEF Scripts
<1>2. ToSet(a) \subseteq {Arm, S("220"), R("EHLO"), S("caps"), R("STARTTLS")}
  BY DEF ToSet
<1>3. Early(b) \subseteq {R("EHLO"), S("caps"), Check("AUTH", "close", "535")}
  BY DEF Early, R, S, Check, Clear, Hand
<1>4. HasCheck(b)
  <2>1. b[3] \in ToSet(b) /\ b[3][1] = "check"
    BY DEF ToSet, Check
  <2> QED BY <2>1 DEF HasCheck
<1>5. SMTPServer = (a \o TLSServe) \o b
  BY DEF SMTPServer
<1> HIDE DEF a, b
<1>6. /\ a \o TLSServe \in Scripts /\ ToSet(a \o TLSServe) = ToSet(a) \cup ToSet(TLSServe)
      /\ SMTPServer \in Scripts /\ HasCheck(SMTPServer)
      /\ Early(SMTPServer) \subseteq Early(a \o TLSServe) \cup Early(b)
  BY <1>1, <1>4, <1>5, Pieces, ConcatScripts
<1>7. Early(SMTPServer) \subseteq {Arm, S("220"), R("EHLO"), S("caps"), R("STARTTLS"), R("hello"), S("server"),
                                   Check("AUTH", "close", "535")}
  BY <1>2, <1>3, <1>6, Pieces, EarlySteps
<1>8. Said(Early(SMTPServer)) \subseteq Refusals("smtp") /\ Hand \notin Early(SMTPServer)
  BY <1>7 DEF Said, Refusals, R, S, Check, Arm, Hand
<1> QED BY <1>6, <1>8 DEF Guards

(* In the others nothing comes between what all clients hear and the key. *)
LEMMA KeyNext ==
  ASSUME NEW a \in Scripts, NEW b \in Scripts, NEW p,
         b # << >>, b[1][1] = "check", b[1][4] \in Refusals(p),
         Said(ToSet(a)) \subseteq Refusals(p), Hand \in ToSet(a) => p = "shadowsocks"
  PROVE  Guards(a \o b, p)
<1>1. 1 \in DOMAIN b /\ b[1] \in ToSet(b)
  BY DEF Scripts, ToSet
<1>2. HasCheck(b)
  BY <1>1 DEF HasCheck
<1>3. Early(b) \subseteq {b[1]}
  <2>1. \A i \in DOMAIN b : i = 1 \/ 1 \in 1 .. i - 1
    BY DEF Scripts
  <2> QED BY <2>1 DEF Early
<1>4. /\ a \o b \in Scripts /\ HasCheck(a \o b)
      /\ Early(a \o b) \subseteq ToSet(a) \cup {b[1]}
  BY <1>2, <1>3, ConcatScripts, EarlySteps
<1>5. Said(Early(a \o b)) \subseteq Refusals(p)
  BY <1>4 DEF Said
<1>6. Hand # b[1]
  BY DEF Hand
<1> QED BY <1>4, <1>5, <1>6 DEF Guards

LEMMA GuardsExtend ==
  ASSUME NEW s, NEW p, Guards(s, p), NEW t \in Scripts
  PROVE  Guards(s \o t, p)
<1>1. s \o t \in Scripts /\ HasCheck(s \o t) /\ Early(s \o t) \subseteq Early(s)
  BY ConcatScripts DEF Guards
<1> QED BY <1>1 DEF Guards, Said

LEMMA NoiseGuards == Guards(NoiseServer, "noise")
<1> DEFINE a == <<Arm>>
           b == <<Check("msg1", "close", "nothing"), S("msg2")>>
           c == <<Clear, Hand>>
<1>1. a \in Scripts /\ b \in Scripts /\ c \in Scripts
  BY StepTypes, StepList DEF Scripts
<1>2. b # << >> /\ b[1][1] = "check" /\ b[1][4] \in Refusals("noise")
  BY DEF Check, Refusals
<1>3. ToSet(a) = {Arm}
  BY DEF ToSet
<1>4. NoiseServer = (a \o b) \o c
  BY DEF NoiseServer, NoiseHandshake
<1> HIDE DEF a, b, c
<1>5. Said(ToSet(a)) \subseteq Refusals("noise") /\ Hand \notin ToSet(a)
  BY <1>3 DEF Said, Arm, Hand
<1>6. Guards(a \o b, "noise")
  BY <1>1, <1>2, <1>5, KeyNext
<1> QED BY <1>1, <1>4, <1>6, GuardsExtend

LEMMA ShadowTLSGuards == Guards(ShadowTLSServer, "shadowtls")
<1> DEFINE a == <<Arm, S("random")>>
           b == <<Check("record", "close", "nothing"), S("record"), Clear, Hand>>
<1>1. a \in Scripts /\ b \in Scripts
  BY StepTypes, StepList DEF Scripts
<1>2. b # << >> /\ b[1][1] = "check" /\ b[1][4] \in Refusals("shadowtls")
  BY DEF Check, Refusals
<1>3. ToSet(a) = {Arm, S("random")}
  BY DEF ToSet
<1>4. ShadowTLSServer = (a \o TLSServe) \o b
  BY DEF ShadowTLSServer
<1> HIDE DEF a, b
<1>5. a \o TLSServe \in Scripts /\ ToSet(a \o TLSServe) = {Arm, S("random"), R("hello"), S("server")}
  BY <1>1, <1>3, Pieces, ConcatScripts
<1>6. Said(ToSet(a \o TLSServe)) \subseteq Refusals("shadowtls") /\ Hand \notin ToSet(a \o TLSServe)
  BY <1>5 DEF Said, Refusals, R, S, Arm, Hand
<1> QED BY <1>1, <1>2, <1>4, <1>5, <1>6, KeyNext

LEMMA TrojanGuards == Guards(TrojanServer, "trojan")
<1> DEFINE a == <<Arm>>
           b == <<Check("header", "close", "nothing"), Clear, Hand>>
<1>1. a \in Scripts /\ b \in Scripts
  BY StepTypes, StepList DEF Scripts
<1>2. b # << >> /\ b[1][1] = "check" /\ b[1][4] \in Refusals("trojan")
  BY DEF Check, Refusals
<1>3. ToSet(a) = {Arm}
  BY DEF ToSet
<1>4. TrojanServer = (a \o TLSServe) \o b
  BY DEF TrojanServer
<1> HIDE DEF a, b
<1>5. a \o TLSServe \in Scripts /\ ToSet(a \o TLSServe) = {Arm, R("hello"), S("server")}
  BY <1>1, <1>3, Pieces, ConcatScripts
<1>6. Said(ToSet(a \o TLSServe)) \subseteq Refusals("trojan") /\ Hand \notin ToSet(a \o TLSServe)
  BY <1>5 DEF Said, Refusals, R, S, Arm, Hand
<1> QED BY <1>1, <1>2, <1>4, <1>5, <1>6, KeyNext

LEMMA AnyTLSGuards == Guards(AnyTLSServer, "anytls")
<1> DEFINE b == <<Check("password", "close", "nothing"), R("address"), Hand>>
<1>1. b \in Scripts
  BY StepTypes, StepList DEF Scripts
<1>2. b # << >> /\ b[1][1] = "check" /\ b[1][4] \in Refusals("anytls")
  BY DEF Check, Refusals
<1>3. Said(ToSet(TLSServe)) \subseteq Refusals("anytls") /\ Hand \notin ToSet(TLSServe)
  BY Pieces DEF Said, Refusals, R, S, Hand
<1>4. AnyTLSServer = TLSServe \o b
  BY DEF AnyTLSServer
<1> HIDE DEF b
<1> QED BY <1>1, <1>2, <1>3, <1>4, Pieces, KeyNext

LEMMA NaiveGuards == Guards(NaiveServer, "naive")
<1> DEFINE b == <<Check("CONNECT", "retry", "407"), S("200"), Hand>>
<1>1. b \in Scripts
  BY StepTypes, StepList DEF Scripts
<1>2. b # << >> /\ b[1][1] = "check" /\ b[1][4] \in Refusals("naive")
  BY DEF Check, Refusals
<1>3. Said(ToSet(TLSServe)) \subseteq Refusals("naive") /\ Hand \notin ToSet(TLSServe)
  BY Pieces DEF Said, Refusals, R, S, Hand
<1>4. NaiveServer = TLSServe \o b
  BY DEF NaiveServer
<1> HIDE DEF b
<1> QED BY <1>1, <1>2, <1>3, <1>4, Pieces, KeyNext

LEMMA Hysteria2Guards == Guards(Hysteria2Server, "hysteria2")
<1> DEFINE b == Hysteria2Server
<1>1. b \in Scripts
  BY StepTypes, StepList DEF Scripts, Hysteria2Server
<1>2. b[1] = Check("hello", "drop", "nothing") /\ 1 \in DOMAIN b
  BY DEF Hysteria2Server
<1> HIDE DEF b
<1>3. Early(b) \subseteq {b[1]} /\ HasCheck(b)
  <2>1. \A i \in DOMAIN b : i = 1 \/ 1 \in 1 .. i - 1
    BY <1>1 DEF Scripts
  <2>2. b[1][1] = "check"
    BY <1>2 DEF Check
  <2> QED BY <1>2, <2>1, <2>2 DEF Early, HasCheck, ToSet
<1>4. Said(Early(b)) \subseteq Refusals("hysteria2") /\ Hand \notin Early(b)
  BY <1>2, <1>3 DEF Said, Check, Refusals, Hand
<1>5. Guards(b, "hysteria2")
  BY <1>1, <1>3, <1>4 DEF Guards
<1> QED BY <1>5 DEF b

LEMMA ShadowsocksGuards == Guards(ShadowsocksServer, "shadowsocks")
<1> DEFINE b == ShadowsocksServer
<1>1. b \in Scripts
  BY StepTypes, StepList DEF Scripts, ShadowsocksServer
<1>2. ToSet(b) = {Enter, Hand, Check("key", "close", "nothing")}
  BY DEF ShadowsocksServer, ToSet
<1> HIDE DEF b
<1>3. HasCheck(b)
  BY <1>2 DEF HasCheck, Check
<1>4. Said(Early(b)) \subseteq Refusals("shadowsocks")
  BY <1>2, EarlySteps DEF Said, Check, Enter, Hand, Refusals
<1>5. Guards(b, "shadowsocks")
  BY <1>1, <1>3, <1>4 DEF Guards
<1> QED BY <1>5 DEF b

LEMMA KeyedGuards == \A p \in Keyed : Guards(Serve(p) \o EchoLoop, p) /\ "frame" \notin Refusals(p)
<1>1. Guards(Serve("smtp"), "smtp")
  BY SMTPGuards DEF Serve
<1>2. Guards(Serve("noise"), "noise")
  BY NoiseGuards DEF Serve
<1>3. Guards(Serve("shadowtls"), "shadowtls")
  BY ShadowTLSGuards DEF Serve
<1>4. Guards(Serve("trojan"), "trojan")
  BY TrojanGuards DEF Serve
<1>5. Guards(Serve("anytls"), "anytls")
  BY AnyTLSGuards DEF Serve
<1>6. Guards(Serve("naive"), "naive")
  BY NaiveGuards DEF Serve
<1>7. Guards(Serve("hysteria2"), "hysteria2")
  BY Hysteria2Guards DEF Serve
<1>8. Guards(Serve("shadowsocks"), "shadowsocks")
  BY ShadowsocksGuards DEF Serve
<1>9. \A p \in Keyed : Guards(Serve(p), p)
  BY <1>1, <1>2, <1>3, <1>4, <1>5, <1>6, <1>7, <1>8 DEF Keyed
<1>10. \A p \in Keyed : "frame" \notin Refusals(p)
  BY DEF Keyed, Refusals
<1> QED BY <1>9, <1>10, Pieces, GuardsExtend

-----------------------------------------------------------------------------
(* The dials of the protocols whose handshake has an answer. *)

Answered == StreamProtocols \ Unanswered

(* A dial that waits for what neither another service nor a server that    *)
(* refuses the key will say.                                               *)
Waits(e, p) == /\ Reading(e) /\ e[2] # "server"
               /\ p \in Keyed => e[1] = "check" \/ e[2] \notin Refusals(p)
Stops(s, p) == s \in Scripts /\ Up \notin ToSet(s) /\ \E e \in ToSet(s) : Waits(e, p)

LEMMA StopsAtLast ==
  ASSUME NEW a \in Scripts, NEW b \in Scripts, NEW p, Up \notin ToSet(a), Stops(b, p)
  PROVE  Stops(a \o b, p)
BY ConcatScripts DEF Stops

LEMMA StopsBefore ==
  ASSUME NEW a, NEW b \in Scripts, NEW p, Stops(a, p), Up \notin ToSet(b)
  PROVE  Stops(a \o b, p)
BY ConcatScripts DEF Stops

(* Most begin with a deadline and a TLS handshake. *)
LEMMA Starts ==
  /\ <<Arm>> \in Scripts /\ Up \notin ToSet(<<Arm>>)
  /\ <<Arm>> \o TLSDial \in Scripts /\ Up \notin ToSet(<<Arm>> \o TLSDial)
  /\ <<Arm>> \o QUICHello \in Scripts /\ Up \notin ToSet(<<Arm>> \o QUICHello)
<1>1. <<Arm>> \in Scripts
  BY StepTypes DEF Scripts
<1>2. Up \notin ToSet(<<Arm>>)
  BY DEF ToSet, Arm, Up
<1>3. Up \notin ToSet(TLSDial) /\ Up \notin ToSet(QUICHello)
  BY Pieces DEF R, S, Up
<1> QED BY <1>1, <1>2, <1>3, Pieces, ConcatScripts

LEMMA SMTPStops == Stops(SMTPDial, "smtp")
<1> DEFINE a == <<Arm, R("220"), S("EHLO"), R("caps"), S("STARTTLS"), R("220")>>
           b == <<S("EHLO"), R("caps"), S("AUTH"), R("235"), S("BINARY"), R("299"), Clear>>
<1>1. a \in Scripts /\ b \in Scripts
  BY StepTypes, StepList DEF Scripts
<1>2. Up \notin ToSet(a) /\ Up \notin ToSet(TLSDial)
  BY Pieces DEF ToSet, Arm, R, S, Up
<1>3. Up \notin ToSet(b)
  BY DEF ToSet, Clear, R, S, Up
<1>4. b[4] = R("235") /\ b[4] \in ToSet(b)
  BY DEF ToSet
<1>5. Waits(R("235"), "smtp")
  BY DEF Waits, Reading, R, Refusals
<1>6. Stops(b, "smtp")
  BY <1>1, <1>3, <1>4, <1>5 DEF Stops
<1>7. SMTPDial = (a \o TLSDial) \o b
  BY DEF SMTPDial
<1> HIDE DEF a, b
<1>8. a \o TLSDial \in Scripts /\ Up \notin ToSet(a \o TLSDial)
  BY <1>1, <1>2, Pieces, ConcatScripts
<1> QED BY <1>1, <1>6, <1>7, <1>8, StopsAtLast

LEMMA NoiseStops == Stops(NoiseDial, "noise")
<1> DEFINE b == <<S("msg1"), Check("msg2", "close", "nothing")>>
           c == <<Clear>>
<1>1. b \in Scripts /\ c \in Scripts
  BY StepTypes, StepList DEF Scripts
<1>2. Up \notin ToSet(b) /\ Up \notin ToSet(c)
  BY DEF ToSet, S, Check, Clear, Up
<1>3. Check("msg2", "close", "nothing") \in ToSet(b)
  BY DEF ToSet
<1>4. Waits(Check("msg2", "close", "nothing"), "noise")
  BY DEF Waits, Reading, Check
<1>5. Stops(b, "noise")
  BY <1>1, <1>2, <1>3, <1>4 DEF Stops
<1>6. NoiseDial = (<<Arm>> \o b) \o c
  BY DEF NoiseDial, NoiseHandshake
<1> HIDE DEF b, c
<1>7. Stops(<<Arm>> \o b, "noise")
  BY <1>1, <1>5, Starts, StopsAtLast
<1> QED BY <1>1, <1>2, <1>6, <1>7, StopsBefore

LEMMA ShadowTLSStops == Stops(ShadowTLSDial, "shadowtls")
<1> DEFINE a == <<Arm, Check("random", "close", "nothing")>>
           b == <<S("record"), Check("record", "close", "nothing"), Clear>>
<1>1. a \in Scripts /\ b \in Scripts
  BY StepTypes, StepList DEF Scripts
<1>2. Up \notin ToSet(a) /\ Up \notin ToSet(b) /\ Up \notin ToSet(TLSDial)
  BY Pieces DEF ToSet, Arm, Clear, R, S, Check, Up
<1>3. Check("record", "close", "nothing") \in ToSet(b)
  BY DEF ToSet
<1>4. Waits(Check("record", "close", "nothing"), "shadowtls")
  BY DEF Waits, Reading, Check
<1>5. Stops(b, "shadowtls")
  BY <1>1, <1>2, <1>3, <1>4 DEF Stops
<1>6. ShadowTLSDial = (a \o TLSDial) \o b
  BY DEF ShadowTLSDial
<1> HIDE DEF a, b
<1>7. a \o TLSDial \in Scripts /\ Up \notin ToSet(a \o TLSDial)
  BY <1>1, <1>2, Pieces, ConcatScripts
<1> QED BY <1>1, <1>5, <1>6, <1>7, StopsAtLast

(* Those over HTTP wait for a 200. *)
LEMMA TunnelAnswers == \A p \in StreamProtocols : p # "smtp" => Waits(R("200"), p)
BY DEF Waits, Reading, R, Refusals, StreamProtocols

LEMMA HTTPStops == Stops(HTTPDial, "http") /\ Stops(HTTPSDial, "https")
<1> DEFINE b == <<Arm, S("CONNECT"), R("200"), Clear>>
<1>1. b \in Scripts
  BY StepTypes, StepList DEF Scripts
<1>2. Up \notin ToSet(b) /\ R("200") \in ToSet(b)
  BY DEF ToSet, Arm, Clear, R, S, Up
<1>3. HTTPDial = b /\ HTTPSDial = (<<Arm>> \o TLSDial) \o b
  BY DEF HTTPDial, HTTPSDial
<1> HIDE DEF b
<1>4. Stops(b, "http") /\ Stops(b, "https")
  BY <1>1, <1>2, TunnelAnswers DEF Stops, StreamProtocols
<1> QED BY <1>1, <1>3, <1>4, Starts, StopsAtLast

LEMMA NaiveStops == Stops(NaiveDial, "naive")
<1> DEFINE b == <<Clear, S("CONNECT"), R("200")>>
<1>1. b \in Scripts
  BY StepTypes, StepList DEF Scripts
<1>2. Up \notin ToSet(b) /\ R("200") \in ToSet(b)
  BY DEF ToSet, Clear, R, S, Up
<1>3. NaiveDial = (<<Arm>> \o TLSDial) \o b
  BY DEF NaiveDial
<1> HIDE DEF b
<1>4. Stops(b, "naive")
  BY <1>1, <1>2, TunnelAnswers DEF Stops, StreamProtocols
<1> QED BY <1>1, <1>3, <1>4, Starts, StopsAtLast

LEMMA H3Stops == Stops(H3Dial, "http3")
<1> DEFINE b == <<Clear, S("CONNECT"), R("200")>>
<1>1. b \in Scripts
  BY StepTypes, StepList DEF Scripts
<1>2. Up \notin ToSet(b) /\ R("200") \in ToSet(b)
  BY DEF ToSet, Clear, R, S, Up
<1>3. H3Dial = (<<Arm>> \o QUICHello) \o b
  BY DEF H3Dial
<1> HIDE DEF b
<1>4. Stops(b, "http3")
  BY <1>1, <1>2, TunnelAnswers DEF Stops, StreamProtocols
<1> QED BY <1>1, <1>3, <1>4, Starts, StopsAtLast

LEMMA Hysteria2Stops == Stops(Hysteria2Dial, "hysteria2")
<1> DEFINE b == <<S("auth"), R("233"), Clear, S("request"), R("ok")>>
<1>1. b \in Scripts
  BY StepTypes, StepList DEF Scripts
<1>2. Up \notin ToSet(b) /\ R("233") \in ToSet(b)
  BY DEF ToSet, Clear, R, S, Up
<1>3. Hysteria2Dial = (<<Arm>> \o QUICHello) \o b
  BY DEF Hysteria2Dial
<1> HIDE DEF b
<1>4. Waits(R("233"), "hysteria2")
  BY DEF Waits, Reading, R, Refusals
<1>5. Stops(b, "hysteria2")
  BY <1>1, <1>2, <1>4 DEF Stops
<1> QED BY <1>1, <1>3, <1>5, Starts, StopsAtLast

LEMMA WSStops == Stops(WSDial(FALSE), "ws") /\ Stops(WSDial(TRUE), "wss")
<1> DEFINE b == <<S("upgrade"), R("101"), Clear>>
<1>1. b \in Scripts /\ << >> \in Scripts
  BY StepTypes, StepList DEF Scripts
<1>2. Up \notin ToSet(b) /\ R("101") \in ToSet(b) /\ Up \notin ToSet(<< >>)
  BY DEF ToSet, Clear, R, S, Up
<1>3. WSDial(FALSE) = (<<Arm>> \o << >>) \o b /\ WSDial(TRUE) = (<<Arm>> \o TLSDial) \o b
  BY DEF WSDial
<1> HIDE DEF b
<1>4. Waits(R("101"), "ws") /\ Waits(R("101"), "wss")
  BY DEF Waits, Reading, R, Keyed
<1>5. Stops(b, "ws") /\ Stops(b, "wss")
  BY <1>1, <1>2, <1>4 DEF Stops
<1>6. <<Arm>> \o << >> \in Scripts /\ Up \notin ToSet(<<Arm>> \o << >>)
  BY <1>1, <1>2, Starts, ConcatScripts
<1> QED BY <1>1, <1>3, <1>5, <1>6, Starts, StopsAtLast

LEMMA AnsweredStops == \A p \in Answered : Stops(DialOf(p), p)
<1>1. Stops(DialOf("smtp"), "smtp")
  BY SMTPStops DEF DialOf
<1>2. Stops(DialOf("noise"), "noise")
  BY NoiseStops DEF DialOf
<1>3. Stops(DialOf("shadowtls"), "shadowtls")
  BY ShadowTLSStops DEF DialOf
<1>4. Stops(DialOf("http"), "http") /\ Stops(DialOf("https"), "https")
  BY HTTPStops DEF DialOf
<1>5. Stops(DialOf("ws"), "ws") /\ Stops(DialOf("wss"), "wss")
  BY WSStops DEF DialOf
<1>6. Stops(DialOf("naive"), "naive") /\ Stops(DialOf("http3"), "http3")
  BY NaiveStops, H3Stops DEF DialOf
<1>7. Stops(DialOf("hysteria2"), "hysteria2")
  BY Hysteria2Stops DEF DialOf
<1> QED BY <1>1, <1>2, <1>3, <1>4, <1>5, <1>6, <1>7 DEF Answered, StreamProtocols, Unanswered

-----------------------------------------------------------------------------
(* The invariant. *)

(* A client that the server refuses, or that another service on the port   *)
(* answers.                                                                *)
Barred(c) == squat # "none" \/ (who[c] = "wrong" /\ proto \in Keyed)

Shapes ==
  /\ DOMAIN cl = Clients /\ DOMAIN cpc = Clients /\ DOMAIN down = Clients
  /\ DOMAIN sv = Clients /\ DOMAIN spc = Clients
  /\ proto \in Protocols /\ squat \in {"none", "mute", "tls"}

(* What such a client can hear. *)
Heard == Said(Early(ServerScript))

(* The server does not get past a check with it. *)
ServerHeld(c) ==
  /\ spc[c] \in Nat \ {0}
  /\ \A k \in DOMAIN ServerScript : ServerScript[k][1] = "check" => spc[c] <= k
  /\ down[c] \in Seq(Heard)
  /\ sv[c] \in {"queued", "serving"} => proto = "shadowsocks"

(* Its dial does not get past a step that waits for something else. *)
Stuck(c, e) == Reading(e) /\ (e[2] \notin Heard \/ (e[1] = "check" /\ who[c] = "wrong"))
ClientHeld(c) ==
  /\ cpc[c] \in Nat \ {0}
  /\ \A k \in DOMAIN ClientScript : Stuck(c, ClientScript[k]) => cpc[c] <= k
  /\ cl[c] \in {"up", "echoed"} =>
       \E j \in DOMAIN ClientScript : ClientScript[j] = Up /\ j < cpc[c]

Held ==
  /\ Shapes
  /\ \A c \in Clients : Barred(c) => ServerHeld(c) /\ (proto \in Answered => ClientHeld(c))

(* The script that such a client meets. *)
LEMMA MetScript ==
  ASSUME Shapes, NEW c \in Clients, Barred(c)
  PROVE  /\ ServerScript \in Scripts
         /\ "frame" \notin Heard
         /\ Hand \in Early(ServerScript) => proto = "shadowsocks"
         /\ squat # "none" => Heard \subseteq {"server"} /\ ~HasCheck(ServerScript)
         /\ squat = "none" => Heard \subseteq Refusals(proto)
<1>1. CASE squat = "mute"
  <2>1. ServerScript = << >>
    BY <1>1 DEF ServerScript
  <2>2. << >> \in Scripts /\ ToSet(<< >>) = {}
    BY DEF Scripts, ToSet
  <2> QED BY <1>1, <2>1, <2>2, EarlySteps DEF Heard, Said, HasCheck
<1>2. CASE squat = "tls"
  <2>1. ServerScript = TLSServe
    BY <1>2 DEF ServerScript
  <2>2. ~HasCheck(TLSServe)
    BY Pieces DEF HasCheck, R, S
  <2>3. Early(TLSServe) \subseteq {R("hello"), S("server")}
    BY Pieces, EarlySteps
  <2>4. Said(Early(TLSServe)) \subseteq {"server"} /\ Hand \notin Early(TLSServe)
    BY <2>3 DEF Said, R, S, Hand
  <2> QED BY <1>2, <2>1, <2>2, <2>4, Pieces DEF Heard
<1>3. CASE squat = "none"
  <2>1. proto \in Keyed
    BY <1>3 DEF Barred
  <2>2. ServerScript = Serve(proto) \o EchoLoop
    BY <1>3 DEF Shapes, ServerScript, ServerScripts
  <2> QED BY <1>3, <2>1, <2>2, KeyedGuards DEF Guards, Heard
<1> QED BY <1>1, <1>2, <1>3 DEF Shapes

(* Where the server is with it. *)
LEMMA ServerAt ==
  ASSUME Shapes, NEW c \in Clients, Barred(c), ServerHeld(c)
  PROVE  /\ SStep(c) \in Early(ServerScript) \cup {<<"end">>}
         /\ SStep(c)[1] = "send" => SStep(c)[2] \in Heard /\ SStep(c)[2] # "frame"
         /\ SStep(c)[1] = "check" => SStep(c)[4] \in Heard /\ who[c] = "wrong"
         /\ SStep(c) = Hand => proto = "shadowsocks"
         /\ SStep(c)[1] # "check" => \A k \in DOMAIN ServerScript : ServerScript[k][1] = "check" => spc[c] + 1 <= k
<1>1. /\ ServerScript \in Scripts /\ "frame" \notin Heard
      /\ Hand \in Early(ServerScript) => proto = "shadowsocks"
      /\ squat # "none" => ~HasCheck(ServerScript)
  BY MetScript
<1>2. Len(ServerScript) \in Nat /\ DOMAIN ServerScript = 1 .. Len(ServerScript)
  BY <1>1 DEF Scripts
<1>3. spc[c] \in Nat \ {0}
      /\ \A k \in DOMAIN ServerScript : ServerScript[k][1] = "check" => spc[c] <= k
  BY DEF ServerHeld
<1>4. CASE spc[c] <= Len(ServerScript)
  <2>1. SStep(c) = ServerScript[spc[c]] /\ spc[c] \in DOMAIN ServerScript
    BY <1>2, <1>3, <1>4 DEF SStep, StepAt
  <2>2. \A k \in 1 .. spc[c] - 1 : ServerScript[k][1] # "check"
    BY <1>2, <1>3, <1>4
  <2>3. SStep(c) \in Early(ServerScript)
    BY <2>1, <2>2 DEF Early
  <2>4. SStep(c)[1] = "send" => SStep(c)[2] \in Heard
    BY <2>3 DEF Heard, Said
  <2>5. SStep(c)[1] = "check" => SStep(c)[4] \in Heard
    BY <2>3 DEF Heard, Said
  <2>6. SStep(c)[1] = "check" => who[c] = "wrong"
    BY <1>1, <2>1 DEF HasCheck, ToSet, Barred
  <2>7. SStep(c)[1] # "check" => \A k \in DOMAIN ServerScript : ServerScript[k][1] = "check" => spc[c] + 1 <= k
    BY <1>2, <1>3, <2>1
  <2> QED BY <1>1, <2>3, <2>4, <2>5, <2>6, <2>7
<1>5. CASE spc[c] > Len(ServerScript)
  <2>1. SStep(c) = <<"end">>
    BY <1>2, <1>3, <1>5 DEF SStep, StepAt
  <2>2. <<"end">>[1] = "end" /\ Hand[1] = "hand"
    BY DEF Hand
  <2>3. \A k \in DOMAIN ServerScript : ServerScript[k][1] # "check"
    BY <1>2, <1>3, <1>5
  <2> QED BY <2>1, <2>2, <2>3
<1> QED BY <1>2, <1>3, <1>4, <1>5

(* Where its dial is. *)
LEMMA ClientAt ==
  ASSUME Shapes, proto \in Answered, NEW c \in Clients, ClientHeld(c), ~Stuck(c, CStep(c))
  PROVE  \A k \in DOMAIN ClientScript : Stuck(c, ClientScript[k]) => cpc[c] + 1 <= k
<1>1. ClientScript \in Scripts
  <2>1. ClientScript = DialOf(proto) \o FirstPing
    BY DEF Shapes, ClientScript, ClientScripts
  <2>2. DialOf(proto) \in Scripts
    BY AnsweredStops DEF Stops
  <2> QED BY <2>1, <2>2, Pieces, ConcatScripts
<1>2. Len(ClientScript) \in Nat /\ DOMAIN ClientScript = 1 .. Len(ClientScript)
  BY <1>1 DEF Scripts
<1> SUFFICES ASSUME NEW k \in DOMAIN ClientScript, Stuck(c, ClientScript[k]) PROVE cpc[c] + 1 <= k
  OBVIOUS
<1>3. cpc[c] \in Nat \ {0} /\ cpc[c] <= k
  BY DEF ClientHeld
<1>4. CStep(c) = ClientScript[cpc[c]]
  BY <1>2, <1>3 DEF CStep, StepAt
<1>5. cpc[c] # k
  BY <1>4
<1> QED BY <1>2, <1>3, <1>5

-----------------------------------------------------------------------------
(* The steps. *)

(* The steps that keep the invariant, as the actions take them. *)
ServerGoes(c) ==
  /\ spc'[c] = spc[c] \/ (spc'[c] = spc[c] + 1 /\ SStep(c)[1] # "check")
  /\ \/ down'[c] = down[c]
     \/ down[c] # << >> /\ down'[c] = Tail(down[c])
     \/ \E m \in Heard : down'[c] = Append(down[c], m)
  /\ sv'[c] \in {"queued", "serving"} => sv[c] \in {"queued", "serving"} \/ proto = "shadowsocks"
ClientGoes(c) ==
  /\ cpc'[c] = cpc[c] \/ (cpc'[c] = cpc[c] + 1 /\ ~Stuck(c, CStep(c)))
  /\ cl'[c] \in {"up", "echoed"} =>
       \/ cl[c] \in {"up", "echoed"}
       \/ \E j \in DOMAIN ClientScript : ClientScript[j] = Up /\ j < cpc'[c]

LEMMA RigidStep ==
  ASSUME UNCHANGED rigid
  PROVE  /\ UNCHANGED <<ServerScript, ClientScript, Heard>>
         /\ \A c : Barred(c)' = Barred(c) /\ \A e : Stuck(c, e)' = Stuck(c, e)
<1>1. UNCHANGED <<proto, who, squat>>
  BY DEF rigid
<1>2. UNCHANGED <<ServerScript, ClientScript>>
  BY <1>1 DEF ServerScript, ClientScript
<1>3. UNCHANGED Heard
  BY <1>2 DEF Heard
<1>4. ASSUME NEW c PROVE Barred(c)' = Barred(c)
  BY <1>1 DEF Barred
<1>5. ASSUME NEW c, NEW e PROVE Stuck(c, e)' = Stuck(c, e)
  BY <1>1, <1>3 DEF Stuck
<1> QED BY <1>2, <1>3, <1>4, <1>5

LEMMA StepHolds ==
  ASSUME Held, UNCHANGED rigid, Shapes',
         \A c \in Clients : Barred(c) => ServerGoes(c) /\ (proto \in Answered => ClientGoes(c))
  PROVE  Held'
<1> SUFFICES ASSUME NEW c \in Clients, Barred(c)
             PROVE  ServerHeld(c)' /\ (proto \in Answered => ClientHeld(c)')
  BY RigidStep DEF Held, rigid
<1>1. Shapes /\ ServerHeld(c) /\ ServerGoes(c) /\ UNCHANGED <<ServerScript, ClientScript, Heard, proto>>
  BY RigidStep DEF Held, rigid
<1>2. ServerHeld(c)'
  <2>1. spc'[c] \in Nat \ {0}
        /\ \A k \in DOMAIN ServerScript : ServerScript[k][1] = "check" => spc'[c] <= k
    BY <1>1, ServerAt DEF ServerHeld, ServerGoes
  <2>2. down'[c] \in Seq(Heard)
    <3>1. down[c] \in Seq(Heard)
      BY <1>1 DEF ServerHeld
    <3>2. CASE down[c] # << >> /\ down'[c] = Tail(down[c])
      BY <3>1, <3>2, HeadTailProperties
    <3>3. ASSUME NEW m \in Heard, down'[c] = Append(down[c], m) PROVE down'[c] \in Seq(Heard)
      BY <3>1, <3>3, AppendProperties
    <3> QED BY <1>1, <3>1, <3>2, <3>3 DEF ServerGoes
  <2>3. sv'[c] \in {"queued", "serving"} => proto = "shadowsocks"
    BY <1>1 DEF ServerHeld, ServerGoes
  <2> QED BY <1>1, <2>1, <2>2, <2>3 DEF ServerHeld
<1>3. ASSUME proto \in Answered PROVE ClientHeld(c)'
  <2>1. ClientHeld(c) /\ ClientGoes(c)
    BY <1>3 DEF Held
  <2>2. cpc'[c] \in Nat \ {0} /\ cpc[c] <= cpc'[c]
    BY <2>1 DEF ClientHeld, ClientGoes
  <2>3. \A k \in DOMAIN ClientScript : Stuck(c, ClientScript[k]) => cpc'[c] <= k
    BY <1>1, <1>3, <2>1, ClientAt DEF ClientHeld, ClientGoes
  <2>4. \A k \in DOMAIN ClientScript : Stuck(c, ClientScript[k])' = Stuck(c, ClientScript[k])
    BY <1>1, RigidStep
  <2>5. cl'[c] \in {"up", "echoed"} =>
          \E j \in DOMAIN ClientScript : ClientScript[j] = Up /\ j < cpc'[c]
    <3> SUFFICES ASSUME cl[c] \in {"up", "echoed"}
                 PROVE  \E j \in DOMAIN ClientScript : ClientScript[j] = Up /\ j < cpc'[c]
      BY <2>1 DEF ClientGoes
    <3>1. PICK j \in DOMAIN ClientScript : ClientScript[j] = Up /\ j < cpc[c]
      BY <2>1 DEF ClientHeld
    <3>2. ClientScript \in Scripts
      <4>1. ClientScript = DialOf(proto) \o FirstPing
        BY <1>1 DEF Shapes, ClientScript, ClientScripts
      <4>2. DialOf(proto) \in Scripts
        BY <1>3, AnsweredStops DEF Stops
      <4> QED BY <4>1, <4>2, Pieces, ConcatScripts
    <3>3. j \in Nat
      BY <3>2 DEF Scripts
    <3>4. cpc[c] \in Nat
      BY <2>1 DEF ClientHeld
    <3> QED BY <2>2, <3>1, <3>3, <3>4
  <2> QED BY <1>1, <2>2, <2>3, <2>4, <2>5 DEF ClientHeld
<1> QED BY <1>2, <1>3

LEMMA ClientSteps ==
  ASSUME Held, UNCHANGED rigid, NEW d \in Clients, ClientStep(d) \/ Hangup(d) \/ Dial(d)
  PROVE  Held'
<1> USE DEF Dialing
<1>0. Shapes
  BY DEF Held
<1>1. UNCHANGED <<proto, squat>>
  BY DEF rigid
<1>2. UNCHANGED spc
  BY DEF ClientStep, ClientSend, ClientRecv, ClientFails, ClientTimer, ClientUp, ClientDone, ClientEnds,
         Hangup, Dial, CFrame
<1>3. /\ down' = down \/ (down[d] # << >> /\ down' = [down EXCEPT ![d] = Tail(@)])
      /\ sv' = sv \/ \E s \in {"backlog", "none"} : sv' = [sv EXCEPT ![d] = s]
  BY DEF ClientStep, ClientSend, ClientRecv, ClientFails, ClientTimer, ClientUp, ClientDone, ClientEnds,
         Hangup, Dial, CFrame
<1>4. \/ UNCHANGED cpc
      \/ /\ cpc' = [cpc EXCEPT ![d] = @ + 1]
         /\ Reading(CStep(d)) => ClientRecv(d)
  BY DEF ClientStep, ClientSend, ClientRecv, ClientFails, ClientTimer, ClientUp, ClientDone, ClientEnds,
         Hangup, Dial, CFrame, NextC, Reading, Up
<1>5. \/ UNCHANGED cl
      \/ \E s \in {"dialing", "failed", "lost"} : cl' = [cl EXCEPT ![d] = s]
      \/ ClientUp(d) /\ cl' = [cl EXCEPT ![d] = "up"]
      \/ ClientDone(d) /\ cl' = [cl EXCEPT ![d] = "echoed"]
  BY DEF ClientStep, ClientSend, ClientRecv, ClientFails, ClientTimer, ClientUp, ClientDone, ClientEnds,
         Hangup, Dial, CFrame
<1>6. Shapes'
  BY <1>0, <1>1, <1>2, <1>3, <1>4, <1>5 DEF Shapes
<1>7. ASSUME NEW c \in Clients, Barred(c) PROVE ServerGoes(c)
  <2>1. spc'[c] = spc[c]
    BY <1>2
  <2>2. down'[c] = down[c] \/ (down[c] # << >> /\ down'[c] = Tail(down[c]))
    BY <1>0, <1>3 DEF Shapes
  <2>3. sv'[c] \in {"queued", "serving"} => sv[c] \in {"queued", "serving"}
    BY <1>0, <1>3 DEF Shapes
  <2> QED BY <2>1, <2>2, <2>3 DEF ServerGoes
<1>8. ASSUME NEW c \in Clients, Barred(c), proto \in Answered PROVE ClientGoes(c)
  <2>1. ServerHeld(c) /\ ClientHeld(c)
    BY <1>8 DEF Held
  <2>2. cpc'[c] = cpc[c] \/ (cpc'[c] = cpc[c] + 1 /\ ~Stuck(c, CStep(c)))
    <3>1. CASE UNCHANGED cpc \/ c # d
      BY <1>0, <1>4, <3>1 DEF Shapes
    <3>2. ASSUME c = d, cpc' = [cpc EXCEPT ![d] = @ + 1], Reading(CStep(d)), ClientRecv(d)
          PROVE  ~Stuck(c, CStep(c))
      <4>1. down[c] \in Seq(Heard) /\ down[c] # << >> /\ Head(down[c]) = CStep(c)[2]
        BY <2>1, <3>2 DEF ServerHeld, ClientRecv, ClientPasses
      <4>2. CStep(c)[2] \in Heard
        BY <4>1, HeadTailProperties
      <4>3. CStep(c)[1] = "check" => who[c] # "wrong"
        BY <3>2 DEF ClientRecv, ClientPasses
      <4> QED BY <4>2, <4>3 DEF Stuck
    <3>3. CASE c = d /\ cpc' = [cpc EXCEPT ![d] = @ + 1] /\ (Reading(CStep(d)) => ClientRecv(d))
      <4>1. ~Stuck(c, CStep(c))
        BY <3>2, <3>3 DEF Stuck
      <4> QED BY <1>0, <3>3, <4>1 DEF Shapes
    <3> QED BY <1>4, <3>1, <3>3
  <2>3. /\ ClientScript = DialOf(proto) \o FirstPing /\ DialOf(proto) \in Scripts /\ FirstPing \in Scripts
        /\ ClientScript \in Scripts
    BY <1>0, <1>8, AnsweredStops, Pieces, ConcatScripts DEF Shapes, ClientScript, ClientScripts, Stops
  <2>4. Len(ClientScript) \in Nat /\ DOMAIN ClientScript = 1 .. Len(ClientScript)
    BY <2>3 DEF Scripts
  <2>5. cpc[c] \in Nat \ {0}
    BY <2>1 DEF ClientHeld
  <2>6. CASE c = d /\ ClientUp(d)
    <3>1. CStep(c) = Up /\ cpc'[c] = cpc[c] + 1
      BY <1>0, <2>6 DEF ClientUp, NextC, Shapes
    <3>2. cpc[c] \in DOMAIN ClientScript /\ ClientScript[cpc[c]] = Up
      BY <2>4, <2>5, <3>1 DEF CStep, StepAt, Up
    <3>3. cpc[c] < cpc'[c]
      BY <2>5, <3>1
    <3> QED BY <2>2, <3>2, <3>3 DEF ClientGoes
  <2>7. CASE c = d /\ ClientDone(d)
    <3>1. CStep(c)[1] = "end" /\ UNCHANGED cpc
      BY <2>7 DEF ClientDone
    <3>2. cpc[c] > Len(ClientScript)
      <4> SUFFICES ASSUME cpc[c] <= Len(ClientScript) PROVE FALSE
        BY <2>4, <2>5
      <4>1. cpc[c] \in 1 .. Len(ClientScript) /\ CStep(c) = ClientScript[cpc[c]]
        BY <2>4, <2>5 DEF CStep, StepAt
      <4>2. CStep(c) \in Steps
        BY <2>3, <2>4, <4>1 DEF Scripts
      <4> QED BY <3>1, <4>2 DEF Steps, Arm, Clear, Enter, Hand, Up
    <3>3. PICK j \in DOMAIN ClientScript : ClientScript[j] = Up
      <4>1. Up \in ToSet(FirstPing)
        BY DEF FirstPing, ToSet
      <4>2. Up \in ToSet(ClientScript)
        BY <2>3, <4>1, ConcatScripts
      <4> QED BY <4>2 DEF ToSet
    <3>4. j < cpc'[c]
      BY <2>4, <2>5, <3>1, <3>2, <3>3
    <3> QED BY <2>2, <3>3, <3>4 DEF ClientGoes
  <2>8. CASE ~(c = d /\ (ClientUp(d) \/ ClientDone(d)))
    <3>1. cl'[c] \in {"up", "echoed"} => cl[c] \in {"up", "echoed"}
      BY <1>0, <1>5, <2>8 DEF Shapes
    <3> QED BY <2>2, <3>1 DEF ClientGoes
  <2> QED BY <2>6, <2>7, <2>8
<1> QED BY <1>6, <1>7, <1>8, StepHolds

(* What the server does leaves the client's side alone, but for QUIC's      *)
(* idle timeout.                                                            *)
LEMMA ClientStays ==
  ASSUME NEW c, UNCHANGED <<cpc, cl>>
  PROVE  ClientGoes(c)
BY DEF ClientGoes

LEMMA ServerSteps ==
  ASSUME Held, UNCHANGED rigid, NEW d \in Clients, AcceptConn(d) \/ ServerStep(d)
  PROVE  Held'
<1> DEFINE stp == SStep(d)
<1>0. Shapes /\ UNCHANGED <<proto, squat, cl, cpc>>
  BY DEF Held, rigid, AcceptConn, ServerStep, ServerSend, ServerRecv, ServerRefuses, ServerGivesUp, ServerTimer,
         EnterAccept, HandOver, ServerCloses, SFrame
<1>1. \/ UNCHANGED spc
      \/ spc' = [spc EXCEPT ![d] = IF stp[2] = "frame" THEN @ - 1 ELSE @ + 1] /\ stp[1] = "send"
      \/ spc' = [spc EXCEPT ![d] = @ + 1] /\ (stp[1] = "check" => who[d] # "wrong")
  BY DEF AcceptConn, ServerStep, ServerSend, ServerRecv, ServerRefuses, ServerGivesUp, ServerTimer,
         EnterAccept, HandOver, ServerCloses, SFrame, NextS, KeyRight, Enter, Hand
<1>2. \/ UNCHANGED down
      \/ down' = [down EXCEPT ![d] = Append(@, stp[2])] /\ stp[1] = "send"
      \/ down' = [down EXCEPT ![d] = Append(@, stp[4])] /\ stp[1] = "check"
  BY DEF AcceptConn, ServerStep, ServerSend, ServerRecv, ServerRefuses, ServerGivesUp, ServerTimer,
         EnterAccept, HandOver, ServerCloses, SFrame
<1>3. \/ UNCHANGED sv
      \/ \E s \in {"handshake", "idle", "closed"} : sv' = [sv EXCEPT ![d] = s]
      \/ stp = Hand /\ \E s \in {"queued", "serving"} : sv' = [sv EXCEPT ![d] = s]
  BY DEF AcceptConn, ServerStep, ServerSend, ServerRecv, ServerRefuses, ServerGivesUp, ServerTimer,
         EnterAccept, HandOver, ServerCloses, SFrame
<1>4. Shapes'
  BY <1>0, <1>1, <1>2, <1>3 DEF Shapes
<1>5. ASSUME NEW c \in Clients, Barred(c) PROVE ServerGoes(c)
  <2>0. ServerHeld(c)
    BY <1>5 DEF Held
  <2>1. CASE c # d
    <3>1. spc'[c] = spc[c] /\ down'[c] = down[c] /\ sv'[c] = sv[c]
      BY <1>0, <1>1, <1>2, <1>3, <2>1 DEF Shapes
    <3> QED BY <3>1 DEF ServerGoes
  <2>2. CASE c = d
    <3>1. /\ stp[1] = "send" => stp[2] \in Heard /\ stp[2] # "frame"
          /\ stp[1] = "check" => stp[4] \in Heard /\ who[d] = "wrong"
          /\ stp = Hand => proto = "shadowsocks"
      BY <1>0, <1>5, <2>0, <2>2, ServerAt
    <3> HIDE DEF stp
    <3>2. spc'[c] = spc[c] \/ (spc'[c] = spc[c] + 1 /\ stp[1] # "check")
      BY <1>0, <1>1, <2>2, <3>1 DEF Shapes
    <3>3. down'[c] = down[c] \/ \E m \in Heard : down'[c] = Append(down[c], m)
      BY <1>0, <1>2, <2>2, <3>1 DEF Shapes
    <3>4. sv'[c] \in {"queued", "serving"} => sv[c] \in {"queued", "serving"} \/ proto = "shadowsocks"
      BY <1>0, <1>3, <2>2, <3>1 DEF Shapes
    <3> QED BY <2>2, <3>2, <3>3, <3>4 DEF ServerGoes, stp
  <2> QED BY <2>1, <2>2
<1> QED BY <1>0, <1>4, <1>5, ClientStays, StepHolds

LEMMA OtherSteps ==
  ASSUME Held, UNCHANGED rigid, AcceptTunnel \/ Close \/ LoopEnds \/ Expire \/ \E d \in Clients : IdleOut(d)
  PROVE  Held'
<1>0. Shapes /\ UNCHANGED <<proto, squat, spc, cpc, down>>
  BY DEF Held, rigid, AcceptTunnel, Close, LoopEnds, Expire, IdleOut, ClientEnds, ServerCloses, CFrame, SFrame
<1>1. /\ DOMAIN sv' = Clients
      /\ \A c \in Clients : sv'[c] \in {"queued", "serving"} => sv[c] \in {"queued", "serving"}
  <2>1. CASE AcceptTunnel
    BY <1>0, <2>1 DEF AcceptTunnel, Shapes
  <2>2. CASE Close
    BY <1>0, <2>2 DEF Close, Shapes
  <2>3. CASE LoopEnds \/ Expire
    <3>1. UNCHANGED sv \/ \E d, s : s \in {"idle", "closed"} /\ sv' = [sv EXCEPT ![d] = s]
      BY <2>3 DEF LoopEnds, Expire, ClientEnds, ServerCloses, CFrame, SFrame
    <3> QED BY <1>0, <3>1 DEF Shapes
  <2>4. CASE \E d \in Clients : IdleOut(d)
    BY <1>0, <2>4 DEF IdleOut, Shapes
  <2> QED BY <2>1, <2>2, <2>3, <2>4
<1>2. /\ DOMAIN cl' = Clients
      /\ \A c \in Clients : cl'[c] \in {"up", "echoed"} => cl[c] \in {"up", "echoed"}
  <2>1. CASE AcceptTunnel \/ Close \/ LoopEnds
    BY <1>0, <2>1 DEF AcceptTunnel, Close, LoopEnds, SFrame, Shapes
  <2>2. CASE Expire
    <3>1. UNCHANGED cl \/ \E d : cl' = [cl EXCEPT ![d] = IF @ = "dialing" THEN "failed" ELSE "lost"]
      BY <2>2 DEF Expire, ClientEnds, ServerCloses, SFrame
    <3> QED BY <1>0, <3>1 DEF Shapes
  <2>3. CASE \E d \in Clients : IdleOut(d)
    <3>1. \E d \in Clients : cl' = [cl EXCEPT ![d] = CASE @ = "dialing" -> "failed" [] @ = "up" -> "lost" [] OTHER -> @]
      BY <2>3 DEF IdleOut
    <3> QED BY <1>0, <3>1 DEF Shapes
  <2> QED BY <2>1, <2>2, <2>3
<1>3. Shapes'
  BY <1>0, <1>1, <1>2 DEF Shapes
<1>4. \A c \in Clients : ServerGoes(c) /\ ClientGoes(c)
  BY <1>0, <1>1, <1>2 DEF ServerGoes, ClientGoes
<1> QED BY <1>3, <1>4, StepHolds

LEMMA HeldInit == Init => Held
<1> SUFFICES ASSUME Init PROVE Held
  OBVIOUS
<1>1. Shapes
  BY DEF Init, Shapes
<1>2. ASSUME NEW c \in Clients, Barred(c) PROVE ServerHeld(c)
  <2>1. spc[c] = 1 /\ down[c] = << >> /\ sv[c] = "none"
    BY DEF Init
  <2>2. DOMAIN ServerScript = 1 .. Len(ServerScript) /\ Len(ServerScript) \in Nat
    BY <1>1, <1>2, MetScript DEF Scripts
  <2>3. \A k \in DOMAIN ServerScript : spc[c] <= k
    BY <2>1, <2>2
  <2>4. down[c] \in Seq(Heard)
    BY <2>1
  <2> QED BY <2>1, <2>3, <2>4 DEF ServerHeld
<1>3. ASSUME NEW c \in Clients, Barred(c), proto \in Answered PROVE ClientHeld(c)
  <2>1. cpc[c] = 1 /\ cl[c] = "idle"
    BY DEF Init
  <2>2. ClientScript \in Scripts
    <3>1. ClientScript = DialOf(proto) \o FirstPing
      BY <1>1 DEF Shapes, ClientScript, ClientScripts
    <3>2. DialOf(proto) \in Scripts
      BY <1>3, AnsweredStops DEF Stops
    <3> QED BY <3>1, <3>2, Pieces, ConcatScripts
  <2>3. \A k \in DOMAIN ClientScript : cpc[c] <= k
    BY <2>1, <2>2 DEF Scripts
  <2> QED BY <2>1, <2>3 DEF ClientHeld
<1> QED BY <1>1, <1>2, <1>3 DEF Held

LEMMA HeldNext == Held /\ [Next]_vars => Held'
<1> SUFFICES ASSUME Held, [Next]_vars PROVE Held'
  OBVIOUS
<1>1. CASE Next
  <2>1. UNCHANGED rigid
    BY <1>1 DEF Next
  <2>2. CASE \E c \in Clients : \/ Dial(c) \/ Hangup(c) \/ (who[c] = "silent" /\ ClientStep(c))
                               \/ (KeepsAlive(c) /\ IdleOut(c))
    BY <2>1, <2>2, ClientSteps, OtherSteps
  <2>3. CASE Close
    BY <2>1, <2>3, OtherSteps
  <2>4. CASE Progress
    <3>1. \/ \E c \in Clients : ClientStep(c) \/ AcceptConn(c) \/ ServerStep(c) \/ IdleOut(c)
          \/ AcceptTunnel \/ LoopEnds \/ Expire
      BY <2>4 DEF Progress, ClientStep, ServerStep
    <3> QED BY <2>1, <3>1, ClientSteps, ServerSteps, OtherSteps
  <2> QED BY <1>1, <2>2, <2>3, <2>4 DEF Next
<1>2. CASE UNCHANGED vars
  <2>1. UNCHANGED <<rigid, cl, cpc, sv, spc, down>>
    BY <1>2 DEF vars, state
  <2>2. Shapes' /\ \A c : ServerGoes(c) /\ ClientGoes(c)
    BY <2>1 DEF Held, Shapes, rigid, ServerGoes, ClientGoes
  <2> QED BY <2>1, <2>2, StepHolds
<1> QED BY <1>1, <1>2

LEMMA HeldAlways == Spec => []Held
BY HeldInit, HeldNext, PTL DEF Spec

(* Whoever lacks the key gets no frame answered and, but with Shadowsocks,  *)
(* no tunnel as far as the echo loop (serverHandshake and handleConn of the *)
(* protocols with a key): for any number of clients.                        *)
THEOREM IntrudersAreRefused == Spec => []NoIntruder
<1>1. Held => NoIntruder
  <2> SUFFICES ASSUME Held, proto \in Keyed, NEW c \in Clients, who[c] = "wrong"
               PROVE  /\ sv[c] \in {"queued", "serving"} => proto = "shadowsocks"
                      /\ \A i \in DOMAIN down[c] : down[c][i] # "frame"
    BY DEF NoIntruder
  <2>1. Barred(c)
    BY DEF Barred
  <2>2. ServerHeld(c) /\ "frame" \notin Heard
    BY <2>1, MetScript DEF Held
  <2> QED BY <2>2 DEF ServerHeld
<1> QED BY <1>1, HeldAlways, PTL

(* A dial that waits for an answer returns a tunnel only from a server of   *)
(* its protocol that accepted its key (Dial of the handshaking protocols),  *)
(* whoever else is on the port.                                             *)
THEOREM TunnelsAreAccepted == Spec => []UpMeansAccepted
<1>1. Held => UpMeansAccepted
  <2> SUFFICES ASSUME Held, proto \notin Unanswered, NEW c \in Clients, cl[c] \in {"up", "echoed"}, Barred(c)
               PROVE  FALSE
    BY DEF UpMeansAccepted, Barred
  <2>1. Shapes /\ proto \in Answered
    BY StreamAssumption DEF Held, Shapes, Answered
  <2>2. ClientHeld(c)
    BY <2>1 DEF Held
  <2>3. Stops(DialOf(proto), proto)
    BY <2>1, AnsweredStops
  <2>4. /\ ClientScript = DialOf(proto) \o FirstPing /\ DialOf(proto) \in Scripts /\ FirstPing \in Scripts
    BY <2>1, <2>3, Pieces DEF Shapes, ClientScript, ClientScripts, Stops
  <2>5. PICK e \in ToSet(DialOf(proto)) : Waits(e, proto)
    BY <2>3 DEF Stops
  <2>6. PICK k \in DOMAIN DialOf(proto) : DialOf(proto)[k] = e
    BY <2>5 DEF ToSet
  <2>7. Stuck(c, e)
    <3>1. /\ squat # "none" => Heard \subseteq {"server"}
          /\ squat = "none" => Heard \subseteq Refusals(proto)
      BY <2>1, MetScript
    <3> QED BY <2>5, <3>1 DEF Stuck, Waits, Barred
  <2>8. PICK j \in DOMAIN ClientScript : ClientScript[j] = Up /\ j < cpc[c]
    BY <2>2 DEF ClientHeld
  <2> DEFINE n == Len(DialOf(proto))
  <2>9. /\ n \in Nat /\ DOMAIN DialOf(proto) = 1 .. n /\ DOMAIN ClientScript = 1 .. n + Len(FirstPing)
        /\ Len(FirstPing) \in Nat
        /\ \A i \in 1 .. n : ClientScript[i] = DialOf(proto)[i]
    BY <2>4, ConcatProperties DEF Scripts
  <2> HIDE DEF n
  <2>10. j > n
    <3> SUFFICES ASSUME j <= n PROVE FALSE
      BY <2>9
    <3>1. j \in 1 .. n /\ DialOf(proto)[j] = Up
      BY <2>8, <2>9
    <3> QED BY <2>3, <2>9, <3>1 DEF Stops, ToSet
  <2>11. cpc[c] <= k
    BY <2>2, <2>6, <2>7, <2>9 DEF ClientHeld
  <2> QED BY <2>2, <2>6, <2>8, <2>9, <2>10, <2>11 DEF ClientHeld
<1> QED BY <1>1, HeldAlways, PTL
=============================================================================
