---------------------------- MODULE CommandProofs ----------------------------
(***************************************************************************)
(* Proofs about the commands: about the server and the clients of Suite,   *)
(* for any part of the registry and any configurations; about the systemd  *)
(* units and the rc file of HostSetup, for any units, any number of        *)
(* commands and rc files of any length; and about the command line, for    *)
(* argument lists of any length.  At the end, all of it for CommandLine's  *)
(* own specification, which is what the run checks.                        *)
(*                                                                         *)
(* What the recursive functions of CommandLine and HostSetup compute is    *)
(* proved by induction on the length of a sequence.  Induction is had from *)
(* the least element of a set of naturals, and so without an operator for  *)
(* a parameter.                                                            *)
(***************************************************************************)
EXTENDS CommandLine, SequenceTheorems, FiniteSetTheorems, WellFoundedInduction, TLAPS

-----------------------------------------------------------------------------
(* The server of Suite. *)

(* What listens, or is still to, keeps clear of the control port; what is  *)
(* listed as available stays so.                                           *)
ServerOK ==
  /\ srv = "off" => open = {} /\ ~ctl /\ DOMAIN entries = {}
  /\ srv \in {"stopped", "failed"} => open = {} /\ ~ctl
  /\ srv = "listening" =>
       /\ ~ctl /\ \A n \in (open \cup todo) \cap BindsTCP : ServerBase + PortOffset[n] # ControlPort
       /\ todo \cap DOMAIN entries = {}
  /\ \A n \in open : Offered(n)

LEMMA ServerInit == SuiteInit => ServerOK
BY DEF SuiteInit, ServerOK, NoEntries

LEMMA ServerSteps ==
  ASSUME ServerOK, ServerNext(ServerConf)
  PROVE  ServerOK' /\ \A n : Offered(n) => Offered(n)'
<1> USE DEF ServerOK, client, ControlPort, Offered
<1>1. ASSUME NEW conf \in ServerConf, ServerStart(conf) PROVE ServerOK' /\ UNCHANGED entries
  <2> DEFINE protos == ServerSelect(conf.requested)
             busy == EffectiveControlPort(conf.control, ServerBase) \in UsedTCPPorts(protos)
  <2>1. srv = "off" /\ sconf' = conf /\ UNCHANGED <<entries, open, ctl>> /\ open = {} /\ ~ctl /\ DOMAIN entries = {}
    BY <1>1 DEF ServerStart
  <2>2. CASE srv' = "failed"
    BY <2>1, <2>2
  <2>3. CASE srv' # "failed"
    <3>1. srv' = "listening" /\ todo' = protos /\ ~busy
      BY <1>1, <2>3 DEF ServerStart
    <3>2. \A n \in protos \cap BindsTCP : ServerBase + PortOffset[n] # EffectiveControlPort(conf.control, ServerBase)
      BY <3>1 DEF UsedTCPPorts, BindsTCP
    <3> QED BY <2>1, <3>1, <3>2
  <2> QED BY <2>1, <2>2, <2>3
<1>2. CASE ListenNext
  <2>1. PICK n \in First(todo), works \in BOOLEAN :
          /\ todo' = todo \ {n}
          /\ entries' = [m \in DOMAIN entries \cup {n} |-> IF m = n THEN works ELSE entries[m]]
          /\ open' = IF works THEN open \cup {n} ELSE open
    BY <1>2 DEF ListenNext
  <2>2. n \in todo /\ n \notin DOMAIN entries /\ srv = "listening"
    BY <1>2 DEF First, ListenNext
  <2>3. \A m : Offered(m) => Offered(m)'
    BY <2>1, <2>2
  <2> QED BY <1>2, <2>1, <2>2, <2>3 DEF ListenNext
<1>3. CASE OpenControl \/ Notify
  BY <1>3 DEF OpenControl, Notify
<1>4. CASE Signal
  BY <1>4 DEF Signal
<1>5. CASE CloseNext
  BY <1>5 DEF CloseNext
<1>6. CASE LoopEnds
  BY <1>6 DEF LoopEnds
<1> QED BY <1>1, <1>2, <1>3, <1>4, <1>5, <1>6 DEF ServerNext

LEMMA ServerAlone ==
  ASSUME NEW confs, ServerNext(confs)
  PROVE  UNCHANGED client
BY DEF ServerNext, ServerStart, ListenNext, OpenControl, Notify, Signal, CloseNext, LoopEnds

LEMMA ClientAlone ==
  ASSUME \/ UsageError \/ ClientNext
         \/ \E conf \in TestConf : ClientStart(conf)
         \/ \E conf \in ForwardConf : ForwardStart(conf)
  PROVE  UNCHANGED server
BY DEF UsageError, ClientNext, ClientStart, ForwardStart, FetchManifest, BlindEntries, SelectTests, TestNext,
       SpeedNext, Report, ForwardDialPort, ForwardListen, AcceptLocal, Socks5Target, HandleForwardConn, RelayEnds

LEMMA ServerStep == ServerOK /\ [SuiteStep]_suite => ServerOK' /\ \A n : Offered(n) => Offered(n)'
<1> SUFFICES ASSUME ServerOK, [SuiteStep]_suite PROVE ServerOK' /\ \A n : Offered(n) => Offered(n)'
  OBVIOUS
<1>1. CASE ServerNext(ServerConf)
  BY <1>1, ServerSteps
<1>2. CASE UNCHANGED server
  BY <1>2 DEF server, ServerOK, Offered, ControlPort
<1> QED BY <1>1, <1>2, ClientAlone DEF SuiteStep, suite

(* A server that returns has closed every listener, whichever step failed, *)
(* and never finds its control port taken by a listener of its own (Run in *)
(* server.go, usedTCPPorts): for any part of the registry and any port.    *)
THEOREM ServerLeavesNothing == SuiteSpec => []NothingLeftOpen
<1>1. ServerOK => NothingLeftOpen
  BY DEF ServerOK, NothingLeftOpen, ControlClash
<1> QED BY <1>1, ServerInit, ServerStep, PTL DEF SuiteSpec

-----------------------------------------------------------------------------
(* The clients of Suite. *)

(* Every protocol of the registry has an offset. *)
LEMMA OffsetIs == \A n \in ToSet(All) : PortOffset[n] \in Nat
<1> SUFFICES ASSUME NEW n \in ToSet(All) PROVE PortOffset[n] \in Nat
  OBVIOUS
<1> DEFINE pairs(i) == Cardinality({j \in 1 .. i - 1 : All[j] \in {"wireguard", "amnezia", "amnezia2"}})
           place == CHOOSE j \in 1 .. Len(All) : All[j] = n
<1>1. Len(All) \in Nat /\ DOMAIN All = 1 .. Len(All)
  BY DEF All
<1>2. place \in 1 .. Len(All)
  <2>1. \E j \in 1 .. Len(All) : All[j] = n
    BY <1>1 DEF ToSet
  <2> QED BY <2>1
<1>3. pairs(place) \in Nat
  <2> DEFINE S == {j \in 1 .. place - 1 : All[j] \in {"wireguard", "amnezia", "amnezia2"}}
  <2>1. place - 1 \in Int /\ S \in SUBSET (1 .. place - 1)
    BY <1>1, <1>2
  <2>2. IsFiniteSet(1 .. place - 1)
    BY <2>1, FS_Interval
  <2>3. IsFiniteSet(S)
    BY <2>1, <2>2, FS_Subset
  <2> QED BY <2>3, FS_CardinalityType
<1>4. PortOffset[n] = place + pairs(place)
  BY DEF PortOffset
<1> HIDE DEF pairs, place
<1> QED BY <1>1, <1>2, <1>3, <1>4

LEMMA OffsetType == \A n \in Names : PortOffset[n] \in Nat
BY NamesAssumption, OffsetIs

Outcome == {"ok", "failed", "skipped"}

(* The results so far, and what is left to test after them. *)
Going(rs, rest) ==
  /\ rs \in Seq(Names \X Outcome) /\ rest \subseteq Names /\ InOrder(rs)
  /\ \A i \in 1 .. Len(rs) : \A n \in rest : rs[i][1] # n /\ PortOffset[rs[i][1]] <= PortOffset[n]

(* Each result agrees with what the server offers. *)
Truthful(rs) ==
  \A i \in 1 .. Len(rs) :
    /\ rs[i][2] = "ok" => Answering(rs[i][1]) /\ (rs[i][1] \in RawIP \/ cconf.base = ServerBase)
    /\ rs[i][2] = "ok" => Offered(rs[i][1]) \/ cconf.blind
    /\ rs[i][2] = "failed" => Offered(rs[i][1]) \/ cconf.blind

(* The protocols tested and those to come. *)
Covered(rs, rest) == NamesOf(rs) \cup rest

(* The next protocol is tested. *)
LEMMA OneMore ==
  ASSUME NEW rs, NEW rest, Going(rs, rest), NEW n \in First(rest), NEW o \in Outcome
  PROVE  /\ Going(Append(rs, <<n, o>>), rest \ {n})
         /\ Covered(Append(rs, <<n, o>>), rest \ {n}) = Covered(rs, rest)
         /\ Len(rs) \in Nat /\ Len(Append(rs, <<n, o>>)) = Len(rs) + 1
         /\ \A i \in 1 .. Len(rs) : Append(rs, <<n, o>>)[i] = rs[i]
         /\ Append(rs, <<n, o>>)[Len(rs) + 1] = <<n, o>>
<1> DEFINE new == Append(rs, <<n, o>>)
<1>1. n \in rest /\ n \in Names /\ \A m \in rest : PortOffset[n] <= PortOffset[m]
  BY DEF First, Going
<1>2. rs \in Seq(Names \X Outcome) /\ <<n, o>> \in Names \X Outcome
  BY <1>1 DEF Going
<1>3. /\ new \in Seq(Names \X Outcome) /\ Len(rs) \in Nat /\ Len(new) = Len(rs) + 1
      /\ \A i \in 1 .. Len(rs) : new[i] = rs[i]
      /\ new[Len(rs) + 1] = <<n, o>> /\ DOMAIN new = 1 .. Len(rs) + 1 /\ DOMAIN rs = 1 .. Len(rs)
  BY <1>2, AppendProperties, LenProperties
<1> HIDE DEF new
<1>4. \A i \in 1 .. Len(rs) + 1 : i \in 1 .. Len(rs) \/ i = Len(rs) + 1
  BY <1>3
<1>5. ASSUME NEW i \in 1 .. Len(rs) + 1, NEW j \in 1 .. Len(rs) + 1, i < j
      PROVE  new[i][1] # new[j][1] /\ PortOffset[new[i][1]] <= PortOffset[new[j][1]]
  <2>1. i \in 1 .. Len(rs)
    BY <1>3, <1>5
  <2>2. CASE j \in 1 .. Len(rs)
    BY <1>3, <1>5, <2>1, <2>2 DEF Going, InOrder
  <2>3. CASE j = Len(rs) + 1
    <3>1. rs[i][1] # n /\ PortOffset[rs[i][1]] <= PortOffset[n]
      BY <1>1, <2>1 DEF Going
    <3>2. new[i] = rs[i] /\ new[j] = <<n, o>>
      BY <1>3, <2>1, <2>3
    <3>3. new[j][1] = n
      BY <3>2
    <3> QED BY <3>1, <3>2, <3>3
  <2> QED BY <1>4, <2>2, <2>3
<1>6. ASSUME NEW i \in 1 .. Len(rs) + 1, NEW m \in rest \ {n}
      PROVE  new[i][1] # m /\ PortOffset[new[i][1]] <= PortOffset[m]
  <2>1. CASE i \in 1 .. Len(rs)
    BY <1>3, <2>1 DEF Going
  <2>2. CASE i = Len(rs) + 1
    BY <1>1, <1>3, <2>2
  <2> QED BY <1>4, <2>1, <2>2
<1>7. Going(new, rest \ {n})
  BY <1>3, <1>5, <1>6 DEF Going, InOrder
<1>8. NamesOf(new) = NamesOf(rs) \cup {n}
  BY <1>3, <1>4 DEF NamesOf
<1>9. Covered(new, rest \ {n}) = Covered(rs, rest)
  BY <1>1, <1>8 DEF Covered
<1> QED BY <1>3, <1>7, <1>9 DEF new

(* Until the report is written nothing has been decided; the tests done    *)
(* and those left are what was asked for.                                  *)
ClientOK ==
  /\ cli \notin {"testing", "done"} => results = << >> /\ speeds = << >> /\ left = {} /\ toSpeed = {}
  /\ cli # "done" => ~written /\ exit = "none"
  /\ cli \in {"off", "entries"} => DOMAIN known = {}
  /\ cli \in {"entries", "select", "testing"} => cconf \in TestConf
  /\ Going(results, left) /\ Going(speeds, toSpeed)
  /\ cli = "testing" =>
       /\ NamesOf(results) \cup left = IF cconf.only THEN {} ELSE ClientSelect(cconf.requested)
       /\ NamesOf(speeds) \cup toSpeed = Wanted(cconf.throughput)
  /\ \A n : Available(n) => Offered(n) \/ cconf.blind
  /\ Truthful(results) /\ Truthful(speeds)

(* What the report and the exit code say once the client is done. *)
DoneOK ==
  /\ exit = "0" => written /\ ~Failed(results) /\ ~Failed(speeds)
  /\ exit = "1" /\ written => Failed(results) \/ Failed(speeds)
  /\ written =>
       /\ NamesOf(results) = IF cconf.only THEN {} ELSE ClientSelect(cconf.requested)
       /\ NamesOf(speeds) = Wanted(cconf.throughput)

LEMMA ClientInit == SuiteInit => ClientOK /\ DoneOK
<1> SUFFICES ASSUME SuiteInit PROVE ClientOK /\ DoneOK
  OBVIOUS
<1>1. Going(<< >>, {}) /\ Truthful(<< >>)
  BY DEF Going, InOrder, Truthful
<1> QED BY <1>1 DEF SuiteInit, ClientOK, DoneOK, NoEntries, Available

(* What the server does takes nothing back. *)
LEMMA ClientKept ==
  ASSUME ClientOK, DoneOK, UNCHANGED <<cconf, cli, tests, exit>>, \A n : Offered(n) => Offered(n)'
  PROVE  ClientOK' /\ DoneOK'
<1>0. \A n : Answering(n) => Answering(n)'
  BY DEF Answering, Offered
<1>1. (Truthful(results) /\ Truthful(speeds) /\ \A n : Available(n) => Offered(n) \/ cconf.blind)'
  BY <1>0 DEF tests, ClientOK, Truthful, Available
<1>2. ClientOK'
  BY <1>1 DEF tests, ClientOK, ClientSelect
<1>3. DoneOK'
  BY DEF tests, DoneOK, ClientSelect
<1> QED BY <1>2, <1>3

(* A test is one of those left, and what came of it is true. *)
LEMMA TestHonest ==
  ASSUME ClientOK, cli = "testing", NEW rs, NEW rest, Going(rs, rest), Truthful(rs),
         NEW n \in First(rest), NEW o \in Outcomes(n), ServerOK
  PROVE  Truthful(Append(rs, <<n, o>>)) /\ o \in Outcome
<1>1. o \in Outcome
  BY DEF Outcomes, Outcome
<1>2. n \in Names
  BY DEF First, Going
<1>3. o = "ok" => /\ Answering(n) /\ (n \in RawIP \/ cconf.base = ServerBase)
                  /\ Offered(n) \/ cconf.blind
  <2> SUFFICES ASSUME o = "ok"
               PROVE  /\ Answering(n) /\ (n \in RawIP \/ cconf.base = ServerBase)
                      /\ Offered(n) \/ cconf.blind
    OBVIOUS
  <2>1. Available(n) /\ Served(n, cconf.base + PortOffset[n])
    BY DEF Outcomes
  <2>2. PortOffset[n] \in Nat /\ cconf.base \in Nat /\ ServerBase \in Nat
    BY <1>2, OffsetType DEF ClientOK, TestConf, ServerBase
  <2>3. CASE n \in RawIP
    <3>1. PICK m \in open : Wire(m) = Wire(n)
      BY <2>1, <2>3 DEF Served
    <3>2. m \in DOMAIN entries /\ Offered(m)
      BY DEF ServerOK, Offered
    <3> QED BY <2>1, <2>3, <3>1, <3>2 DEF Answering, ClientOK
  <2>4. CASE n \notin RawIP
    <3>1. n \in open /\ cconf.base + PortOffset[n] = ServerBase + PortOffset[n]
      BY <2>1, <2>4 DEF Served
    <3>2. cconf.base = ServerBase
      BY <2>2, <3>1
    <3> QED BY <2>1, <2>4, <3>1, <3>2 DEF Answering, ServerOK, ClientOK
  <2> QED BY <2>3, <2>4
<1>4. o = "failed" => Offered(n) \/ cconf.blind
  BY DEF Outcomes, ClientOK
<1> DEFINE new == Append(rs, <<n, o>>)
<1>5. /\ Len(rs) \in Nat /\ Len(new) = Len(rs) + 1 /\ new[Len(rs) + 1] = <<n, o>>
      /\ \A i \in 1 .. Len(rs) : new[i] = rs[i]
  BY <1>1, OneMore
<1> HIDE DEF new
<1>6. \A i \in 1 .. Len(new) : i \in 1 .. Len(rs) \/ i = Len(rs) + 1
  BY <1>5
<1>7. Truthful(new)
  BY <1>3, <1>4, <1>5, <1>6 DEF Truthful
<1> QED BY <1>1, <1>7 DEF new

LEMMA ClientSteps ==
  ASSUME ServerOK, ClientOK, DoneOK,
         \/ UsageError \/ ClientNext
         \/ \E conf \in TestConf : ClientStart(conf)
         \/ \E conf \in ForwardConf : ForwardStart(conf)
  PROVE  ClientOK' /\ DoneOK'
<1> USE DEF server, tests, Leaves
<1>0. entries' = entries /\ \A n : Offered(n)' = Offered(n) /\ Answering(n)' = Answering(n)
  BY ClientAlone DEF Offered, Answering
<1>1. CASE UsageError
  BY <1>0, <1>1 DEF UsageError, ClientOK, DoneOK, Truthful, Available
<1>2. CASE \E conf \in TestConf : ClientStart(conf)
  BY <1>0, <1>2 DEF ClientStart, ClientOK, DoneOK, Truthful, Available
<1>3. CASE \E conf \in ForwardConf : ForwardStart(conf)
  BY <1>0, <1>3 DEF ForwardStart, ClientOK, DoneOK, Truthful, Available
<1>4. CASE FetchManifest
  BY <1>0, <1>4 DEF FetchManifest, ClientOK, DoneOK, Truthful, Available, Offered
<1>5. CASE BlindEntries
  BY <1>0, <1>5 DEF BlindEntries, ClientOK, DoneOK, Truthful, Available
<1>6. CASE SelectTests
  <2>1. Going(<< >>, left') /\ Going(<< >>, toSpeed')
    BY <1>6 DEF SelectTests, Going, InOrder, ClientSelect, Wanted, ClientOK
  <2> QED BY <1>0, <1>6, <2>1 DEF SelectTests, ClientOK, DoneOK, Truthful, Available, NamesOf, ClientSelect
<1>7. CASE TestNext
  <2>1. PICK n \in First(left) : \E o \in Outcomes(n) :
               left' = left \ {n} /\ results' = Append(results, <<n, o>>)
    BY <1>7 DEF TestNext
  <2>2. PICK o \in Outcomes(n) : left' = left \ {n} /\ results' = Append(results, <<n, o>>)
    BY <2>1
  <2>3. cli = "testing" /\ UNCHANGED <<cconf, cli, known, toSpeed, speeds, written, exit>>
    BY <1>7 DEF TestNext
  <2>4. Truthful(results') /\ o \in Outcome
    BY <2>2, <2>3, TestHonest DEF ClientOK
  <2>5. Truthful(results)' /\ Truthful(speeds)'
    BY <1>0, <2>3, <2>4 DEF ClientOK, Truthful
  <2>6. Going(results', left') /\ NamesOf(results') \cup left' = NamesOf(results) \cup left
    <3>1. Going(results, left)
      BY DEF ClientOK
    <3>2. n \in First(left) /\ o \in Outcome
      BY <2>4
    <3>3. Going(Append(results, <<n, o>>), left \ {n})
      BY <3>1, <3>2, OneMore
    <3>4. Covered(Append(results, <<n, o>>), left \ {n}) = Covered(results, left)
      BY <3>1, <3>2, OneMore
    <3> QED BY <2>2, <3>3, <3>4 DEF Covered
  <2>7. ClientOK'
    BY <1>0, <2>3, <2>5, <2>6 DEF ClientOK, Available, ClientSelect
  <2>8. DoneOK'
    BY <2>3 DEF ClientOK, DoneOK
  <2> QED BY <2>7, <2>8
<1>8. CASE SpeedNext
  <2>1. PICK n \in First(toSpeed) : \E o \in Outcomes(n) :
               toSpeed' = toSpeed \ {n} /\ speeds' = Append(speeds, <<n, o>>)
    BY <1>8 DEF SpeedNext
  <2>2. PICK o \in Outcomes(n) : toSpeed' = toSpeed \ {n} /\ speeds' = Append(speeds, <<n, o>>)
    BY <2>1
  <2>3. cli = "testing" /\ UNCHANGED <<cconf, cli, known, left, results, written, exit>>
    BY <1>8 DEF SpeedNext
  <2>4. Truthful(speeds') /\ o \in Outcome
    BY <2>2, <2>3, TestHonest DEF ClientOK
  <2>5. Truthful(results)' /\ Truthful(speeds)'
    BY <1>0, <2>3, <2>4 DEF ClientOK, Truthful
  <2>6. Going(speeds', toSpeed') /\ NamesOf(speeds') \cup toSpeed' = NamesOf(speeds) \cup toSpeed
    <3>1. Going(speeds, toSpeed)
      BY DEF ClientOK
    <3>2. n \in First(toSpeed) /\ o \in Outcome
      BY <2>4
    <3>3. Going(Append(speeds, <<n, o>>), toSpeed \ {n})
      BY <3>1, <3>2, OneMore
    <3>4. Covered(Append(speeds, <<n, o>>), toSpeed \ {n}) = Covered(speeds, toSpeed)
      BY <3>1, <3>2, OneMore
    <3> QED BY <2>2, <3>3, <3>4 DEF Covered
  <2>7. ClientOK'
    BY <1>0, <2>3, <2>5, <2>6 DEF ClientOK, Available, ClientSelect
  <2>8. DoneOK'
    BY <2>3 DEF ClientOK, DoneOK
  <2> QED BY <2>7, <2>8
<1>9. CASE Report
  <2>1. /\ cli = "testing" /\ left = {} /\ toSpeed = {} /\ cli' = "done"
        /\ UNCHANGED <<cconf, known, left, results, toSpeed, speeds>>
        /\ exit' = IF ~written' \/ Failed(results) \/ Failed(speeds) THEN "1" ELSE "0"
    BY <1>9 DEF Report
  <2>2. ClientOK'
    BY <1>0, <2>1 DEF ClientOK, Truthful, Available
  <2>3. /\ NamesOf(results) = IF cconf.only THEN {} ELSE ClientSelect(cconf.requested)
        /\ NamesOf(speeds) = Wanted(cconf.throughput)
    BY <2>1 DEF ClientOK
  <2>4. DoneOK'
    BY <2>1, <2>3 DEF DoneOK, ClientSelect, Failed
  <2> QED BY <2>2, <2>4
<1>10. CASE ForwardDialPort \/ ForwardListen
  BY <1>0, <1>10 DEF ForwardDialPort, ForwardListen, ClientOK, DoneOK, Truthful, Available
<1>11. CASE AcceptLocal \/ Socks5Target \/ HandleForwardConn \/ RelayEnds
  BY <1>0, <1>11, ClientKept DEF AcceptLocal, Socks5Target, HandleForwardConn, RelayEnds
<1> QED BY <1>1, <1>2, <1>3, <1>4, <1>5, <1>6, <1>7, <1>8, <1>9, <1>10, <1>11 DEF ClientNext

SuiteInv == ServerOK /\ ClientOK /\ DoneOK

LEMMA SuiteInvInit == SuiteInit => SuiteInv
BY ServerInit, ClientInit DEF SuiteInv

LEMMA SuiteInvStep == SuiteInv /\ [SuiteStep]_suite => SuiteInv'
<1> SUFFICES ASSUME SuiteInv, [SuiteStep]_suite PROVE SuiteInv'
  OBVIOUS
<1>1. ServerOK' /\ \A n : Offered(n) => Offered(n)'
  BY ServerStep DEF SuiteInv
<1>2. CASE UNCHANGED client
  BY <1>1, <1>2, ClientKept DEF SuiteInv, client
<1>3. CASE \/ UsageError \/ ClientNext
           \/ \E conf \in TestConf : ClientStart(conf)
           \/ \E conf \in ForwardConf : ForwardStart(conf)
  BY <1>1, <1>3, ClientSteps DEF SuiteInv
<1> QED BY <1>2, <1>3, ServerAlone DEF SuiteStep, suite

(* The exit code and the report of a client agree with each other, with    *)
(* what was asked for and with what the server offers (Run in client.go),  *)
(* while the server comes up, goes down or loses its accept loops.         *)
THEOREM VerdictIsHonest == SuiteSpec => []VerdictHonest
<1>1. SuiteInv => VerdictHonest
  <2> SUFFICES ASSUME SuiteInv PROVE VerdictHonest
    OBVIOUS
  <2>1. InOrder(results) /\ InOrder(speeds)
    BY DEF SuiteInv, ClientOK, Going
  <2>2. /\ ToSet(results) = {results[i] : i \in 1 .. Len(results)}
        /\ ToSet(speeds) = {speeds[i] : i \in 1 .. Len(speeds)}
    BY LenProperties DEF SuiteInv, ClientOK, Going, ToSet
  <2>3. \A r \in ToSet(results) \cup ToSet(speeds) :
          /\ r[2] = "ok" => Answering(r[1]) /\ (r[1] \in RawIP \/ cconf.base = ServerBase)
          /\ r[2] = "ok" => Offered(r[1]) \/ cconf.blind
          /\ r[2] = "failed" => Offered(r[1]) \/ cconf.blind
    BY <2>2 DEF SuiteInv, ClientOK, Truthful
  <2> QED BY <2>1, <2>3 DEF SuiteInv, DoneOK, VerdictHonest
<1> QED BY <1>1, SuiteInvInit, SuiteInvStep, PTL DEF SuiteSpec

(* The forwarding client: where its tunnels go, and how far the local      *)
(* connection has come.                                                    *)
Conns == [st : {"none", "socks", "dial", "relay", "closed"}, asked : BOOLEAN,
          tun : {"none", "open", "closed"}, replies : {<< >>, <<TRUE>>, <<FALSE>>}]

TunnelOK ==
  /\ conn \in Conns
  /\ cli \in {"listen", "forwarding"} /\ cconf.control # 0 =>
       port = ServerBase + PortOffset[Tunnel] /\ Offered(Tunnel)
  /\ cli = "off" => conn = NoConn
  /\ conn.st \in {"none", "socks"} => ~conn.asked
  /\ conn.st = "socks" => cconf.mode = "socks"
  /\ conn.st \in {"dial", "relay"} => (conn.asked <=> cconf.mode = "socks")
  /\ conn.st \in {"none", "socks", "dial"} => conn.tun = "none" /\ conn.replies = << >>
  /\ conn.st = "relay" => conn.tun = "open" /\ conn.replies = IF conn.asked THEN <<TRUE>> ELSE << >>
  /\ conn.st = "closed" =>
       \/ conn.tun = "none" /\ conn.replies = IF conn.asked THEN <<FALSE>> ELSE << >>
       \/ conn.tun = "closed" /\ conn.replies = IF conn.asked THEN <<TRUE>> ELSE << >>

LEMMA TunnelInit == SuiteInit => TunnelOK
BY DEF SuiteInit, TunnelOK, NoConn, Conns

LEMMA TunnelStep == SuiteInv /\ TunnelOK /\ [SuiteStep]_suite => TunnelOK'
<1> SUFFICES ASSUME SuiteInv, TunnelOK, [SuiteStep]_suite PROVE TunnelOK'
  OBVIOUS
<1> USE DEF tests
<1>1. ASSUME UNCHANGED <<cli, conn, cconf, port>> PROVE TunnelOK'
  <2>1. \A n : Offered(n) => Offered(n)'
    BY ServerStep DEF SuiteInv
  <2>2. Tunnel' = Tunnel
    BY <1>1 DEF Tunnel
  <2>3. Offered(Tunnel) => Offered(Tunnel)'
    BY <2>1, <2>2
  <2> QED BY <1>1, <2>2, <2>3 DEF TunnelOK
<1>2. CASE UNCHANGED client
  BY <1>1, <1>2 DEF client
<1>3. ASSUME UNCHANGED conn, cli' \notin {"off", "listen", "forwarding"},
             UNCHANGED cconf \/ conn = NoConn
      PROVE  TunnelOK'
  BY <1>3 DEF TunnelOK, NoConn
<1>4. CASE UsageError \/ FetchManifest \/ BlindEntries \/ SelectTests \/ TestNext \/ SpeedNext \/ Report
  BY <1>3, <1>4 DEF UsageError, FetchManifest, BlindEntries, SelectTests, TestNext, SpeedNext, Report, Leaves
<1>5. CASE \/ \E conf \in TestConf : ClientStart(conf)
           \/ \E conf \in ForwardConf : ForwardStart(conf)
  BY <1>3, <1>5 DEF ClientStart, ForwardStart, Leaves, TunnelOK
<1>6. CASE ForwardDialPort
  <2>1. UNCHANGED <<conn, cconf, entries>> /\ cli' \in {"listen", "done"} /\ Tunnel' = Tunnel
    BY <1>6 DEF ForwardDialPort, Leaves, server, Tunnel
  <2>2. cli' = "listen" /\ cconf.control # 0 => port' = ServerBase + PortOffset[Tunnel] /\ Offered(Tunnel)'
    BY <1>6, <2>1 DEF ForwardDialPort, Leaves, Offered
  <2> QED BY <2>1, <2>2 DEF TunnelOK
<1>7. CASE ForwardListen
  <2>1. UNCHANGED <<conn, cconf, port>> /\ cli = "listen" /\ cli' \in {"forwarding", "done"} /\ Tunnel' = Tunnel
        /\ Offered(Tunnel)' = Offered(Tunnel)
    BY <1>7 DEF ForwardListen, Leaves, server, Tunnel, Offered
  <2> QED BY <2>1 DEF TunnelOK
<1>8. CASE AcceptLocal \/ Socks5Target \/ HandleForwardConn \/ RelayEnds
  <2>a. UNCHANGED <<cli, cconf, port, entries>>
    BY <1>8 DEF AcceptLocal, Socks5Target, HandleForwardConn, RelayEnds, server
  <2>b. cli # "off"
    <3>1. AcceptLocal => cli = "forwarding"
      BY DEF AcceptLocal
    <3>2. Socks5Target \/ HandleForwardConn \/ RelayEnds => conn.st # "none"
      BY DEF Socks5Target, HandleForwardConn, RelayEnds
    <3>3. NoConn.st = "none"
      BY DEF NoConn
    <3>4. conn.st # "none" => cli # "off"
      BY <3>3 DEF TunnelOK
    <3> QED BY <1>8, <3>1, <3>2, <3>4
  <2>0. UNCHANGED <<cli, cconf, port>> /\ cli # "off" /\ Tunnel' = Tunnel /\ Offered(Tunnel)' = Offered(Tunnel)
    BY <2>a, <2>b DEF Tunnel, Offered
  <2>1. conn' \in Conns /\ TunnelOK'
    <3>1. CASE AcceptLocal
      BY <2>0, <3>1 DEF AcceptLocal, TunnelOK, Conns
    <3>2. CASE Socks5Target
      BY <2>0, <3>2 DEF Socks5Target, TunnelOK, Conns
    <3>3. CASE HandleForwardConn
      <4>1. conn.st = "dial" /\ conn.tun = "none" /\ conn.replies = << >> /\ (conn.asked <=> cconf.mode = "socks")
        BY <3>3 DEF HandleForwardConn, TunnelOK
      <4>2. Append(conn.replies, TRUE) = <<TRUE>> /\ Append(conn.replies, FALSE) = <<FALSE>>
        BY <4>1
      <4>3. \/ conn' = [conn EXCEPT !.st = "relay", !.tun = "open", !.replies = IF conn.asked THEN <<TRUE>> ELSE << >>]
            \/ conn' = [conn EXCEPT !.st = "closed", !.replies = IF conn.asked THEN <<FALSE>> ELSE << >>]
        <5>1. conn \in Conns
          BY DEF TunnelOK
        <5>2. conn.asked \in BOOLEAN
          BY <5>1 DEF Conns
        <5>3. \/ conn' = Socks5Reply([conn EXCEPT !.st = "relay", !.tun = "open"], TRUE)
              \/ conn' = Socks5Reply([conn EXCEPT !.st = "closed"], FALSE)
          BY <3>3 DEF HandleForwardConn
        <5>4. CASE cconf.mode = "socks"
          <6>1. \/ conn' = [conn EXCEPT !.st = "relay", !.tun = "open", !.replies = Append(conn.replies, TRUE)]
                \/ conn' = [conn EXCEPT !.st = "closed", !.replies = Append(conn.replies, FALSE)]
            BY <5>1, <5>3, <5>4 DEF Socks5Reply, Conns
          <6> QED BY <4>1, <4>2, <5>4, <6>1
        <5>5. CASE cconf.mode # "socks"
          <6>1. \/ conn' = [conn EXCEPT !.st = "relay", !.tun = "open"]
                \/ conn' = [conn EXCEPT !.st = "closed"]
            BY <5>3, <5>5 DEF Socks5Reply
          <6>2. /\ [conn EXCEPT !.st = "relay", !.tun = "open"] = [conn EXCEPT !.st = "relay", !.tun = "open", !.replies = << >>]
                /\ [conn EXCEPT !.st = "closed"] = [conn EXCEPT !.st = "closed", !.replies = << >>]
            BY <4>1, <5>1 DEF Conns
          <6>3. ~conn.asked
            BY <4>1, <5>2, <5>5
          <6> QED BY <6>1, <6>2, <6>3
        <5> QED BY <5>4, <5>5
      <4> QED BY <2>0, <4>1, <4>3 DEF TunnelOK, Conns
    <3>4. CASE RelayEnds
      BY <2>0, <3>4 DEF RelayEnds, TunnelOK, Conns
    <3> QED BY <1>8, <3>1, <3>2, <3>3, <3>4
  <2> QED BY <2>1
<1> QED BY <1>2, <1>4, <1>5, <1>6, <1>7, <1>8, ServerAlone DEF SuiteStep, ClientNext, suite

(* A forwarding client that asks the manifest dials the port the server    *)
(* serves its protocol on, tells a SOCKS client once and truly how the     *)
(* dial ended, and closes the tunnel with the local connection             *)
(* (forwardDialPort, handleForwardConn).                                   *)
THEOREM ForwardingIsHonest == SuiteSpec => []ForwardHonest
<1>1. TunnelOK => ForwardHonest
  <2> SUFFICES ASSUME TunnelOK PROVE ForwardHonest
    OBVIOUS
  <2>1. Len(<<TRUE>>) = 1 /\ Len(<<FALSE>>) = 1 /\ Len(<< >>) = 0 /\ <<TRUE>> # <<FALSE>> /\ <<TRUE>> # << >> /\ <<FALSE>> # << >>
    OBVIOUS
  <2>2. conn.st = "closed" => conn.tun # "open" /\ Len(conn.replies) = (IF conn.asked THEN 1 ELSE 0)
    BY <2>1 DEF TunnelOK, Conns
  <2>3. conn.replies = <<TRUE>> => conn.tun # "none"
    BY <2>1 DEF TunnelOK, Conns
  <2>4. conn.replies = <<FALSE>> => conn.tun = "none"
    BY <2>1 DEF TunnelOK, Conns
  <2> QED BY <2>2, <2>3, <2>4 DEF TunnelOK, ForwardHonest
<1> QED BY <1>1, SuiteInvInit, SuiteInvStep, TunnelInit, TunnelStep, PTL DEF SuiteSpec

-----------------------------------------------------------------------------
(* The systemd units of HostSetup. *)

(* systemd knows of units only. *)
UnitsOK == DOMAIN file = Units /\ enabled \subseteq Units /\ running \subseteq Units

(* An installation works on a unit from its first step to its last. *)
InstallOK ==
  /\ stage \in {"write", "enable"} => cmd = "install"
  /\ stage \in {"disable", "delete"} => cmd # "install"
  /\ cmd = "install" /\ stage \in {"write", "reload", "enable"} => queue[1] \in Units

(* A file is deleted only after systemd let go of its unit. *)
DeleteOK == stage = "delete" => queue[1] \notin enabled \cup running

HInv == UnitsOK /\ NoServiceWithoutUnit /\ InstallOK /\ DeleteOK

LEMMA HostInit == SetupInit => HInv
BY DEF SetupInit, HInv, UnitsOK, NoServiceWithoutUnit, InstallOK, DeleteOK

(* A command that begins touches no unit. *)
LEMMA BeginStep ==
  ASSUME HInv, NEW c, NEW o, NEW first, NEW us, Begin(c, o, first, us),
         first \in {"write", "disable", "confirm", "finish"},
         first = "write" => c = "install" /\ us[1] \in Units,
         first = "disable" => c # "install"
  PROVE  HInv'
<1> USE DEF HInv, Begin, units
<1>1. UnitsOK' /\ NoServiceWithoutUnit'
  BY DEF UnitsOK, NoServiceWithoutUnit
<1>2. InstallOK'
  BY DEF InstallOK
<1>3. DeleteOK'
  BY DEF DeleteOK
<1> QED BY <1>1, <1>2, <1>3

LEMMA CommandsBegin ==
  ASSUME HInv,
         \/ \E u \in Units : Install(u) \/ RemoveOne(u)
         \/ \E names \in SUBSET Units : Uninstall(names)
  PROVE  HInv'
<1>1. ASSUME NEW u \in Units, Install(u)
      PROVE  HInv'
  <2>1. PICK dry, env \in BOOLEAN :
          Begin("install", [dry |-> dry, consent |-> TRUE], IF dry \/ ~env THEN "finish" ELSE "write", <<u>>)
    BY <1>1 DEF Install, One
  <2>2. <<u>>[1] \in Units
    OBVIOUS
  <2> QED BY <2>1, <2>2, BeginStep
<1>2. ASSUME NEW u \in Units, RemoveOne(u)
      PROVE  HInv'
  <2>1. PICK dry, env \in BOOLEAN :
          Begin("remove", [dry |-> dry, consent |-> TRUE], IF dry \/ ~env THEN "finish" ELSE "disable", <<u>>)
    BY <1>2 DEF RemoveOne, One
  <2> QED BY <2>1, BeginStep
<1>3. ASSUME NEW names \in SUBSET Units, Uninstall(names)
      PROVE  HInv'
  <2> DEFINE installed == FindTunnelSuiteUnits
             chosen == IF names = {} THEN installed ELSE names
             first == IF ~(names \subseteq installed) \/ chosen = {} THEN "finish" ELSE "confirm"
             us == IF names \subseteq installed THEN SetToSeq(chosen) ELSE << >>
  <2>1. PICK dry, yes \in BOOLEAN : Begin("uninstall", [dry |-> dry, consent |-> yes], first, us)
    BY <1>3, Zenon DEF Uninstall
  <2>2. first \in {"finish", "confirm"}
    OBVIOUS
  <2> HIDE DEF first, us
  <2> QED BY <2>1, <2>2, BeginStep
<1> QED BY <1>1, <1>2, <1>3

LEMMA InstallSteps ==
  ASSUME HInv, Write \/ Reload \/ Enable
  PROVE  HInv'
<1> USE DEF HInv, units, step
<1>1. ASSUME Write PROVE HInv'
  <2>1. UnitsOK' /\ NoServiceWithoutUnit'
    BY <1>1 DEF Write, UnitsOK, NoServiceWithoutUnit
  <2>2. InstallOK'
    BY <1>1 DEF Write, InstallOK
  <2>3. DeleteOK'
    BY <1>1 DEF Write, DeleteOK
  <2> QED BY <2>1, <2>2, <2>3
<1>2. ASSUME Reload PROVE HInv'
  <2>1. UnitsOK' /\ NoServiceWithoutUnit'
    BY <1>2 DEF Reload, UnitsOK, NoServiceWithoutUnit
  <2>2. InstallOK'
    BY <1>2 DEF Reload, InstallOK
  <2>3. DeleteOK'
    BY <1>2 DEF Reload, DeleteOK
  <2> QED BY <2>1, <2>2, <2>3
<1>3. ASSUME Enable PROVE HInv'
  <2>1. UnitsOK' /\ NoServiceWithoutUnit'
    BY <1>3 DEF Enable, EnableNow, InstallOK, UnitsOK, NoServiceWithoutUnit
  <2>2. InstallOK' /\ DeleteOK'
    BY <1>3 DEF Enable, InstallOK, DeleteOK
  <2> QED BY <2>1, <2>2
<1> QED BY <1>1, <1>2, <1>3

LEMMA RemovalSteps ==
  ASSUME HInv, Confirm \/ Disable \/ Delete
  PROVE  HInv'
<1> USE DEF HInv, units, step
<1>0. NextUnit \in {"reload", "disable", "finish"} /\ (cmd # "uninstall" => NextUnit = "finish")
  BY DEF NextUnit
<1>1. ASSUME Confirm PROVE HInv'
  <2>1. UnitsOK' /\ NoServiceWithoutUnit'
    BY <1>1 DEF Confirm, UnitsOK, NoServiceWithoutUnit
  <2>2. InstallOK' /\ DeleteOK'
    BY <1>1 DEF Confirm, InstallOK, DeleteOK
  <2> QED BY <2>1, <2>2
<1>2. ASSUME Disable PROVE HInv'
  <2>1. UnitsOK' /\ NoServiceWithoutUnit'
    BY <1>2 DEF Disable, DisableNow, UnitsOK, NoServiceWithoutUnit
  <2>2. InstallOK'
    BY <1>0, <1>2 DEF Disable, InstallOK
  <2>3. DeleteOK'
    BY <1>0, <1>2 DEF Disable, DisableNow, DeleteOK
  <2> QED BY <2>1, <2>2, <2>3
<1>3. ASSUME Delete PROVE HInv'
  <2>1. UnitsOK' /\ NoServiceWithoutUnit'
    BY <1>3 DEF Delete, DeleteOK, UnitsOK, NoServiceWithoutUnit
  <2>2. InstallOK' /\ DeleteOK'
    BY <1>0, <1>3 DEF Delete, InstallOK, DeleteOK
  <2> QED BY <2>1, <2>2
<1> QED BY <1>1, <1>2, <1>3

LEMMA HostNext == HInv /\ [UnitsNext \/ CompletionNext]_setup => HInv'
<1> SUFFICES ASSUME HInv, [UnitsNext \/ CompletionNext]_setup PROVE HInv'
  OBVIOUS
<1> USE DEF HInv, units, step
<1>1. CASE UnitsNext
  <2>1. ASSUME Return \/ Interrupt PROVE HInv'
    <3>1. UnitsOK' /\ NoServiceWithoutUnit'
      BY <2>1 DEF Return, Interrupt, UnitsOK, NoServiceWithoutUnit
    <3>2. InstallOK' /\ DeleteOK'
      BY <2>1 DEF Return, Interrupt, InstallOK, DeleteOK
    <3> QED BY <3>1, <3>2
  <2> QED BY <1>1, <2>1, CommandsBegin, InstallSteps, RemovalSteps DEF UnitsNext
<1>2. CASE CompletionNext \/ UNCHANGED setup
  <2>1. UNCHANGED <<file, enabled, running, cmd, stage, queue>>
    BY <1>2 DEF CompletionNext, CompletionInstall, CompletionUninstall, CompletionInterrupted,
                UserWrites, setup
  <2> QED BY <2>1 DEF UnitsOK, NoServiceWithoutUnit, InstallOK, DeleteOK
<1> QED BY <1>1, <1>2

(* Whatever commands run one after the other, fail or are interrupted       *)
(* (install.go, uninstall.go): systemd never runs or starts at boot a unit  *)
(* whose file is gone.                                                      *)
THEOREM ServicesHaveUnits == SetupSpec => []NoServiceWithoutUnit
<1>1. HInv => NoServiceWithoutUnit
  BY DEF HInv
<1> QED BY HostInit, HostNext, <1>1, PTL DEF SetupSpec

LEMMA UnitsAsSequence ==
  ASSUME NEW S \in SUBSET Units
  PROVE  SetToSeq(S) \in Seq(Units)
<1>1. IsFiniteSet(S)
  BY HostAssumption, FS_Subset
<1>2. Cardinality(S) \in Nat /\ \E f \in [1 .. Cardinality(S) -> S] : IsInjective(f)
  BY <1>1, FS_CardinalityType DEF ExistsBijection, Bijection, Injection, IsInjective
<1>3. SetToSeq(S) \in [1 .. Cardinality(S) -> S]
  BY <1>2 DEF SetToSeq
<1> QED BY <1>2, <1>3

LEMMA HeadAndTail ==
  ASSUME NEW s \in Seq(Units), s # << >>
  PROVE  /\ s[1] \in Units /\ Tail(s) \in Seq(Units)
         /\ ToSet(s) = {s[1]} \cup ToSet(Tail(s))
         /\ Tail(s) = << >> <=> Len(s) = 1
<1>1. /\ Tail(s) \in Seq(Units) /\ Len(Tail(s)) = Len(s) - 1
      /\ \A i \in 1 .. Len(Tail(s)) : Tail(s)[i] = s[i + 1]
  BY HeadTailProperties
<1>2. Len(s) \in Nat /\ Len(s) >= 1 /\ DOMAIN s = 1 .. Len(s) /\ DOMAIN Tail(s) = 1 .. Len(Tail(s))
  BY <1>1
<1>3. s[1] \in Units
  BY <1>2
<1>4. ASSUME NEW i \in 1 .. Len(s) PROVE s[i] = s[1] \/ s[i] \in ToSet(Tail(s))
  <2>1. CASE i = 1
    BY <2>1
  <2>2. CASE i # 1
    <3>1. i - 1 \in 1 .. Len(Tail(s)) /\ (i - 1) + 1 = i
      BY <1>1, <1>2, <2>2
    <3>2. Tail(s)[i - 1] = s[i]
      BY <1>1, <3>1
    <3> QED BY <1>2, <3>1, <3>2 DEF ToSet
  <2> QED BY <2>1, <2>2
<1>5. ASSUME NEW i \in 1 .. Len(Tail(s)) PROVE Tail(s)[i] \in ToSet(s)
  <2>1. i + 1 \in 1 .. Len(s) /\ Tail(s)[i] = s[i + 1]
    BY <1>1, <1>2
  <2> QED BY <1>2, <2>1 DEF ToSet
<1>6. ToSet(s) = {s[1]} \cup ToSet(Tail(s))
  BY <1>2, <1>4, <1>5 DEF ToSet
<1>7. Tail(s) = << >> <=> Len(s) = 1
  BY <1>1, <1>2, EmptySeq
<1> QED BY <1>1, <1>3, <1>6, <1>7

Untouched == \A u \in Units \ asked : /\ file[u] = before.file[u]
                                      /\ u \in enabled <=> u \in before.enabled
                                      /\ u \in running <=> u \in before.running

(* Those still in the queue are to be removed; all others were, or failed.  *)
Cleared == \A u \in asked \ broken : u \in ToSet(queue) \/ Gone(u)

Agreed == ~opt.dry /\ opt.consent

(* An uninstall changes nothing before it is agreed to, and then takes one  *)
(* unit after the other from the queue.                                     *)
RemovalOK ==
  cmd = "uninstall" =>
    /\ stage \in {"confirm", "disable", "delete", "reload", "finish"}
    /\ opt \in [dry : BOOLEAN, consent : BOOLEAN]
    /\ queue \in Seq(Units) /\ ToSet(queue) \subseteq asked /\ asked \subseteq Units
    /\ Untouched
    /\ stage = "confirm" => Snapshot = before /\ broken = {} /\ Cleared /\ queue # << >>
    /\ stage \in {"disable", "delete"} => Agreed /\ Cleared /\ queue # << >>
    /\ stage = "reload" => Agreed /\ Cleared /\ queue = << >>
    /\ stage = "finish" => \/ Snapshot = before /\ broken = {}
                           \/ Agreed /\ Cleared /\ queue = << >>

LEMMA UninstallBegins ==
  ASSUME NEW names \in SUBSET Units, Uninstall(names)
  PROVE  RemovalOK'
<1> DEFINE installed == FindTunnelSuiteUnits
           chosen == IF names = {} THEN installed ELSE names
           first == IF ~(names \subseteq installed) \/ chosen = {} THEN "finish" ELSE "confirm"
           us == IF names \subseteq installed THEN SetToSeq(chosen) ELSE << >>
<1>1. PICK dry, yes \in BOOLEAN : Begin("uninstall", [dry |-> dry, consent |-> yes], first, us)
  BY Zenon DEF Uninstall
<1>2. chosen \in SUBSET Units
  BY DEF FindTunnelSuiteUnits
<1>3. us \in Seq(Units) /\ ToSet(us) \subseteq Units
  BY <1>2, UnitsAsSequence DEF ToSet
<1>4. first = "confirm" => us # << >>
  <2> SUFFICES ASSUME first = "confirm" PROVE us # << >>
    OBVIOUS
  <2>1. us = SetToSeq(chosen) /\ chosen # {}
    OBVIOUS
  <2>2. IsFiniteSet(chosen) /\ Cardinality(chosen) \in Nat
        /\ \E f \in [1 .. Cardinality(chosen) -> chosen] : IsInjective(f)
    BY <1>2, HostAssumption, FS_Subset, FS_CardinalityType DEF ExistsBijection, Bijection, Injection, IsInjective
  <2>3. SetToSeq(chosen) \in [1 .. Cardinality(chosen) -> chosen]
    BY <2>2 DEF SetToSeq
  <2>4. Cardinality(chosen) # 0
    BY <2>1, <2>2, FS_EmptySet
  <2> HIDE DEF chosen
  <2>5. Len(SetToSeq(chosen)) = Cardinality(chosen)
    BY <2>2, <2>3
  <2> QED BY <2>1, <2>4, <2>5
<1>5. first \in {"finish", "confirm"}
  OBVIOUS
<1> HIDE DEF first, us
<1>6. /\ UNCHANGED <<file, enabled, running>> /\ stage' = first /\ queue' = us /\ asked' = ToSet(us)
      /\ broken' = {} /\ before' = Snapshot /\ opt' = [dry |-> dry, consent |-> yes]
  BY <1>1 DEF Begin, units
<1>7. Snapshot' = before'
  BY <1>6 DEF Snapshot
<1>8. Untouched'
  BY <1>6 DEF Untouched, Snapshot
<1>9. Cleared'
  BY <1>6 DEF Cleared
<1> QED BY <1>3, <1>4, <1>5, <1>6, <1>7, <1>8, <1>9 DEF RemovalOK

LEMMA UninstallSteps ==
  ASSUME HInv, RemovalOK, cmd = "uninstall", Confirm \/ Reload \/ Disable \/ Delete \/ Return \/ Interrupt
  PROVE  RemovalOK'
<1> USE DEF units, step
<1>1. CASE Return \/ Interrupt
  <2>1. cmd' = "none"
    BY <1>1 DEF Return, Interrupt
  <2> QED BY <2>1 DEF RemovalOK
<1>2. CASE Confirm
  <2>1. stage = "confirm" /\ UNCHANGED <<file, enabled, running, cmd, queue, asked, broken, before>>
    BY <1>2 DEF Confirm
  <2>2. UNCHANGED <<Snapshot, Untouched, Cleared>>
    BY <2>1 DEF Snapshot, Untouched, Cleared, Gone
  <2>3. PICK answer, env \in BOOLEAN :
          /\ opt' = [opt EXCEPT !.consent = @ \/ answer]
          /\ stage' = IF opt.dry \/ ~opt'.consent \/ ~env THEN "finish" ELSE "disable"
    BY <1>2 DEF Confirm
  <2>4. opt \in [dry : BOOLEAN, consent : BOOLEAN]
    BY DEF RemovalOK
  <2>5. opt' \in [dry : BOOLEAN, consent : BOOLEAN] /\ opt'.dry = opt.dry
    BY <2>3, <2>4
  <2>6. stage' = "finish" \/ (stage' = "disable" /\ Agreed')
    BY <2>3, <2>5 DEF Agreed
  <2> QED BY <2>1, <2>2, <2>5, <2>6 DEF RemovalOK
<1>3. CASE Reload
  <2>1. /\ stage = "reload" /\ stage' = "finish"
        /\ UNCHANGED <<file, enabled, running, cmd, opt, queue, asked, broken, before>>
    BY <1>3 DEF Reload
  <2>2. UNCHANGED <<Untouched, Cleared, Agreed>>
    BY <2>1 DEF Untouched, Cleared, Gone, Agreed
  <2> QED BY <2>1, <2>2 DEF RemovalOK
<1>4. ASSUME stage \in {"disable", "delete"}
      PROVE  /\ queue \in Seq(Units) /\ queue[1] \in Units /\ Tail(queue) \in Seq(Units)
             /\ ToSet(queue) = {queue[1]} \cup ToSet(Tail(queue)) /\ ToSet(queue) \subseteq asked
             /\ NextUnit = IF Tail(queue) = << >> THEN "reload" ELSE "disable"
  BY <1>4, HeadAndTail DEF RemovalOK, NextUnit
<1>5. CASE Disable
  <2>1. /\ stage = "disable" /\ UNCHANGED <<file, cmd, opt, asked, before>>
        /\ enabled' \in {enabled \ {queue[1]}, enabled} /\ running' \in {running \ {queue[1]}, running}
    BY <1>5 DEF Disable, DisableNow
  <2>2. Untouched'
    BY <1>4, <2>1 DEF RemovalOK, Untouched
  <2>3. Agreed' /\ \A u : Gone(u) => Gone(u)'
    BY <2>1 DEF RemovalOK, Agreed, Gone
  <2>4. CASE stage' = "delete" /\ UNCHANGED <<queue, broken>>
    <3>1. Cleared'
      BY <2>1, <2>3, <2>4 DEF RemovalOK, Cleared
    <3> QED BY <2>1, <2>2, <2>3, <2>4, <3>1 DEF RemovalOK, Agreed
  <2>5. CASE stage' = NextUnit /\ Fail(queue[1])
    <3>1. Cleared'
      BY <1>4, <2>1, <2>3, <2>5 DEF RemovalOK, Cleared, Fail
    <3>2. queue' = Tail(queue)
      BY <2>5 DEF Fail
    <3> QED BY <1>4, <2>1, <2>2, <2>3, <2>5, <3>1, <3>2 DEF RemovalOK, Agreed
  <2> QED BY <1>5, <2>4, <2>5 DEF Disable
<1>6. CASE Delete
  <2>1. /\ stage = "delete" /\ UNCHANGED <<enabled, running, cmd, opt, asked, before>>
        /\ queue' = Tail(queue) /\ stage' = NextUnit
    BY <1>6 DEF Delete, Fail
  <2>2. CASE file' = [file EXCEPT ![queue[1]] = "none"] /\ UNCHANGED broken
    <3>1. Untouched'
      BY <1>4, <2>1, <2>2 DEF HInv, UnitsOK, RemovalOK, Untouched
    <3>2. \A u \in Units : u = queue[1] \/ Gone(u) => Gone(u)'
      BY <1>4, <2>1, <2>2 DEF HInv, UnitsOK, DeleteOK, Gone
    <3>3. Cleared'
      BY <1>4, <2>1, <2>2, <3>2 DEF RemovalOK, Cleared
    <3> QED BY <1>4, <2>1, <2>2, <3>1, <3>3 DEF RemovalOK, Agreed
  <2>3. CASE Fail(queue[1]) /\ UNCHANGED file
    <3>1. Untouched'
      BY <2>1, <2>3 DEF RemovalOK, Untouched
    <3>2. Cleared'
      BY <1>4, <2>1, <2>3 DEF RemovalOK, Cleared, Fail, Gone
    <3> QED BY <1>4, <2>1, <2>3, <3>1, <3>2 DEF RemovalOK, Agreed
  <2> QED BY <1>6, <2>2, <2>3 DEF Delete
<1> QED BY <1>1, <1>2, <1>3, <1>5, <1>6

LEMMA RemovalNext == HInv /\ RemovalOK /\ [UnitsNext \/ CompletionNext]_setup => RemovalOK'
<1> SUFFICES ASSUME HInv, RemovalOK, [UnitsNext \/ CompletionNext]_setup PROVE RemovalOK'
  OBVIOUS
<1> USE DEF units, step
<1>1. CASE \E u \in Units : Install(u) \/ RemoveOne(u)
  <2>1. cmd' \in {"install", "remove"}
    BY <1>1 DEF Install, RemoveOne, One, Begin
  <2> QED BY <2>1 DEF RemovalOK
<1>2. CASE \E names \in SUBSET Units : Uninstall(names)
  BY <1>2, UninstallBegins
<1>3. CASE Write \/ Enable
  <2>1. cmd = "install" /\ cmd' = cmd
    BY <1>3 DEF Write, Enable, HInv, InstallOK
  <2> QED BY <2>1 DEF RemovalOK
<1>4. CASE Confirm \/ Reload \/ Disable \/ Delete \/ Return \/ Interrupt
  <2>1. CASE cmd = "uninstall"
    BY <1>4, <2>1, UninstallSteps
  <2>2. CASE cmd # "uninstall"
    <3>1. cmd' # "uninstall"
      BY <1>4, <2>2 DEF Confirm, Reload, Disable, Delete, Return, Interrupt
    <3> QED BY <3>1 DEF RemovalOK
  <2> QED BY <2>1, <2>2
<1>5. CASE CompletionNext \/ UNCHANGED setup
  <2>1. UNCHANGED <<file, enabled, running, cmd, opt, stage, queue, asked, broken, before>>
    BY <1>5 DEF CompletionNext, CompletionInstall, CompletionUninstall, CompletionInterrupted,
                UserWrites, setup
  <2> QED BY <2>1 DEF RemovalOK, Untouched, Cleared, Gone, Agreed, Snapshot
<1> QED BY <1>1, <1>2, <1>3, <1>4, <1>5 DEF UnitsNext

(* An uninstall that was agreed to and not interrupted has removed every    *)
(* unit it listed that did not itself fail, whatever happened to the        *)
(* others; units it did not list, and without consent or with --dry-run all *)
(* of them, are as before (runUninstall, removeUnits): for any units.       *)
THEOREM UninstallIsThorough == SetupSpec => []UninstallThorough
<1>1. RemovalOK => UninstallThorough
  <2> SUFFICES ASSUME RemovalOK, cmd = "uninstall", stage \in {"reload", "finish"}
               PROVE  UninstallThorough
    BY DEF UninstallThorough
  <2>1. Untouched
    BY DEF RemovalOK
  <2>2. queue = << >> => ToSet(queue) = {}
    BY DEF ToSet
  <2>3. opt.dry \/ ~opt.consent => Snapshot = before
    BY DEF RemovalOK, Agreed
  <2>4. broken # {} \/ stage = "reload" => \A u \in asked \ broken : Gone(u)
    BY <2>2 DEF RemovalOK, Cleared
  <2> QED BY <2>1, <2>3, <2>4, Zenon DEF UninstallThorough, Untouched
<1>2. SetupInit => RemovalOK
  BY DEF SetupInit, RemovalOK
<1>3. HInv /\ RemovalOK /\ [UnitsNext \/ CompletionNext]_setup => HInv' /\ RemovalOK'
  BY HostNext, RemovalNext
<1> QED BY HostInit, <1>1, <1>2, <1>3, PTL DEF SetupSpec

-----------------------------------------------------------------------------
(* Induction over sequences, and recursion. *)

(* Every nonempty set of naturals has a least element. *)
LEMMA Least ==
  ASSUME NEW T, T \subseteq Nat, T # {}
  PROVE  \E m \in T : \A n \in T : m <= n
<1> DEFINE R == OpToRel(<, Nat)
<1>1. IsWellFoundedOn(R, Nat)
  BY NatLessThanWellFounded
<1>2. \A x, y \in Nat : <<y, x>> \in R <=> y < x
  BY DEF OpToRel
<1> HIDE DEF R
<1>3. PICK x \in T : \A y \in T : <<y, x>> \notin R
  BY <1>1, WFMin
<1>4. x \in Nat /\ \A y \in T : y \in Nat /\ ~(y < x)
  BY <1>2, <1>3
<1> QED BY <1>3, <1>4, SMT

(* Induction on the length of sequences, stated with a set.                *)
LEMMA ByLength ==
  ASSUME NEW A, NEW P,
         \A s \in Seq(A) : (\A t \in Seq(A) : Len(t) < Len(s) => t \in P) => s \in P
  PROVE  Seq(A) \subseteq P
<1> DEFINE B == {k \in Nat : \E s \in Seq(A) : Len(s) = k /\ s \notin P}
<1>1. CASE B = {}
  <2>1. \A s \in Seq(A) : Len(s) \in Nat
    OBVIOUS
  <2> QED BY <1>1, <2>1
<1>2. CASE B # {}
  <2>1. PICK m \in B : \A k \in B : m <= k
    BY <1>2, Least
  <2>2. PICK s \in Seq(A) : m \in Nat /\ s \notin P /\ Len(s) = m
    BY <2>1
  <2>3. ASSUME NEW t \in Seq(A), Len(t) < Len(s) PROVE t \in P
    <3>1. Len(t) \in Nat /\ ~(m <= Len(t))
      BY <2>2, <2>3, SMTT(60)
    <3>2. Len(t) \notin B
      BY <2>1, <3>1
    <3> QED BY <3>1, <3>2
  <2> QED BY <2>2, <2>3
<1> QED BY <1>1, <1>2

(* Two functions that agree wherever they agree on all that is shorter,    *)
(* agree.                                                                  *)
LEMMA AgreeBelow ==
  ASSUME NEW A, NEW g, NEW h, NEW n \in Nat,
         \A s \in Seq(A) : Len(s) < n /\ (\A t \in Seq(A) : Len(t) < Len(s) => g[t] = h[t]) => g[s] = h[s]
  PROVE  \A s \in Seq(A) : Len(s) < n => g[s] = h[s]
<1> DEFINE P == {s \in Seq(A) : Len(s) < n => g[s] = h[s]}
<1>1. ASSUME NEW s \in Seq(A), \A t \in Seq(A) : Len(t) < Len(s) => t \in P PROVE s \in P
  <2>1. ASSUME Len(s) < n PROVE \A t \in Seq(A) : Len(t) < Len(s) => g[t] = h[t]
    BY <1>1, <2>1
  <2> QED BY <2>1
<1> HIDE DEF P
<1>2. Seq(A) \subseteq P
  BY <1>1, ByLength
<1> QED BY <1>2 DEF P

(* The same of all lengths.                                                *)
AgreeStepwise(A, g, h) ==
  \A s \in Seq(A) : (\A t \in Seq(A) : Len(t) < Len(s) => g[t] = h[t]) => g[s] = h[s]

(* The same of all lengths.                                                *)
LEMMA SameFunction ==
  ASSUME NEW A, NEW g, NEW h, AgreeStepwise(A, g, h)
  PROVE  \A s \in Seq(A) : g[s] = h[s]
<1> DEFINE P == {s \in Seq(A) : g[s] = h[s]}
<1>1. ASSUME NEW s \in Seq(A), \A t \in Seq(A) : Len(t) < Len(s) => t \in P PROVE s \in P
  BY <1>1 DEF AgreeStepwise
<1> HIDE DEF P
<1>2. Seq(A) \subseteq P
  BY <1>1, ByLength
<1> QED BY <1>2 DEF P

(* What D makes of a function at s depends only on its values at sequences *)
(* shorter than s.                                                         *)
Shortens(A, T, D) ==
  /\ D \in [[Seq(A) -> T] -> [Seq(A) -> T]]
  /\ \A s \in Seq(A) : \A g, h \in [Seq(A) -> T] :
       (\A t \in Seq(A) : Len(t) < Len(s) => g[t] = h[t]) => D[g][s] = D[h][s]

(* A function on sequences may be defined by recursion on shorter ones.    *)
LEMMA Recursion ==
  ASSUME NEW A, NEW T, T # {}, NEW D, Shortens(A, T, D)
  PROVE  \E f \in [Seq(A) -> T] : f = D[f]
<1> PICK some \in T : TRUE
  OBVIOUS
<1>0. D \in [[Seq(A) -> T] -> [Seq(A) -> T]]
  BY DEF Shortens
<1> DEFINE S == Seq(A)
           Upto(n, g) == \A s \in S : Len(s) < n => g[s] = D[g][s]
<1>1. ASSUME NEW n \in Nat, NEW g \in [S -> T], NEW h \in [S -> T], Upto(n, g), Upto(n, h)
      PROVE  \A s \in S : Len(s) < n => g[s] = h[s]
  <2>1. \A s \in S : Len(s) < n /\ (\A t \in S : Len(t) < Len(s) => g[t] = h[t]) => g[s] = h[s]
    BY <1>1 DEF Shortens
  <2> HIDE DEF Upto
  <2> QED BY <2>1, AgreeBelow
<1>2. \A n \in Nat : \E g \in [S -> T] : Upto(n, g)
  <2> DEFINE B == {n \in Nat : ~ \E g \in [S -> T] : Upto(n, g)}
  <2>1. CASE B = {}
    BY <2>1
  <2>2. CASE B # {}
    <3>1. PICK n \in B : \A k \in B : n <= k
      BY <2>2, Least
    <3>2. n \in Nat /\ ~ \E g \in [S -> T] : Upto(n, g)
      OBVIOUS
    <3>3. n # 0
      <4>1. [s \in S |-> some] \in [S -> T] /\ Upto(0, [s \in S |-> some])
        OBVIOUS
      <4> QED BY <4>1, <3>2
    <3>4. n - 1 \in Nat /\ n - 1 \notin B
      <4> HIDE DEF B
      <4> QED BY <3>1, <3>2, <3>3
    <3>5. PICK g \in [S -> T] : Upto(n - 1, g)
      BY <3>4
    <3>6. D[g] \in [S -> T]
      BY <1>0
    <3>7. ASSUME NEW s \in S, Len(s) < n PROVE D[g][s] = D[D[g]][s]
      <4>1. \A t \in S : Len(t) < Len(s) => g[t] = D[g][t]
        BY <3>5, <3>7, <3>2
      <4> QED BY <4>1, <3>6 DEF Shortens
    <3> QED BY <3>6, <3>7, <3>2
  <2> QED BY <2>1, <2>2
<1> DEFINE best(n) == CHOOSE g \in [S -> T] : Upto(n, g)
           f == [s \in S |-> best(Len(s) + 1)[s]]
<1>3. \A n \in Nat : best(n) \in [S -> T] /\ Upto(n, best(n))
  BY <1>2
<1>4. f \in [S -> T] /\ \A s \in S : f[s] = best(Len(s) + 1)[s]
  <2> HIDE DEF best
  <2>1. \A s \in S : best(Len(s) + 1)[s] \in T
    BY <1>3
  <2> QED BY <2>1
<1> HIDE DEF best, f
<1>5. ASSUME NEW s \in S PROVE f[s] = D[f][s]
  <2>1. ASSUME NEW t \in S, Len(t) < Len(s) PROVE f[t] = best(Len(s) + 1)[t]
    <3> DEFINE g == best(Len(s) + 1)
               h == best(Len(t) + 1)
               n == Len(t) + 1
    <3>1. n \in Nat /\ Len(t) < n /\ n < Len(s) + 1 /\ Len(s) + 1 \in Nat
      BY <2>1
    <3>2. g \in [S -> T] /\ Upto(Len(s) + 1, g)
      BY <1>3, <3>1
    <3>3. h \in [S -> T] /\ Upto(n, h)
      BY <1>3, <3>1
    <3>4. Upto(n, g)
      <4> HIDE DEF g, n
      <4> QED BY <3>1, <3>2
    <3>5. f[t] = h[t]
      BY <1>4
    <3> HIDE DEF Upto, g, h, n
    <3>6. h[t] = g[t]
      BY <1>1, <3>1, <3>2, <3>3, <3>4
    <3> QED BY <3>5, <3>6 DEF g
  <2>2. best(Len(s) + 1) \in [S -> T] /\ Upto(Len(s) + 1, best(Len(s) + 1))
    BY <1>3
  <2>3. f[s] = D[best(Len(s) + 1)][s]
    BY <2>2, <1>4
  <2> QED BY <2>1, <2>2, <2>3, <1>4 DEF Shortens
<1>6. D[f] \in [S -> T]
  BY <1>0, <1>4
<1> QED BY <1>4, <1>5, <1>6

(* The first element of a sequence and the rest.                           *)
LEMMA FirstAndRest ==
  ASSUME NEW A, NEW x \in A, NEW t \in Seq(A)
  PROVE  LET s == <<x>> \o t IN
         s \in Seq(A) /\ s # << >> /\ s[1] = x /\ Tail(s) = t
<1> DEFINE u == <<x>>
           s == u \o t
<1>1. u \in Seq(A) /\ Len(u) = 1 /\ u[1] = x
  OBVIOUS
<1> HIDE DEF u
<1>2. /\ s \in Seq(A) /\ Len(s) = 1 + Len(t)
      /\ \A i \in 1 .. 1 + Len(t) : s[i] = IF i <= 1 THEN u[i] ELSE t[i - 1]
  <2>1. /\ u \o t \in Seq(A) /\ Len(u \o t) = Len(u) + Len(t)
        /\ \A i \in 1 .. Len(u) + Len(t) : (u \o t)[i] = IF i <= Len(u) THEN u[i] ELSE t[i - Len(u)]
    BY <1>1, ConcatProperties
  <2> HIDE DEF s
  <2> QED BY <1>1, <2>1 DEF s
<1>3. Len(t) \in Nat
  OBVIOUS
<1> HIDE DEF s
<1>4. s # << >> /\ s[1] = x
  BY <1>1, <1>2, <1>3
<1>5. Tail(s) \in Seq(A) /\ Len(Tail(s)) = Len(t) /\ \A i \in 1 .. Len(t) : Tail(s)[i] = s[i + 1]
  BY <1>2, <1>3, <1>4
<1>6. \A i \in 1 .. Len(t) : Tail(s)[i] = t[i]
  BY <1>2, <1>3, <1>5
<1>7. Tail(s) = t
  BY <1>5, <1>6, SeqEqual
<1> QED BY <1>2, <1>4, <1>7 DEF s, u

(* Two elements put in front are put in front one after the other.         *)
LEMMA FirstTwoAndRest ==
  ASSUME NEW A, NEW x \in A, NEW y \in A, NEW t \in Seq(A)
  PROVE  <<x, y>> \o t = <<x>> \o (<<y>> \o t)
<1> DEFINE u == <<x>>
           v == <<y>>
           w == <<x, y>>
<1>1. /\ u \in Seq(A) /\ Len(u) = 1 /\ u[1] = x
      /\ v \in Seq(A) /\ Len(v) = 1 /\ v[1] = y
      /\ w \in Seq(A) /\ Len(w) = 2 /\ w[1] = x /\ w[2] = y
  OBVIOUS
<1> HIDE DEF u, v, w
<1>2. u \o v \in Seq(A) /\ Len(u \o v) = 2 /\ (u \o v)[1] = x /\ (u \o v)[2] = y
  <2>1. /\ u \o v \in Seq(A) /\ Len(u \o v) = Len(u) + Len(v)
        /\ \A i \in 1 .. Len(u) + Len(v) : (u \o v)[i] = IF i <= Len(u) THEN u[i] ELSE v[i - Len(u)]
    BY <1>1, ConcatProperties
  <2> DEFINE c == u \o v
  <2> HIDE DEF c
  <2>2. c \in Seq(A) /\ Len(c) = 2 /\ c[1] = u[1] /\ c[2] = v[1]
    BY <1>1, <2>1 DEF c
  <2> QED BY <1>1, <2>2 DEF c
<1>3. w = u \o v
  BY <1>1, <1>2, SeqEqual
<1>4. (u \o v) \o t = u \o (v \o t)
  <2>1. u \in Seq(A) /\ v \in Seq(A)
    BY <1>1
  <2> QED BY <2>1, ConcatAssociative, SMTT(60)
<1> QED BY <1>3, <1>4 DEF u, v, w

(* The least element of a set of naturals is one of its elements.          *)
LEMMA MinIs ==
  ASSUME NEW T, T \subseteq Nat, T # {}
  PROVE  Min(T) \in T /\ \A n \in T : Min(T) <= n
BY Least DEF Min

(* And so is the greatest, of a bounded set.                               *)
LEMMA MaxIs ==
  ASSUME NEW T, NEW k \in Nat, T \subseteq 0 .. k, T # {}
  PROVE  Max(T) \in T /\ \A n \in T : n <= Max(T)
<1> DEFINE R == {k - n : n \in T}
<1>1. R \subseteq Nat /\ R # {}
  OBVIOUS
<1>2. PICK m \in R : \A n \in R : m <= n
  BY <1>1, Least
<1>3. PICK x \in T : m = k - x
  OBVIOUS
<1>4. \A n \in T : n \in Nat /\ k - x <= k - n
  BY <1>2, <1>3
<1>5. x \in Nat /\ \A n \in T : n <= x
  BY <1>3, <1>4
<1>6. \A n \in T : x >= n
  BY <1>3, <1>4
<1>7. Max(T) \in T /\ \A n \in T : Max(T) >= n
  BY <1>3, <1>6 DEF Max
<1> QED BY <1>7, <1>4

(* Where the first e is. *)
LEMMA IndexIs ==
  ASSUME NEW A, NEW s \in Seq(A), NEW e
  PROVE  /\ IndexOf(e, s) \in 0 .. Len(s)
         /\ IndexOf(e, s) = 0 => \A i \in 1 .. Len(s) : s[i] # e
         /\ IndexOf(e, s) # 0 => s[IndexOf(e, s)] = e /\ \A i \in 1 .. IndexOf(e, s) - 1 : s[i] # e
<1> DEFINE I == {i \in 1 .. Len(s) : s[i] = e}
<1>1. IndexOf(e, s) = IF I # {} THEN Min(I) ELSE 0
  BY DEF IndexOf, SelectInSeq
<1>2. CASE I = {}
  BY <1>1, <1>2
<1>3. CASE I # {}
  <2>1. I \subseteq Nat
    OBVIOUS
  <2>2. Min(I) \in I /\ \A n \in I : Min(I) <= n
    BY <1>3, <2>1, MinIs
  <2> DEFINE m == Min(I)
  <2> HIDE DEF m
  <2>3. m \in 1 .. Len(s) /\ s[m] = e /\ \A i \in 1 .. Len(s) : s[i] = e => m <= i
    BY <2>2 DEF m
  <2>4. Len(s) \in Nat
    OBVIOUS
  <2>5. \A i \in 1 .. m - 1 : i \in 1 .. Len(s) /\ ~(m <= i)
    BY <2>3, <2>4
  <2>6. IndexOf(e, s) = m
    BY <1>1, <1>3 DEF m
  <2> HIDE DEF I
  <2> QED BY <2>3, <2>4, <2>5, <2>6
<1> QED BY <1>2, <1>3

(* A sequence cut in two after m elements.                                 *)
LEMMA Halves ==
  ASSUME NEW A, NEW s \in Seq(A), NEW m \in 0 .. Len(s)
  PROVE  /\ SubSeq(s, 1, m) \in Seq(A) /\ Len(SubSeq(s, 1, m)) = m
         /\ SubSeq(s, m + 1, Len(s)) \in Seq(A) /\ Len(SubSeq(s, m + 1, Len(s))) = Len(s) - m
         /\ \A i \in 1 .. m : SubSeq(s, 1, m)[i] = s[i]
         /\ \A i \in 1 .. Len(s) - m : SubSeq(s, m + 1, Len(s))[i] = s[m + i]
         /\ s = SubSeq(s, 1, m) \o SubSeq(s, m + 1, Len(s))
<1>1. Len(s) \in Nat /\ m \in Int /\ Len(s) \in Int /\ \A i \in 1 .. Len(s) : s[i] \in A
  BY LenProperties, ElementOfSeq
<1>2. /\ SubSeq(s, 1, m) \in Seq(A) /\ Len(SubSeq(s, 1, m)) = IF 1 <= m THEN m - 1 + 1 ELSE 0
      /\ \A i \in 1 .. m - 1 + 1 : SubSeq(s, 1, m)[i] = s[1 + i - 1]
  BY <1>1, SubSeqProperties
<1>3. /\ SubSeq(s, m + 1, Len(s)) \in Seq(A)
      /\ Len(SubSeq(s, m + 1, Len(s))) = IF m + 1 <= Len(s) THEN Len(s) - (m + 1) + 1 ELSE 0
      /\ \A i \in 1 .. Len(s) - (m + 1) + 1 : SubSeq(s, m + 1, Len(s))[i] = s[m + 1 + i - 1]
  <2>1. m + 1 \in Int /\ \A i \in m + 1 .. Len(s) : s[i] \in A
    BY <1>1
  <2> DEFINE k == m + 1
  <2> HIDE DEF k
  <2>2. k \in Int /\ Len(s) \in Int /\ \A i \in k .. Len(s) : s[i] \in A
    BY <1>1, <2>1 DEF k
  <2> QED BY <2>2, SubSeqProperties DEF k
<1>4. SubSeq(s, 1, m) \o SubSeq(s, m + 1, Len(s)) = SubSeq(s, 1, Len(s))
  <2>1. 1 \in 1 .. Len(s) + 1 /\ m \in 1 - 1 .. Len(s) /\ Len(s) \in m .. Len(s)
    BY <1>1
  <2> QED BY <2>1, ConcatAdjacentSubSeq
<1>5. SubSeq(s, 1, Len(s)) = s
  BY SubSeqFull
<1>6. s = SubSeq(s, 1, m) \o SubSeq(s, m + 1, Len(s))
  BY <1>4, <1>5, Zenon
<1>7. Len(SubSeq(s, 1, m)) = m /\ \A i \in 1 .. m : SubSeq(s, 1, m)[i] = s[i]
  BY <1>1, <1>2
<1>8. /\ Len(SubSeq(s, m + 1, Len(s))) = Len(s) - m
      /\ \A i \in 1 .. Len(s) - m : SubSeq(s, m + 1, Len(s))[i] = s[m + i]
  BY <1>1, <1>3
<1> QED BY <1>2, <1>3, <1>6, <1>7, <1>8

-----------------------------------------------------------------------------
(* The rewriting and the parsing of the command line. *)

LEMMA WordsAheadType ==
  ASSUME NEW args \in Seq(Arguments)
  PROVE  /\ WordsAhead(args) \in 0 .. Len(args)
         /\ \A i \in 1 .. WordsAhead(args) : args[i] \in Words
<1> DEFINE flags == {i \in DOMAIN args : ~IsWord(args[i])}
<1>1. \A a \in Arguments : IsWord(a) => a \in Words
  BY DEF Arguments, IsWord
<1>2. CASE flags = {}
  <2>1. WordsAhead(args) = Len(args)
    BY <1>2 DEF WordsAhead
  <2> QED BY <1>1, <1>2, <2>1
<1>3. CASE flags # {}
  <2>1. flags \subseteq Nat
    OBVIOUS
  <2>2. \E m \in flags : \A n \in flags : m <= n
    BY <1>3, <2>1, Least
  <2>3. Min(flags) \in flags /\ \A n \in flags : Min(flags) <= n
    <3> HIDE DEF flags
    <3> QED BY <2>2 DEF Min
  <2>4. WordsAhead(args) = Min(flags) - 1
    BY <1>3 DEF WordsAhead
  <2>5. ASSUME NEW i \in 1 .. WordsAhead(args) PROVE args[i] \in Words
    <3>1. Min(flags) \in 1 .. Len(args)
      BY <2>3
    <3>2. i \in 1 .. Len(args) /\ ~(Min(flags) <= i)
      BY <2>4, <3>1
    <3>3. i \in DOMAIN args /\ i \notin flags
      BY <2>3, <3>2
    <3> QED BY <3>3, <1>1
  <2> QED BY <2>3, <2>4, <2>5
<1> QED BY <1>2, <1>3

(* What the code goes on with after an argument is shorter, and the words  *)
(* it joins are a value.                                                   *)
LEMMA Shorter ==
  ASSUME NEW args \in Seq(Arguments), args # << >>
  PROVE  LET rest == Tail(args)
             n == WordsAhead(rest) IN
         /\ args[1] \in Arguments
         /\ rest \in Seq(Arguments) /\ Len(rest) < Len(args)
         /\ n \in 0 .. Len(rest)
         /\ SubSeq(rest, 1, n) \in Seq(Words)
         /\ SubSeq(rest, n + 1, Len(rest)) \in Seq(Arguments)
         /\ Len(SubSeq(rest, n + 1, Len(rest))) < Len(args)
         /\ rest # << >> => rest[1] \in Arguments /\ Tail(rest) \in Seq(Arguments) /\ Len(Tail(rest)) < Len(args)
<1> DEFINE rest == Tail(args)
           n == WordsAhead(rest)
<1>1. args[1] \in Arguments /\ rest \in Seq(Arguments) /\ Len(rest) = Len(args) - 1 /\ Len(args) \in Nat
  OBVIOUS
<1>2. n \in 0 .. Len(rest) /\ \A i \in 1 .. n : rest[i] \in Words
  BY <1>1, WordsAheadType
<1>3. rest # << >> => rest[1] \in Arguments /\ Tail(rest) \in Seq(Arguments) /\ Len(Tail(rest)) = Len(rest) - 1
  BY <1>1
<1> HIDE DEF rest, n
<1>4. SubSeq(rest, 1, n) \in Seq(Words)
  BY <1>1, <1>2, SubSeqProperties
<1>5. SubSeq(rest, n + 1, Len(rest)) \in Seq(Arguments)
      /\ Len(SubSeq(rest, n + 1, Len(rest))) <= Len(rest)
  BY <1>1, <1>2, SubSeqProperties
<1> QED BY <1>1, <1>2, <1>3, <1>4, <1>5 DEF rest, n

(* What they are joined into is an argument.                               *)
LEMMA JoinedType ==
  ASSUME NEW v \in Seq(Words)
  PROVE  FlagIs(2, "throughput-only", v) \in Arguments
<1>1. 2 \in 1 .. 2
  OBVIOUS
<1>2. "throughput-only" \in Texts
  BY CommandAssumption DEF TakesValue
<1> QED BY <1>1, <1>2, Zenon DEF FlagIs, Arguments

(* expandThroughputOnlyList computes what its definition says, on every    *)
(* list.                                                                   *)
LEMMA ExpandDef ==
  /\ Expand \in [Seq(Arguments) -> Seq(Arguments)]
  /\ Expand = [args \in Seq(Arguments) |->
       IF args = << >> THEN << >>
       ELSE LET rest == Tail(args)
                n == WordsAhead(rest) IN
       IF BareOnly(args[1])
       THEN <<FlagIs(2, "throughput-only", SubSeq(rest, 1, n))>> \o Expand[SubSeq(rest, n + 1, Len(rest))]
       ELSE <<args[1]>> \o Expand[rest]]
<1> DEFINE S == Seq(Arguments)
           body(f, args) ==
             IF args = << >> THEN << >>
             ELSE LET rest == Tail(args)
                      n == WordsAhead(rest) IN
             IF BareOnly(args[1])
             THEN <<FlagIs(2, "throughput-only", SubSeq(rest, 1, n))>> \o f[SubSeq(rest, n + 1, Len(rest))]
             ELSE <<args[1]>> \o f[rest]
           T == Seq(Arguments)
           D == [f \in [S -> T] |-> [args \in S |-> body(f, args)]]
<1>1. \A f \in [S -> T], args \in S : body(f, args) \in T
  <2> SUFFICES ASSUME NEW f \in [S -> S], NEW args \in S PROVE body(f, args) \in S
    OBVIOUS
  <2>1. CASE args = << >>
    BY <2>1
  <2>2. CASE args # << >>
    <3> DEFINE rest == Tail(args)
               n == WordsAhead(rest)
               value == SubSeq(rest, 1, n)
               after == SubSeq(rest, n + 1, Len(rest))
    <3>1. args[1] \in Arguments /\ rest \in S /\ value \in Seq(Words) /\ after \in S
      BY <2>2, Shorter
    <3> HIDE DEF value, after, rest, n
    <3>2. FlagIs(2, "throughput-only", value) \in Arguments
      BY <3>1, JoinedType
    <3>3. <<FlagIs(2, "throughput-only", value)>> \o f[after] \in S
      BY <3>1, <3>2
    <3>4. <<args[1]>> \o f[rest] \in S
      BY <3>1
    <3> QED BY <2>2, <3>3, <3>4 DEF value, after, rest, n
  <2> QED BY <2>1, <2>2
<1>2. D \in [[S -> T] -> [S -> T]] /\ \A f \in [S -> T] : D[f] = [args \in S |-> body(f, args)]
  <2> HIDE DEF body, S, T
  <2> QED BY <1>1
<1>3. ASSUME NEW args \in S, NEW g, NEW h, \A t \in S : Len(t) < Len(args) => g[t] = h[t]
      PROVE  body(g, args) = body(h, args)
  <2>1. CASE args = << >>
    BY <2>1
  <2>2. CASE args # << >>
    <3> DEFINE rest == Tail(args)
               n == WordsAhead(rest)
               after == SubSeq(rest, n + 1, Len(rest))
    <3>1. rest \in S /\ after \in S /\ Len(rest) < Len(args) /\ Len(after) < Len(args)
      BY <2>2, Shorter
    <3>2. g[rest] = h[rest] /\ g[after] = h[after]
      <4> HIDE DEF rest, after, S
      <4> QED BY <3>1, <1>3
    <3> QED BY <2>2, <3>2
  <2> QED BY <2>1, <2>2
<1>4. PICK f \in [S -> T] : f = [args \in S |-> body(f, args)]
  <2>1. Shortens(Arguments, T, D)
    <3>1. ASSUME NEW args \in S, NEW g \in [S -> T], NEW h \in [S -> T],
                 \A t \in S : Len(t) < Len(args) => g[t] = h[t]
          PROVE  D[g][args] = D[h][args]
      <4> HIDE DEF body, D, S, T
      <4>1. body(g, args) = body(h, args)
        BY <1>3, <3>1
      <4>2. D[g] = [a \in S |-> body(g, a)] /\ D[h] = [a \in S |-> body(h, a)]
        BY <1>2
      <4> QED BY <4>1, <4>2
    <3> HIDE DEF body, D, T
    <3> QED BY <1>2, <3>1 DEF Shortens
  <2>2. T # {}
    BY EmptySeq
  <2> HIDE DEF D, body, T
  <2>3. PICK f \in [S -> T] : f = D[f]
    BY <2>1, <2>2, Recursion
  <2> QED BY <2>3, <1>2
<1>5. Expand = [args \in Seq(Arguments) |-> body(Expand, args)]
  BY <1>4 DEF Expand
<1>6. \A args \in S : f[args] = Expand[args]
  <2>1. ASSUME NEW args \in S, \A t \in S : Len(t) < Len(args) => f[t] = Expand[t]
        PROVE  f[args] = Expand[args]
    <3>1. f[args] = body(f, args) /\ Expand[args] = body(Expand, args)
      <4> HIDE DEF body
      <4> QED BY <1>4, <1>5
    <3>2. body(f, args) = body(Expand, args)
      <4> HIDE DEF body, S
      <4> QED BY <1>3, <2>1
    <3> HIDE DEF body
    <3> QED BY <3>1, <3>2
  <2> HIDE DEF body, D
  <2>2. AgreeStepwise(Arguments, f, Expand)
    BY <2>1 DEF AgreeStepwise
  <2> QED BY <2>2, SameFunction
<1>7. Expand \in [S -> T]
  <2> HIDE DEF body
  <2> QED BY <1>4, <1>5, <1>6
<1> QED BY <1>5, <1>7

(* A second dash makes an argument of an argument.                         *)
LEMMA TwoDashesType ==
  ASSUME NEW a \in Arguments
  PROVE  TwoDashes(a) \in Arguments
<1>1. CASE TwoDashes(a) = a
  BY <1>1
<1>2. CASE TwoDashes(a) # a
  <2>1. a.dash = 1 /\ TwoDashes(a) = [a EXCEPT !.dash = 2]
    BY <1>2 DEF TwoDashes
  <2>2. a \in Words => a.dash = 0
    BY DEF Words
  <2>4. a \in [dash : 1 .. 2, name : Texts, eq : BOOLEAN, value : Seq(Words)]
    BY <2>1, <2>2 DEF Arguments
  <2>3. 2 \in 1 .. 2
    OBVIOUS
  <2> QED BY <2>1, <2>3, <2>4 DEF Arguments
<1> QED BY <1>1, <1>2

(* The same of normalizeSingleDash.                                        *)
LEMMA NormalizeSingleDashDef ==
  /\ NormalizeSingleDash \in [Seq(Arguments) -> Seq(Arguments)]
  /\ NormalizeSingleDash = [args \in Seq(Arguments) |->
       IF args = << >> THEN << >>
       ELSE LET rest == Tail(args) IN
       IF ConsumesNext(args[1]) /\ rest # << >>
       THEN <<TwoDashes(args[1]), rest[1]>> \o NormalizeSingleDash[Tail(rest)]
       ELSE <<TwoDashes(args[1])>> \o NormalizeSingleDash[rest]]
<1> DEFINE S == Seq(Arguments)
           body(f, args) ==
             IF args = << >> THEN << >>
             ELSE LET rest == Tail(args) IN
             IF ConsumesNext(args[1]) /\ rest # << >>
             THEN <<TwoDashes(args[1]), rest[1]>> \o f[Tail(rest)]
             ELSE <<TwoDashes(args[1])>> \o f[rest]
           T == Seq(Arguments)
           D == [f \in [S -> T] |-> [args \in S |-> body(f, args)]]
<1>1. \A f \in [S -> T], args \in S : body(f, args) \in T
  <2> SUFFICES ASSUME NEW f \in [S -> S], NEW args \in S PROVE body(f, args) \in S
    OBVIOUS
  <2>1. CASE args = << >>
    BY <2>1
  <2>2. CASE args # << >>
    <3> DEFINE rest == Tail(args)
    <3>1. TwoDashes(args[1]) \in Arguments /\ rest \in S
          /\ (rest # << >> => rest[1] \in Arguments /\ Tail(rest) \in S)
      BY <2>2, Shorter, TwoDashesType
    <3> HIDE DEF rest
    <3>2. ASSUME rest # << >> PROVE <<TwoDashes(args[1]), rest[1]>> \o f[Tail(rest)] \in S
      <4> DEFINE x == TwoDashes(args[1])
                 y == rest[1]
      <4>1. f[Tail(rest)] \in S /\ x \in Arguments /\ y \in Arguments
        BY <3>1, <3>2
      <4> HIDE DEF x, y, body
      <4>2. <<x, y>> \in S
        BY <4>1
      <4>3. <<x, y>> \o f[Tail(rest)] \in S
        BY <4>1, <4>2, ConcatProperties
      <4> QED BY <4>3 DEF x, y
    <3>3. <<TwoDashes(args[1])>> \o f[rest] \in S
      BY <3>1
    <3> QED BY <2>2, <3>2, <3>3 DEF rest
  <2> QED BY <2>1, <2>2
<1>2. D \in [[S -> T] -> [S -> T]] /\ \A f \in [S -> T] : D[f] = [args \in S |-> body(f, args)]
  <2> HIDE DEF body, S, T
  <2> QED BY <1>1
<1>3. ASSUME NEW args \in S, NEW g, NEW h, \A t \in S : Len(t) < Len(args) => g[t] = h[t]
      PROVE  body(g, args) = body(h, args)
  <2>1. CASE args = << >>
    BY <2>1
  <2>2. CASE args # << >>
    <3>1. Tail(args) \in S /\ Len(Tail(args)) < Len(args)
          /\ (Tail(args) # << >> => Tail(Tail(args)) \in S /\ Len(Tail(Tail(args))) < Len(args))
      BY <2>2, Shorter
    <3>2. g[Tail(args)] = h[Tail(args)] /\ (Tail(args) # << >> => g[Tail(Tail(args))] = h[Tail(Tail(args))])
      <4> HIDE DEF S
      <4> QED BY <3>1, <1>3
    <3> QED BY <2>2, <3>2
  <2> QED BY <2>1, <2>2
<1>4. PICK f \in [S -> T] : f = [args \in S |-> body(f, args)]
  <2>1. Shortens(Arguments, T, D)
    <3>1. ASSUME NEW args \in S, NEW g \in [S -> T], NEW h \in [S -> T],
                 \A t \in S : Len(t) < Len(args) => g[t] = h[t]
          PROVE  D[g][args] = D[h][args]
      <4> HIDE DEF body, D, S, T
      <4>1. body(g, args) = body(h, args)
        BY <1>3, <3>1
      <4>2. D[g] = [a \in S |-> body(g, a)] /\ D[h] = [a \in S |-> body(h, a)]
        BY <1>2
      <4> QED BY <4>1, <4>2
    <3> HIDE DEF body, D, T
    <3> QED BY <1>2, <3>1 DEF Shortens
  <2>2. T # {}
    BY EmptySeq
  <2> HIDE DEF D, body, T
  <2>3. PICK f \in [S -> T] : f = D[f]
    BY <2>1, <2>2, Recursion
  <2> QED BY <2>3, <1>2
<1>5. NormalizeSingleDash = [args \in Seq(Arguments) |-> body(NormalizeSingleDash, args)]
  BY <1>4 DEF NormalizeSingleDash
<1>6. \A args \in S : f[args] = NormalizeSingleDash[args]
  <2>1. ASSUME NEW args \in S, \A t \in S : Len(t) < Len(args) => f[t] = NormalizeSingleDash[t]
        PROVE  f[args] = NormalizeSingleDash[args]
    <3>1. f[args] = body(f, args) /\ NormalizeSingleDash[args] = body(NormalizeSingleDash, args)
      <4> HIDE DEF body
      <4> QED BY <1>4, <1>5
    <3>2. body(f, args) = body(NormalizeSingleDash, args)
      <4> HIDE DEF body, S
      <4> QED BY <1>3, <2>1
    <3> HIDE DEF body
    <3> QED BY <3>1, <3>2
  <2> HIDE DEF body, D
  <2>2. AgreeStepwise(Arguments, f, NormalizeSingleDash)
    BY <2>1 DEF AgreeStepwise
  <2> QED BY <2>2, SameFunction
<1>7. NormalizeSingleDash \in [S -> T]
  <2> HIDE DEF body
  <2> QED BY <1>4, <1>5, <1>6
<1> QED BY <1>5, <1>7

(* Set of a flag leaves options, whatever is given to a boolean.           *)
LEMMA SetFlagType ==
  ASSUME NEW o \in Options, NEW name \in DOMAIN TakesValue, NEW v,
         name = "blind" \/ v \in Seq(Arguments)
  PROVE  SetFlag(o, name, v) \in Options
<1>1. name \in {"blind", "password", "throughput", "throughput-only"}
  BY DEF TakesValue
<1>2. CASE name = "blind"
  BY <1>2 DEF SetFlag, SetBlind, Err, Options
<1>3. CASE name = "password"
  BY <1>3 DEF SetFlag, Options
<1>4. CASE name = "throughput"
  BY <1>4 DEF SetFlag, Options
<1>5. CASE name = "throughput-only"
  BY <1>5 DEF SetFlag, SetOnly, Options
<1> QED BY <1>1, <1>2, <1>3, <1>4, <1>5

(* So does a failed parse.                                                 *)
LEMMA ErrType == \A o \in Options : Err(o) \in Options /\ Err(o).err
BY DEF Err, Options

(* The value after a "=" is a list of arguments.                           *)
LEMMA ValueType ==
  ASSUME NEW a \in Arguments
  PROVE  a.value \in Seq(Arguments)
<1>1. a.value \in Seq(Words)
  BY EmptySeq DEF Arguments, Words
<1>2. Words \subseteq Arguments
  BY DEF Arguments
<1> QED BY <1>1, <1>2, SeqMonotonic

(* The same of pflag's parser.                                             *)
LEMMA ParseDef ==
  /\ Parse \in [Seq(Arguments) -> [Options -> Options]]
  /\ Parse = [args \in Seq(Arguments) |->
       [o \in Options |->
          IF args = << >> \/ o.err THEN o
          ELSE LET a == args[1]
                   rest == Tail(args) IN
          IF IsWord(a) THEN Parse[rest][o]
          ELSE IF a.dash = 1 \/ a.name \notin DOMAIN TakesValue THEN Err(o)
          ELSE IF a.eq THEN Parse[rest][SetFlag(o, a.name, a.value)]
          ELSE IF ~TakesValue[a.name] THEN Parse[rest][SetFlag(o, a.name, True)]
          ELSE IF rest = << >> THEN Err(o)
          ELSE Parse[Tail(rest)][SetFlag(o, a.name, <<rest[1]>>)]]]
<1> DEFINE S == Seq(Arguments)
           body(f, args) ==
             [o \in Options |->
                IF args = << >> \/ o.err THEN o
                ELSE LET a == args[1]
                         rest == Tail(args) IN
                IF IsWord(a) THEN f[rest][o]
                ELSE IF a.dash = 1 \/ a.name \notin DOMAIN TakesValue THEN Err(o)
                ELSE IF a.eq THEN f[rest][SetFlag(o, a.name, a.value)]
                ELSE IF ~TakesValue[a.name] THEN f[rest][SetFlag(o, a.name, True)]
                ELSE IF rest = << >> THEN Err(o)
                ELSE f[Tail(rest)][SetFlag(o, a.name, <<rest[1]>>)]]
           T == [Options -> Options]
           D == [f \in [S -> T] |-> [args \in S |-> body(f, args)]]
<1>1. \A f \in [S -> T], args \in S : body(f, args) \in T
  <2> SUFFICES ASSUME NEW f \in [S -> [Options -> Options]], NEW args \in S, NEW o \in Options
               PROVE  body(f, args)[o] \in Options
    OBVIOUS
  <2>1. CASE args = << >> \/ o.err
    BY <2>1
  <2>2. CASE args # << >> /\ ~o.err
    <3> DEFINE a == args[1]
               rest == Tail(args)
    <3>1. a \in Arguments /\ rest \in S /\ (rest # << >> => <<rest[1]>> \in S /\ Tail(rest) \in S)
      BY <2>2, Shorter
    <3>2. a.value \in S
      BY <3>1, ValueType
    <3>3. Err(o) \in Options
      BY ErrType
    <3> HIDE DEF a, rest
    <3>4. a.name \in DOMAIN TakesValue =>
            /\ SetFlag(o, a.name, a.value) \in Options
            /\ ~TakesValue[a.name] => SetFlag(o, a.name, True) \in Options
            /\ rest # << >> => SetFlag(o, a.name, <<rest[1]>>) \in Options
      BY <3>1, <3>2, SetFlagType DEF TakesValue
    <3> QED BY <2>2, <3>1, <3>3, <3>4 DEF a, rest
  <2> QED BY <2>1, <2>2
<1>2. D \in [[S -> T] -> [S -> T]] /\ \A f \in [S -> T] : D[f] = [args \in S |-> body(f, args)]
  <2> HIDE DEF body, S, T
  <2> QED BY <1>1
<1>3. ASSUME NEW args \in S, NEW g, NEW h, \A t \in S : Len(t) < Len(args) => g[t] = h[t]
      PROVE  body(g, args) = body(h, args)
  <2>1. CASE args = << >>
    BY <2>1
  <2>2. CASE args # << >>
    <3>1. Tail(args) \in S /\ Len(Tail(args)) < Len(args)
          /\ (Tail(args) # << >> => Tail(Tail(args)) \in S /\ Len(Tail(Tail(args))) < Len(args))
      BY <2>2, Shorter
    <3>2. g[Tail(args)] = h[Tail(args)] /\ (Tail(args) # << >> => g[Tail(Tail(args))] = h[Tail(Tail(args))])
      <4> HIDE DEF S
      <4> QED BY <3>1, <1>3
    <3> QED BY <2>2, <3>2
  <2> QED BY <2>1, <2>2
<1>4. PICK f \in [S -> T] : f = [args \in S |-> body(f, args)]
  <2>1. Shortens(Arguments, T, D)
    <3>1. ASSUME NEW args \in S, NEW g \in [S -> T], NEW h \in [S -> T],
                 \A t \in S : Len(t) < Len(args) => g[t] = h[t]
          PROVE  D[g][args] = D[h][args]
      <4> HIDE DEF body, D, S, T
      <4>1. body(g, args) = body(h, args)
        BY <1>3, <3>1
      <4>2. D[g] = [a \in S |-> body(g, a)] /\ D[h] = [a \in S |-> body(h, a)]
        BY <1>2
      <4> QED BY <4>1, <4>2
    <3> HIDE DEF body, D, T
    <3> QED BY <1>2, <3>1 DEF Shortens
  <2>2. T # {}
    <3>1. [o \in Options |-> o] \in T
      OBVIOUS
    <3> QED BY <3>1
  <2> HIDE DEF D, body, T
  <2>3. PICK f \in [S -> T] : f = D[f]
    BY <2>1, <2>2, Recursion
  <2> QED BY <2>3, <1>2
<1>5. Parse = [args \in Seq(Arguments) |-> body(Parse, args)]
  BY <1>4 DEF Parse
<1>6. \A args \in S : f[args] = Parse[args]
  <2>1. ASSUME NEW args \in S, \A t \in S : Len(t) < Len(args) => f[t] = Parse[t]
        PROVE  f[args] = Parse[args]
    <3>1. f[args] = body(f, args) /\ Parse[args] = body(Parse, args)
      <4> HIDE DEF body
      <4> QED BY <1>4, <1>5
    <3>2. body(f, args) = body(Parse, args)
      <4> HIDE DEF body, S
      <4> QED BY <1>3, <2>1
    <3> HIDE DEF body
    <3> QED BY <3>1, <3>2
  <2> HIDE DEF body, D
  <2>2. AgreeStepwise(Arguments, f, Parse)
    BY <2>1 DEF AgreeStepwise
  <2> QED BY <2>2, SameFunction
<1>7. Parse \in [S -> T]
  <2> HIDE DEF body
  <2> QED BY <1>4, <1>5, <1>6
<1> QED BY <1>5, <1>7

(* And of what the documentation says the arguments mean.                  *)
LEMMA MeaningDef ==
  /\ Meaning \in [Seq(Arguments) -> [Options -> SUBSET Options]]
  /\ Meaning = [args \in Seq(Arguments) |->
       [o \in Options |->
          IF args = << >> \/ o.err THEN {o}
          ELSE LET a == args[1]
                   rest == Tail(args)
                   n == WordsAhead(rest)
                   refused == {x \in Options : x.err} IN
          IF IsWord(a) THEN Meaning[rest][o]
          ELSE IF a.name \notin DOMAIN TakesValue THEN refused
          ELSE IF a.eq THEN Meaning[rest][SetFlag(o, a.name, a.value)]
          ELSE IF a.name = "throughput-only"
          THEN Meaning[SubSeq(rest, n + 1, Len(rest))][SetFlag(o, a.name, SubSeq(rest, 1, n))]
          ELSE IF a.name = "blind" THEN Meaning[rest][SetFlag(o, a.name, True)]
          ELSE IF rest = << >> THEN refused
          ELSE IF BareOnly(rest[1]) THEN Options
          ELSE Meaning[Tail(rest)][SetFlag(o, a.name, <<rest[1]>>)]]]
<1> DEFINE S == Seq(Arguments)
           body(f, args) ==
             [o \in Options |->
                IF args = << >> \/ o.err THEN {o}
                ELSE LET a == args[1]
                         rest == Tail(args)
                         n == WordsAhead(rest)
                         refused == {x \in Options : x.err} IN
                IF IsWord(a) THEN f[rest][o]
                ELSE IF a.name \notin DOMAIN TakesValue THEN refused
                ELSE IF a.eq THEN f[rest][SetFlag(o, a.name, a.value)]
                ELSE IF a.name = "throughput-only"
                THEN f[SubSeq(rest, n + 1, Len(rest))][SetFlag(o, a.name, SubSeq(rest, 1, n))]
                ELSE IF a.name = "blind" THEN f[rest][SetFlag(o, a.name, True)]
                ELSE IF rest = << >> THEN refused
                ELSE IF BareOnly(rest[1]) THEN Options
                ELSE f[Tail(rest)][SetFlag(o, a.name, <<rest[1]>>)]]
           T == [Options -> SUBSET Options]
           D == [f \in [S -> T] |-> [args \in S |-> body(f, args)]]
<1>1. \A f \in [S -> T], args \in S : body(f, args) \in T
  <2> SUFFICES ASSUME NEW f \in [S -> [Options -> SUBSET Options]], NEW args \in S, NEW o \in Options
               PROVE  body(f, args)[o] \in SUBSET Options
    OBVIOUS
  <2>1. CASE args = << >> \/ o.err
    BY <2>1
  <2>2. CASE args # << >> /\ ~o.err
    <3> DEFINE a == args[1]
               rest == Tail(args)
               n == WordsAhead(rest)
               value == SubSeq(rest, 1, n)
               after == SubSeq(rest, n + 1, Len(rest))
    <3>1. a \in Arguments /\ rest \in S /\ (rest # << >> => <<rest[1]>> \in S /\ Tail(rest) \in S)
          /\ value \in Seq(Words) /\ after \in S
      BY <2>2, Shorter
    <3>2. a.value \in S
      BY <3>1, ValueType
    <3> HIDE DEF a, rest, n, value, after
    <3>5. Words \subseteq Arguments
      BY DEF Arguments
    <3>3. value \in S
      BY <3>1, <3>5, SeqMonotonic
    <3>4. a.name \in DOMAIN TakesValue =>
            /\ SetFlag(o, a.name, a.value) \in Options
            /\ a.name = "blind" => SetFlag(o, a.name, True) \in Options
            /\ SetFlag(o, a.name, value) \in Options
            /\ rest # << >> => SetFlag(o, a.name, <<rest[1]>>) \in Options
      BY <3>1, <3>2, <3>3, SetFlagType DEF TakesValue
    <3> QED BY <2>2, <3>1, <3>4, ZenonT(60) DEF a, rest, n, value, after
  <2> QED BY <2>1, <2>2
<1>2. D \in [[S -> T] -> [S -> T]] /\ \A f \in [S -> T] : D[f] = [args \in S |-> body(f, args)]
  <2> HIDE DEF body, S, T
  <2> QED BY <1>1
<1>3. ASSUME NEW args \in S, NEW g, NEW h, \A t \in S : Len(t) < Len(args) => g[t] = h[t]
      PROVE  body(g, args) = body(h, args)
  <2>1. CASE args = << >>
    BY <2>1
  <2>2. CASE args # << >>
    <3> DEFINE n == WordsAhead(Tail(args))
               after == SubSeq(Tail(args), n + 1, Len(Tail(args)))
    <3>1. Tail(args) \in S /\ Len(Tail(args)) < Len(args)
          /\ (Tail(args) # << >> => Tail(Tail(args)) \in S /\ Len(Tail(Tail(args))) < Len(args))
          /\ after \in S /\ Len(after) < Len(args)
      BY <2>2, Shorter
    <3>2. g[Tail(args)] = h[Tail(args)] /\ (Tail(args) # << >> => g[Tail(Tail(args))] = h[Tail(Tail(args))])
          /\ g[after] = h[after]
      <4> HIDE DEF S, after
      <4> QED BY <3>1, <1>3
    <3> QED BY <2>2, <3>2
  <2> QED BY <2>1, <2>2
<1>4. PICK f \in [S -> T] : f = [args \in S |-> body(f, args)]
  <2>1. Shortens(Arguments, T, D)
    <3>1. ASSUME NEW args \in S, NEW g \in [S -> T], NEW h \in [S -> T],
                 \A t \in S : Len(t) < Len(args) => g[t] = h[t]
          PROVE  D[g][args] = D[h][args]
      <4> HIDE DEF body, D, S, T
      <4>1. body(g, args) = body(h, args)
        BY <1>3, <3>1
      <4>2. D[g] = [a \in S |-> body(g, a)] /\ D[h] = [a \in S |-> body(h, a)]
        BY <1>2
      <4> QED BY <4>1, <4>2
    <3> HIDE DEF body, D, T
    <3> QED BY <1>2, <3>1 DEF Shortens
  <2>2. T # {}
    <3>1. [o \in Options |-> {}] \in T
      OBVIOUS
    <3> QED BY <3>1
  <2> HIDE DEF D, body, T
  <2>3. PICK f \in [S -> T] : f = D[f]
    BY <2>1, <2>2, Recursion
  <2> QED BY <2>3, <1>2
<1>5. Meaning = [args \in Seq(Arguments) |-> body(Meaning, args)]
  BY <1>4 DEF Meaning
<1>6. \A args \in S : f[args] = Meaning[args]
  <2>1. ASSUME NEW args \in S, \A t \in S : Len(t) < Len(args) => f[t] = Meaning[t]
        PROVE  f[args] = Meaning[args]
    <3>1. f[args] = body(f, args) /\ Meaning[args] = body(Meaning, args)
      <4> HIDE DEF body
      <4> QED BY <1>4, <1>5
    <3>2. body(f, args) = body(Meaning, args)
      <4> HIDE DEF body, S
      <4> QED BY <1>3, <2>1
    <3> HIDE DEF body
    <3> QED BY <3>1, <3>2
  <2> HIDE DEF body, D
  <2>2. AgreeStepwise(Arguments, f, Meaning)
    BY <2>1 DEF AgreeStepwise
  <2> QED BY <2>2, SameFunction
<1>7. Meaning \in [S -> T]
  <2> HIDE DEF body
  <2> QED BY <1>4, <1>5, <1>6
<1> QED BY <1>5, <1>7

(* One step of expandThroughputOnlyList.                                   *)
LEMMA ExpandStep ==
  ASSUME NEW args \in Seq(Arguments)
  PROVE  /\ Expand[args] \in Seq(Arguments)
         /\ args = << >> => Expand[args] = << >>
         /\ args # << >> =>
              LET rest == Tail(args)
                  n == WordsAhead(rest) IN
              Expand[args] =
                IF BareOnly(args[1])
                THEN <<FlagIs(2, "throughput-only", SubSeq(rest, 1, n))>> \o Expand[SubSeq(rest, n + 1, Len(rest))]
                ELSE <<args[1]>> \o Expand[rest]
<1>1. Expand[args] =
       IF args = << >> THEN << >>
       ELSE LET rest == Tail(args)
                n == WordsAhead(rest) IN
       IF BareOnly(args[1])
       THEN <<FlagIs(2, "throughput-only", SubSeq(rest, 1, n))>> \o Expand[SubSeq(rest, n + 1, Len(rest))]
       ELSE <<args[1]>> \o Expand[rest]
  BY ExpandDef
<1>2. Expand[args] \in Seq(Arguments)
  BY ExpandDef
<1> QED BY <1>1, <1>2

(* What the parser is given after an argument a and the list t. *)
LEMMA NormalStep ==
  ASSUME NEW a \in Arguments, NEW t \in Seq(Arguments)
  PROVE  /\ NormalizeSingleDash[t] \in Seq(Arguments)
         /\ NormalizeSingleDash[<< >>] = << >>
         /\ NormalizeSingleDash[<<a>> \o t] =
              IF ConsumesNext(a) /\ t # << >>
              THEN <<TwoDashes(a), t[1]>> \o NormalizeSingleDash[Tail(t)]
              ELSE <<TwoDashes(a)>> \o NormalizeSingleDash[t]
<1> DEFINE s == <<a>> \o t
<1>1. s \in Seq(Arguments) /\ s # << >> /\ s[1] = a /\ Tail(s) = t
  BY FirstAndRest
<1>2. << >> \in Seq(Arguments)
  BY EmptySeq
<1> HIDE DEF s
<1>3. NormalizeSingleDash[s] =
        IF s = << >> THEN << >>
        ELSE LET rest == Tail(s) IN
        IF ConsumesNext(s[1]) /\ rest # << >>
        THEN <<TwoDashes(s[1]), rest[1]>> \o NormalizeSingleDash[Tail(rest)]
        ELSE <<TwoDashes(s[1])>> \o NormalizeSingleDash[rest]
  BY <1>1, NormalizeSingleDashDef
<1>4. NormalizeSingleDash[s] =
        IF ConsumesNext(a) /\ t # << >>
        THEN <<TwoDashes(a), t[1]>> \o NormalizeSingleDash[Tail(t)]
        ELSE <<TwoDashes(a)>> \o NormalizeSingleDash[t]
  BY <1>1, <1>3
<1>5. NormalizeSingleDash[<< >>] = << >>
  BY <1>2, NormalizeSingleDashDef
<1>6. NormalizeSingleDash[t] \in Seq(Arguments)
  BY NormalizeSingleDashDef
<1> QED BY <1>4, <1>5, <1>6 DEF s

(* The parser stops at the end of the list or at an error.                 *)
LEMMA ParseEnds ==
  ASSUME NEW t \in Seq(Arguments), NEW o \in Options, t = << >> \/ o.err
  PROVE  Parse[t][o] = o
BY ParseDef

(* What it returns are options.                                            *)
LEMMA ParseType ==
  ASSUME NEW t \in Seq(Arguments), NEW o \in Options
  PROVE  Parse[t][o] \in Options
BY ParseDef

(* One argument parsed.                                                    *)
LEMMA ParseStep ==
  ASSUME NEW a \in Arguments, NEW t \in Seq(Arguments), NEW o \in Options, ~o.err
  PROVE  Parse[<<a>> \o t][o] =
     IF IsWord(a) THEN Parse[t][o]
     ELSE IF a.dash = 1 \/ a.name \notin DOMAIN TakesValue THEN Err(o)
     ELSE IF a.eq THEN Parse[t][SetFlag(o, a.name, a.value)]
     ELSE IF ~TakesValue[a.name] THEN Parse[t][SetFlag(o, a.name, True)]
     ELSE IF t = << >> THEN Err(o)
     ELSE Parse[Tail(t)][SetFlag(o, a.name, <<t[1]>>)]
<1> DEFINE s == <<a>> \o t
<1>1. s \in Seq(Arguments) /\ s # << >> /\ s[1] = a /\ Tail(s) = t
  BY FirstAndRest
<1> HIDE DEF s
<1>2. Parse[s] = [p \in Options |->
   IF s = << >> \/ p.err THEN p
   ELSE LET b == s[1]
            rest == Tail(s) IN
   IF IsWord(b) THEN Parse[rest][p]
   ELSE IF b.dash = 1 \/ b.name \notin DOMAIN TakesValue THEN Err(p)
   ELSE IF b.eq THEN Parse[rest][SetFlag(p, b.name, b.value)]
   ELSE IF ~TakesValue[b.name] THEN Parse[rest][SetFlag(p, b.name, True)]
   ELSE IF rest = << >> THEN Err(p)
   ELSE Parse[Tail(rest)][SetFlag(p, b.name, <<rest[1]>>)]]
  BY <1>1, ParseDef
<1>3. Parse[s][o] =
   IF s = << >> \/ o.err THEN o
   ELSE LET b == s[1]
            rest == Tail(s) IN
   IF IsWord(b) THEN Parse[rest][o]
   ELSE IF b.dash = 1 \/ b.name \notin DOMAIN TakesValue THEN Err(o)
   ELSE IF b.eq THEN Parse[rest][SetFlag(o, b.name, b.value)]
   ELSE IF ~TakesValue[b.name] THEN Parse[rest][SetFlag(o, b.name, True)]
   ELSE IF rest = << >> THEN Err(o)
   ELSE Parse[Tail(rest)][SetFlag(o, b.name, <<rest[1]>>)]
  BY <1>2
<1> QED BY <1>1, <1>3 DEF s

(* What one argument means.                                                *)
LEMMA MeaningStep ==
  ASSUME NEW args \in Seq(Arguments), NEW o \in Options
  PROVE  LET a == args[1]
             rest == Tail(args)
             n == WordsAhead(rest)
             refused == {x \in Options : x.err} IN
   Meaning[args][o] =
   IF args = << >> \/ o.err THEN {o}
   ELSE IF IsWord(a) THEN Meaning[rest][o]
   ELSE IF a.name \notin DOMAIN TakesValue THEN refused
   ELSE IF a.eq THEN Meaning[rest][SetFlag(o, a.name, a.value)]
   ELSE IF a.name = "throughput-only"
   THEN Meaning[SubSeq(rest, n + 1, Len(rest))][SetFlag(o, a.name, SubSeq(rest, 1, n))]
   ELSE IF a.name = "blind" THEN Meaning[rest][SetFlag(o, a.name, True)]
   ELSE IF rest = << >> THEN refused
   ELSE IF BareOnly(rest[1]) THEN Options
   ELSE Meaning[Tail(rest)][SetFlag(o, a.name, <<rest[1]>>)]
<1>2. Meaning[args] = [p \in Options |->
   IF args = << >> \/ p.err THEN {p}
   ELSE LET a == args[1]
            rest == Tail(args)
            n == WordsAhead(rest)
            refused == {x \in Options : x.err} IN
   IF IsWord(a) THEN Meaning[rest][p]
   ELSE IF a.name \notin DOMAIN TakesValue THEN refused
   ELSE IF a.eq THEN Meaning[rest][SetFlag(p, a.name, a.value)]
   ELSE IF a.name = "throughput-only"
   THEN Meaning[SubSeq(rest, n + 1, Len(rest))][SetFlag(p, a.name, SubSeq(rest, 1, n))]
   ELSE IF a.name = "blind" THEN Meaning[rest][SetFlag(p, a.name, True)]
   ELSE IF rest = << >> THEN refused
   ELSE IF BareOnly(rest[1]) THEN Options
   ELSE Meaning[Tail(rest)][SetFlag(p, a.name, <<rest[1]>>)]]
  BY MeaningDef
<1> QED BY <1>2

(* Rewritten and parsed, a list comes to what it means. *)
Kept(args) == \A o \in Options : Parse[NormalizeSingleDash[Expand[args]]][o] \in Meaning[args][o]

(* A known flag with a second dash is the same flag.                       *)
LEMMA TwoDashesIs ==
  ASSUME NEW a \in Arguments, ~IsWord(a), a.name \in DOMAIN TakesValue
  PROVE  LET b == TwoDashes(a) IN
         /\ b \in Arguments /\ ~IsWord(b) /\ b.dash = 2
         /\ b.name = a.name /\ b.eq = a.eq /\ b.value = a.value
<1>1. CASE a.dash = 1
  <2>1. TwoDashes(a) = [a EXCEPT !.dash = 2]
    BY <1>1 DEF TwoDashes
  <2>2. a \in Words => a.dash = 0
    BY DEF Words
  <2>3. a \in [dash : 1 .. 2, name : Texts, eq : BOOLEAN, value : Seq(Words)]
    BY <1>1, <2>2 DEF Arguments
  <2> QED BY <2>1, <2>3 DEF Arguments, IsWord
<1>2. CASE a.dash # 1
  <2>1. a.dash = 2 /\ TwoDashes(a) = a
    <3>1. a \in Words => a.dash = 0
      BY DEF Words
    <3>2. a.dash \in 1 .. 2
      BY <3>1 DEF Arguments, IsWord
    <3> QED BY <1>2, <3>2 DEF TwoDashes
  <2> QED BY <2>1 DEF IsWord
<1> QED BY <1>1, <1>2

(* Words and unknown flags are left as they are.                           *)
LEMMA NotOfTakesValue ==
  ASSUME NEW a \in Arguments, IsWord(a) \/ a.name \notin DOMAIN TakesValue
  PROVE  ~ConsumesNext(a) /\ TwoDashes(a) = a
BY DEF IsWord, ConsumesNext, TwoDashes

(* The flags, and which of them take a value.                              *)
LEMMA FlagNames == DOMAIN TakesValue = {"blind", "password", "throughput", "throughput-only"}
                   /\ \A n \in DOMAIN TakesValue : TakesValue[n] <=> n # "blind"
BY DEF TakesValue

(* Set of any flag with a list of arguments leaves options.                *)
LEMMA SetFlagIn ==
  ASSUME NEW o \in Options, NEW name \in DOMAIN TakesValue, NEW v \in Seq(Arguments)
  PROVE  SetFlag(o, name, v) \in Options
BY SetFlagType

(* A list keeps its meaning if all shorter lists do: one case for each     *)
(* kind of argument in front.                                              *)
LEMMA KeptStep ==
  ASSUME NEW args \in Seq(Arguments),
         \A t \in Seq(Arguments) : Len(t) < Len(args) => Kept(t)
  PROVE  Kept(args)
<1> DEFINE R(t) == NormalizeSingleDash[Expand[t]]
<1>1. \A t \in Seq(Arguments) : Expand[t] \in Seq(Arguments) /\ R(t) \in Seq(Arguments)
  BY ExpandDef, NormalizeSingleDashDef
<1>2. << >> \in Seq(Arguments)
  BY EmptySeq
<1> SUFFICES ASSUME NEW o \in Options PROVE Parse[R(args)][o] \in Meaning[args][o]
  BY DEF Kept
<1>3. CASE args = << >> \/ o.err
  <2>1. Meaning[args][o] = {o}
    BY <1>3, MeaningStep
  <2>2. args = << >> => R(args) = << >>
    BY ExpandStep, NormalizeSingleDashDef, <1>2
  <2>3. Parse[R(args)][o] = o
    <3> HIDE DEF R
    <3> QED BY <1>1, <1>3, <2>2, ParseEnds
  <2> QED BY <2>1, <2>3
<1>4. CASE args # << >> /\ ~o.err
  <2> DEFINE a == args[1]
             rest == Tail(args)
             n == WordsAhead(rest)
             value == SubSeq(rest, 1, n)
             after == SubSeq(rest, n + 1, Len(rest))
             refused == {x \in Options : x.err}
             join == FlagIs(2, "throughput-only", value)
             b == TwoDashes(a)
  <2>1. /\ a \in Arguments
        /\ rest \in Seq(Arguments) /\ Len(rest) < Len(args)
        /\ value \in Seq(Words)
        /\ after \in Seq(Arguments) /\ Len(after) < Len(args)
        /\ rest # << >> => rest[1] \in Arguments /\ Tail(rest) \in Seq(Arguments) /\ Len(Tail(rest)) < Len(args)
    BY <1>4, Shorter
  <2>2. Kept(rest) /\ Kept(after) /\ (rest # << >> => Kept(Tail(rest)))
    BY <2>1
  <2>3. Meaning[args][o] =
     IF IsWord(a) THEN Meaning[rest][o]
     ELSE IF a.name \notin DOMAIN TakesValue THEN refused
     ELSE IF a.eq THEN Meaning[rest][SetFlag(o, a.name, a.value)]
     ELSE IF a.name = "throughput-only" THEN Meaning[after][SetFlag(o, a.name, value)]
     ELSE IF a.name = "blind" THEN Meaning[rest][SetFlag(o, a.name, True)]
     ELSE IF rest = << >> THEN refused
     ELSE IF BareOnly(rest[1]) THEN Options
     ELSE Meaning[Tail(rest)][SetFlag(o, a.name, <<rest[1]>>)]
    BY <1>4, MeaningStep
  <2>4. Expand[args] = IF BareOnly(a) THEN <<join>> \o Expand[after] ELSE <<a>> \o Expand[rest]
    BY <1>4, ExpandStep
  <2>5. Err(o) \in refused
    BY ErrType DEF Err, Options
  <2>6. a.value \in Seq(Arguments) /\ value \in Seq(Arguments)
    <3> HIDE DEF a, value
    <3>1. Words \subseteq Arguments
      BY DEF Arguments
    <3> QED BY <2>1, <3>1, ValueType, SeqMonotonic
  <2>7. ASSUME NEW t \in Seq(Arguments), Kept(t), NEW p \in Options
         PROVE  Parse[R(t)][p] \in Meaning[t][p]
    BY <2>7 DEF Kept
  <2> HIDE DEF R, a, rest, n, value, after, refused, join, b
  <2>8. ASSUME NEW x \in Arguments, NEW t \in Seq(Arguments), Expand[args] = <<x>> \o Expand[t], ~ConsumesNext(x)
         PROVE  R(args) = <<TwoDashes(x)>> \o R(t)
    <3>1. Expand[t] \in Seq(Arguments)
      BY <1>1
    <3>2. NormalizeSingleDash[<<x>> \o Expand[t]] = <<TwoDashes(x)>> \o NormalizeSingleDash[Expand[t]]
      BY <2>8, <3>1, NormalStep
    <3> QED BY <2>8, <3>2 DEF R
  <2>9. ASSUME NEW x \in Arguments, NEW t \in Seq(Arguments), R(args) = <<x>> \o t
         PROVE  /\ IsWord(x) => Parse[R(args)][o] = Parse[t][o]
                /\ ~IsWord(x) /\ x.name \notin DOMAIN TakesValue => Parse[R(args)][o] = Err(o)
                /\ ~IsWord(x) /\ x.name \in DOMAIN TakesValue /\ x.dash = 2 =>
                     /\ x.eq => Parse[R(args)][o] = Parse[t][SetFlag(o, x.name, x.value)]
                     /\ ~x.eq /\ x.name = "blind" => Parse[R(args)][o] = Parse[t][SetFlag(o, x.name, True)]
                     /\ ~x.eq /\ x.name # "blind" =>
                          /\ t = << >> => Parse[R(args)][o] = Err(o)
                          /\ t # << >> => Parse[R(args)][o] = Parse[Tail(t)][SetFlag(o, x.name, <<t[1]>>)]
    <3>1. ~o.err
      BY <1>4
    <3> DEFINE r == Parse[<<x>> \o t][o]
    <3>2. r =
                  IF IsWord(x) THEN Parse[t][o]
                  ELSE IF x.dash = 1 \/ x.name \notin DOMAIN TakesValue THEN Err(o)
                  ELSE IF x.eq THEN Parse[t][SetFlag(o, x.name, x.value)]
                  ELSE IF ~TakesValue[x.name] THEN Parse[t][SetFlag(o, x.name, True)]
                  ELSE IF t = << >> THEN Err(o)
                  ELSE Parse[Tail(t)][SetFlag(o, x.name, <<t[1]>>)]
      BY <3>1, ParseStep
    <3>3. Parse[R(args)][o] = r
      BY <2>9, Zenon
    <3> HIDE DEF r
    <3> QED BY <3>2, <3>3, FlagNames
  <2>10. CASE BareOnly(a)
    <3>1. join \in Arguments /\ join.name = "throughput-only" /\ join.eq /\ join.value = value /\ join.dash = 2
      BY <2>1, JoinedType DEF join, FlagIs
    <3>2. ~ConsumesNext(join) /\ TwoDashes(join) = join
      BY <3>1 DEF ConsumesNext, TwoDashes
    <3>3. R(args) = <<join>> \o R(after)
      BY <2>1, <2>4, <2>8, <2>10, <3>1, <3>2
    <3>4. join.name \in DOMAIN TakesValue /\ a.name = join.name /\ ~a.eq /\ ~IsWord(a)
      BY <2>10, <3>1, FlagNames DEF BareOnly, IsWord
    <3>5. SetFlag(o, a.name, value) \in Options
      BY <2>6, <3>4, SetFlagIn
    <3>6. Parse[R(args)][o] = Parse[R(after)][SetFlag(o, a.name, value)]
      <4>1. R(after) \in Seq(Arguments) /\ ~IsWord(join)
        BY <1>1, <2>1, <3>1 DEF IsWord
      <4>2. Parse[R(args)][o] = Parse[R(after)][SetFlag(o, join.name, join.value)]
        BY <2>9, <3>1, <3>3, <3>4, <4>1
      <4> QED BY <3>1, <3>4, <4>2
    <3>7. Meaning[args][o] = Meaning[after][SetFlag(o, a.name, value)]
      BY <2>3, <3>1, <3>4
    <3> QED BY <2>1, <2>2, <2>7, <3>5, <3>6, <3>7
  <2>11. CASE ~BareOnly(a) /\ (IsWord(a) \/ a.name \notin DOMAIN TakesValue)
    <3>1. ~ConsumesNext(a) /\ TwoDashes(a) = a
      BY <2>1, <2>11, NotOfTakesValue
    <3>2. R(args) = <<a>> \o R(rest)
      BY <2>1, <2>4, <2>8, <2>11, <3>1
    <3>3. Parse[R(args)][o] = IF IsWord(a) THEN Parse[R(rest)][o] ELSE Err(o)
      BY <1>1, <2>1, <2>9, <2>11, <3>2
    <3> QED BY <2>1, <2>2, <2>3, <2>5, <2>7, <2>11, <3>3
  <2>12. CASE ~BareOnly(a) /\ ~IsWord(a) /\ a.name \in DOMAIN TakesValue
    <3>1. b \in Arguments /\ ~IsWord(b) /\ b.dash = 2 /\ b.name = a.name /\ b.eq = a.eq /\ b.value = a.value
      BY <2>1, <2>12, TwoDashesIs DEF b
    <3>2. Parse[R(args)][o] \in Meaning[args][o]
      <4>1. CASE a.eq \/ a.name = "blind"
        <5>1. ~ConsumesNext(a)
          BY <4>1, FlagNames DEF ConsumesNext
        <5>2. R(args) = <<b>> \o R(rest)
          BY <2>1, <2>4, <2>8, <2>12, <5>1 DEF b
        <5>3. Parse[R(args)][o] = Parse[R(rest)][SetFlag(o, a.name, IF a.eq THEN a.value ELSE True)]
          <6>1. R(rest) \in Seq(Arguments) /\ b.name \in DOMAIN TakesValue
            BY <1>1, <2>1, <2>12, <3>1
          <6>2. b.eq => Parse[R(args)][o] = Parse[R(rest)][SetFlag(o, b.name, b.value)]
            BY <2>9, <3>1, <5>2, <6>1
          <6>3. ~b.eq /\ b.name = "blind" => Parse[R(args)][o] = Parse[R(rest)][SetFlag(o, b.name, True)]
            BY <2>9, <3>1, <5>2, <6>1
          <6> QED BY <3>1, <4>1, <6>2, <6>3
        <5>4. Meaning[args][o] = Meaning[rest][SetFlag(o, a.name, IF a.eq THEN a.value ELSE True)]
          BY <2>3, <2>12, <4>1
        <5>5. SetFlag(o, a.name, IF a.eq THEN a.value ELSE True) \in Options
          BY <2>6, <2>12, <4>1, SetFlagType
        <5> QED BY <2>1, <2>2, <2>7, <5>3, <5>4, <5>5
      <4>2. CASE ~a.eq /\ a.name # "blind"
        <5>1. a.dash \in {1, 2}
          <6>1. a \in Words => a.dash = 0
            BY DEF Words
          <6> QED BY <2>1, <2>12, <6>1 DEF Arguments, IsWord
        <5>2. a.name # "throughput-only" /\ ConsumesNext(a) /\ TakesValue[a.name]
          BY <2>12, <4>2, <5>1, FlagNames DEF BareOnly, ConsumesNext
        <5>3. CASE rest = << >>
          <6>1. Expand[rest] = << >> /\ R(rest) = << >>
            BY <1>2, <5>3, ExpandStep, NormalizeSingleDashDef DEF R
          <6>2. R(args) = <<b>> \o << >>
            BY <1>2, <2>1, <2>4, <2>12, <6>1, NormalStep DEF R, b
          <6>3. Parse[R(args)][o] = Err(o)
            BY <1>2, <1>4, <2>12, <3>1, <4>2, <5>2, <6>2, ParseStep
          <6>4. Meaning[args][o] = refused
            BY <2>3, <2>12, <4>2, <5>2, <5>3
          <6> QED BY <2>5, <6>3, <6>4
        <5>4. CASE rest # << >> /\ BareOnly(rest[1])
          <6>1. Meaning[args][o] = Options
            BY <2>3, <2>12, <4>2, <5>2, <5>4
          <6> QED BY <1>1, <6>1, ParseType
        <5>5. CASE rest # << >> /\ ~BareOnly(rest[1])
          <6> DEFINE c == rest[1]
                     t == Tail(rest)
                     u == <<c>> \o Expand[t]
                     w == <<c>> \o R(t)
          <6>1. c \in Arguments /\ t \in Seq(Arguments)
            BY <2>1, <5>5
          <6>2. Expand[rest] = u
            BY <2>1, <5>5, ExpandStep
          <6> HIDE DEF c, t
          <6>3. u \in Seq(Arguments) /\ u # << >> /\ u[1] = c /\ Tail(u) = Expand[t]
            BY <1>1, <6>1, FirstAndRest
          <6>4. w \in Seq(Arguments) /\ w # << >> /\ w[1] = c /\ Tail(w) = R(t)
            BY <1>1, <6>1, FirstAndRest
          <6> HIDE DEF u
          <6>5. R(args) = <<b, c>> \o R(t)
            <7>1. Expand[args] = <<a>> \o u
              BY <2>4, <2>12, <6>2, <5>5, <4>2, <5>2 DEF BareOnly
            <7>2. NormalizeSingleDash[<<a>> \o u] = <<TwoDashes(a), c>> \o NormalizeSingleDash[Expand[t]]
              <8>1. NormalizeSingleDash[<<a>> \o u] = <<TwoDashes(a), u[1]>> \o NormalizeSingleDash[Tail(u)]
                BY <2>1, <5>2, <6>3, NormalStep
              <8> QED BY <6>3, <8>1
            <7> QED BY <7>1, <7>2 DEF R, b
          <6>6. R(args) = <<b>> \o w
            <7>1. R(t) \in Seq(Arguments)
              BY <1>1, <6>1
            <7>2. <<b, c>> \o R(t) = <<b>> \o (<<c>> \o R(t))
              <8> DEFINE rt == R(t)
              <8>1. b \in Arguments /\ c \in Arguments /\ rt \in Seq(Arguments)
                BY <3>1, <6>1, <7>1
              <8> HIDE DEF rt
              <8>2. \A x, y \in Arguments : \A v \in Seq(Arguments) : <<x, y>> \o v = <<x>> \o (<<y>> \o v)
                BY FirstTwoAndRest
              <8>3. <<b, c>> \o rt = <<b>> \o (<<c>> \o rt)
                BY <8>1, <8>2, Zenon
              <8> QED BY <8>3 DEF rt
            <7> QED BY <6>5, <7>2, Zenon DEF w
          <6> HIDE DEF w
          <6>7. Parse[R(args)][o] = Parse[R(t)][SetFlag(o, a.name, <<c>>)]
            BY <2>9, <2>12, <3>1, <4>2, <5>2, <6>4, <6>6
          <6>8. Meaning[args][o] = Meaning[t][SetFlag(o, a.name, <<c>>)]
            BY <2>3, <2>12, <4>2, <5>2, <5>5 DEF c, t
          <6>9. SetFlag(o, a.name, <<c>>) \in Options
            <7>1. <<c>> \in Seq(Arguments)
              BY <6>1
            <7> QED BY <2>12, <7>1, SetFlagIn
          <6> QED BY <2>2, <2>7, <5>5, <6>1, <6>7, <6>8, <6>9 DEF t
        <5> QED BY <5>3, <5>4, <5>5
      <4> QED BY <4>1, <4>2
    <3> QED BY <3>2
  <2> QED BY <2>10, <2>11, <2>12
<1> QED BY <1>3, <1>4

(* Every list keeps its meaning.                                           *)
LEMMA AllKept == \A args \in Seq(Arguments) : Kept(args)
<1> DEFINE P == {args \in Seq(Arguments) : Kept(args)}
<1>1. ASSUME NEW s \in Seq(Arguments), \A t \in Seq(Arguments) : Len(t) < Len(s) => t \in P PROVE s \in P
  BY <1>1, KeptStep
<1> HIDE DEF P
<1>2. Seq(Arguments) \subseteq P
  BY <1>1, ByLength
<1> QED BY <1>2 DEF P

LineOK == argv \in Seq(Arguments) /\ MeaningKept

(* At the start nothing is rewritten, and what was typed is an argument    *)
(* list.                                                                   *)
LEMMA LineInit == Init => LineOK
<1>1. Tokens \subseteq Arguments /\ MaxArgs \in Nat
  BY CommandAssumption
<1>2. \A m \in Nat : \A s \in [1 .. m -> Tokens] : s \in Seq(Arguments)
  BY <1>1
<1>3. SeqOf(Tokens, MaxArgs) \subseteq Seq(Arguments)
  BY <1>1, <1>2 DEF SeqOf
<1>4. << >> \in Seq(Arguments)
  BY EmptySeq
<1> QED BY <1>3, <1>4 DEF Init, LineOK, MeaningKept

(* main rewrites and parses what was typed; RunE forgets it.               *)
LEMMA LineSteps ==
  ASSUME LineOK, [Next]_vars
  PROVE  LineOK'
<1>1. CASE Main
  <2>1. Defaults \in Options
    BY EmptySeq DEF Defaults, Options
  <2>2. argv' = argv /\ opts' = Parse[NormalizeSingleDash[Expand[argv]]][Defaults]
    <3> DEFINE r == NormalizeSingleDash[Expand[argv]]
    <3> HIDE DEF r
    <3>1. rewritten' = <<r>> /\ opts' = Parse[rewritten'[1]][Defaults] /\ argv' = argv
      BY <1>1 DEF Main, r
    <3> QED BY <3>1 DEF r
  <2>3. opts' \in Meaning[argv][Defaults]
    BY <2>1, <2>2, AllKept DEF LineOK, Kept
  <2> QED BY <2>2, <2>3 DEF LineOK, MeaningKept
<1>2. CASE RunE
  BY <1>2, EmptySeq DEF RunE, LineOK, MeaningKept
<1>3. CASE UNCHANGED line
  BY <1>3 DEF line, LineOK, MeaningKept
<1> QED BY <1>1, <1>2, <1>3 DEF Next, SuiteNext, SetupNext, vars, line

(* The two rewritings of main keep the meaning of the arguments: what the  *)
(* flag parser reads out of the rewritten list is among the outcomes that  *)
(* the list allows as the user wrote it (expandThroughputOnlyList,         *)
(* normalizeSingleDash), for argument lists of any length over any texts.  *)
(* After a value "-throughput-only" Meaning allows any outcome.            *)
THEOREM MeaningIsKept == Spec => []MeaningKept
<1>1. Init => LineOK
  BY LineInit
<1>2. LineOK /\ [Next]_vars => LineOK'
  BY LineSteps
<1>3. LineOK => MeaningKept
  BY DEF LineOK
<1> QED BY <1>1, <1>2, <1>3, PTL DEF Spec

-----------------------------------------------------------------------------
(* The rc file. *)

LEMMA LinesOfDef ==
  /\ LinesOf \in [Seq(Parts) -> Seq(Lines)]
  /\ LinesOf = [s \in Seq(Parts) |->
       IF s = << >> THEN << >> ELSE (IF s[1] \in Lines THEN <<s[1]>> ELSE << >>) \o LinesOf[Tail(s)]]
<1> DEFINE S == Seq(Parts)
           body(f, s) ==
             IF s = << >> THEN << >> ELSE (IF s[1] \in Lines THEN <<s[1]>> ELSE << >>) \o f[Tail(s)]
           T == Seq(Lines)
           D == [f \in [S -> T] |-> [s \in S |-> body(f, s)]]
<1>1. \A f \in [S -> T], s \in S : body(f, s) \in T
  <2> SUFFICES ASSUME NEW f \in [S -> T], NEW s \in S PROVE body(f, s) \in T
    OBVIOUS
  <2>1. CASE s = << >>
    BY <2>1, EmptySeq
  <2>2. CASE s # << >>
    <3> DEFINE l == IF s[1] \in Lines THEN <<s[1]>> ELSE << >>
    <3>1. l \in Seq(Lines)
      BY EmptySeq
    <3>2. Tail(s) \in S /\ f[Tail(s)] \in Seq(Lines)
      <4>1. Tail(s) \in S
        BY <2>2, HeadTailProperties
      <4> HIDE DEF S
      <4> QED BY <4>1
    <3> HIDE DEF l
    <3>3. l \o f[Tail(s)] \in Seq(Lines)
      BY <3>1, <3>2, ConcatProperties
    <3> QED BY <2>2, <3>3 DEF l
  <2> QED BY <2>1, <2>2
<1>2. D \in [[S -> T] -> [S -> T]] /\ \A f \in [S -> T] : D[f] = [s \in S |-> body(f, s)]
  <2> HIDE DEF body, S, T
  <2> QED BY <1>1
<1>3. ASSUME NEW s \in S, NEW g, NEW h, \A t \in S : Len(t) < Len(s) => g[t] = h[t]
      PROVE  body(g, s) = body(h, s)
  <2>1. CASE s = << >>
    BY <2>1
  <2>2. CASE s # << >>
    <3>1. Tail(s) \in S /\ Len(Tail(s)) < Len(s)
      BY <2>2
    <3>2. g[Tail(s)] = h[Tail(s)]
      <4> HIDE DEF S
      <4> QED BY <3>1, <1>3
    <3> QED BY <2>2, <3>2
  <2> QED BY <2>1, <2>2
<1>4. PICK f \in [S -> T] : f = [s \in S |-> body(f, s)]
  <2>1. Shortens(Parts, T, D)
    <3>1. ASSUME NEW s \in S, NEW g \in [S -> T], NEW h \in [S -> T],
                 \A t \in S : Len(t) < Len(s) => g[t] = h[t]
          PROVE  D[g][s] = D[h][s]
      <4> HIDE DEF body, D, S, T
      <4>1. body(g, s) = body(h, s)
        BY <1>3, <3>1
      <4>2. D[g] = [a \in S |-> body(g, a)] /\ D[h] = [a \in S |-> body(h, a)]
        BY <1>2
      <4> QED BY <4>1, <4>2
    <3> HIDE DEF body, D, T
    <3> QED BY <1>2, <3>1 DEF Shortens
  <2>2. T # {}
    BY EmptySeq
  <2> HIDE DEF D, body, T
  <2> DEFINE has(U, E) == \E f \in [Seq(Parts) -> U] : f = E[f]
  <2>3. \A U, E : U # {} /\ Shortens(Parts, U, E) => has(U, E)
    BY Recursion
  <2> HIDE DEF has
  <2>4. has(T, D)
    BY <2>1, <2>2, <2>3
  <2>5. PICK f \in [S -> T] : f = D[f]
    BY <2>4 DEF has
  <2> QED BY <2>5, <1>2
<1>5. LinesOf = [s \in Seq(Parts) |-> body(LinesOf, s)]
  BY <1>4 DEF LinesOf
<1>6. \A s \in S : f[s] = LinesOf[s]
  <2>1. ASSUME NEW s \in S, \A t \in S : Len(t) < Len(s) => f[t] = LinesOf[t]
        PROVE  f[s] = LinesOf[s]
    <3>1. f[s] = body(f, s) /\ LinesOf[s] = body(LinesOf, s)
      <4> HIDE DEF body
      <4> QED BY <1>4, <1>5
    <3>2. body(f, s) = body(LinesOf, s)
      <4> HIDE DEF body, S
      <4> QED BY <1>3, <2>1
    <3> HIDE DEF body
    <3> QED BY <3>1, <3>2
  <2> HIDE DEF body, D
  <2>2. AgreeStepwise(Parts, f, LinesOf)
    BY <2>1 DEF AgreeStepwise
  <2> QED BY <2>2, SameFunction
<1>7. LinesOf \in [S -> T]
  <2> HIDE DEF body
  <2> QED BY <1>4, <1>5, <1>6
<1> QED BY <1>5, <1>7

(* The first element of a text, and its lines.                             *)
LEMMA LinesOfStep ==
  ASSUME NEW s \in Seq(Parts)
  PROVE  /\ LinesOf[s] \in Seq(Lines)
         /\ s = << >> => LinesOf[s] = << >>
         /\ s # << >> => LinesOf[s] = (IF s[1] \in Lines THEN <<s[1]>> ELSE << >>) \o LinesOf[Tail(s)]
<1>1. LinesOf[s] = IF s = << >> THEN << >> ELSE (IF s[1] \in Lines THEN <<s[1]>> ELSE << >>) \o LinesOf[Tail(s)]
  BY LinesOfDef
<1>2. LinesOf[s] \in Seq(Lines)
  BY LinesOfDef
<1> QED BY <1>1, <1>2

(* The first element of two sequences joined, and the rest.                *)
LEMMA HeadOfConcat ==
  ASSUME NEW A, NEW s \in Seq(A), NEW t \in Seq(A), s # << >>
  PROVE  /\ s \o t \in Seq(A) /\ s \o t # << >>
         /\ (s \o t)[1] = s[1] /\ Tail(s) \in Seq(A) /\ Tail(s \o t) = Tail(s) \o t
<1>1. Len(s) \in Nat \ {0} /\ Len(t) \in Nat /\ Tail(s) \in Seq(A) /\ Len(Tail(s)) = Len(s) - 1
      /\ \A i \in 1 .. Len(s) - 1 : Tail(s)[i] = s[i + 1]
  BY EmptySeq, HeadTailProperties
<1> DEFINE c == s \o t
           d == Tail(s) \o t
<1>2. /\ c \in Seq(A) /\ Len(c) = Len(s) + Len(t)
      /\ \A i \in 1 .. Len(s) + Len(t) : c[i] = IF i <= Len(s) THEN s[i] ELSE t[i - Len(s)]
  BY ConcatProperties
<1>3. /\ d \in Seq(A) /\ Len(d) = Len(Tail(s)) + Len(t)
      /\ \A i \in 1 .. Len(Tail(s)) + Len(t) : d[i] = IF i <= Len(Tail(s)) THEN Tail(s)[i] ELSE t[i - Len(Tail(s))]
  BY <1>1, ConcatProperties
<1> HIDE DEF c, d
<1>4. c # << >> /\ c[1] = s[1]
  BY <1>1, <1>2
<1>5. Tail(c) \in Seq(A) /\ Len(Tail(c)) = Len(c) - 1 /\ \A i \in 1 .. Len(c) - 1 : Tail(c)[i] = c[i + 1]
  BY <1>2, <1>4, HeadTailProperties
<1>6. \A i \in 1 .. Len(Tail(c)) : Tail(c)[i] = d[i]
  <2> SUFFICES ASSUME NEW i \in 1 .. Len(Tail(c)) PROVE Tail(c)[i] = d[i]
    OBVIOUS
  <2>1. Tail(c)[i] = IF i + 1 <= Len(s) THEN s[i + 1] ELSE t[i + 1 - Len(s)]
    BY <1>1, <1>2, <1>5
  <2>2. d[i] = IF i <= Len(s) - 1 THEN Tail(s)[i] ELSE t[i - (Len(s) - 1)]
    BY <1>1, <1>2, <1>3, <1>5
  <2>3. i + 1 <= Len(s) => Tail(s)[i] = s[i + 1]
    BY <1>1, <1>2, <1>5
  <2>4. i + 1 - Len(s) = i - (Len(s) - 1)
    BY <1>1
  <2> QED BY <1>1, <2>1, <2>2, <2>3, <2>4
<1>7. Len(Tail(c)) = Len(d)
  BY <1>1, <1>2, <1>3, <1>5
<1>8. Tail(c) = d
  BY <1>3, <1>5, <1>6, <1>7, SeqEqual
<1> QED BY <1>1, <1>2, <1>4, <1>8 DEF c, d

(* The lines of two texts, one after the other. *)
LEMMA LinesOfBoth ==
  ASSUME NEW s \in Seq(Parts), NEW t \in Seq(Parts)
  PROVE  LinesOf[s \o t] = LinesOf[s] \o LinesOf[t]
<1> DEFINE P == {u \in Seq(Parts) : LinesOf[u \o t] = LinesOf[u] \o LinesOf[t]}
<1>1. ASSUME NEW u \in Seq(Parts), \A v \in Seq(Parts) : Len(v) < Len(u) => v \in P PROVE u \in P
  <2>1. LinesOf[t] \in Seq(Lines)
    BY LinesOfStep
  <2>2. CASE u = << >>
    <3>1. u \o t = t /\ LinesOf[u] = << >> /\ << >> \o LinesOf[t] = LinesOf[t]
      BY <2>1, <2>2, ConcatEmptySeq, LinesOfStep
    <3> QED BY <3>1
  <2>3. CASE u # << >>
    <3> DEFINE l == IF u[1] \in Lines THEN <<u[1]>> ELSE << >>
    <3>1. /\ u \o t \in Seq(Parts) /\ u \o t # << >>
          /\ (u \o t)[1] = u[1] /\ Tail(u) \in Seq(Parts) /\ Tail(u \o t) = Tail(u) \o t
      BY <2>3, HeadOfConcat
    <3>2. Tail(u) \in P
      <4>1. Len(Tail(u)) < Len(u)
        BY <2>3
      <4> HIDE DEF P
      <4> QED BY <1>1, <3>1, <4>1
    <3>3. LinesOf[u \o t] = l \o LinesOf[Tail(u) \o t]
      <4> DEFINE w == u \o t
      <4>1. w \in Seq(Parts) /\ w # << >> /\ w[1] = u[1] /\ Tail(w) = Tail(u) \o t
        BY <3>1
      <4> HIDE DEF w
      <4>2. LinesOf[w] = (IF w[1] \in Lines THEN <<w[1]>> ELSE << >>) \o LinesOf[Tail(w)]
        BY <4>1, LinesOfStep
      <4> QED BY <4>1, <4>2 DEF w
    <3>4. LinesOf[u] = l \o LinesOf[Tail(u)]
      BY <2>3, LinesOfStep
    <3>5. l \in Seq(Lines) /\ LinesOf[Tail(u)] \in Seq(Lines)
      <4>1. u[1] \in Lines => <<u[1]>> \in Seq(Lines)
        OBVIOUS
      <4>2. << >> \in Seq(Lines)
        BY EmptySeq
      <4>3. LinesOf[Tail(u)] \in Seq(Lines)
        BY <3>1, LinesOfStep
      <4> QED BY <4>1, <4>2, <4>3
    <3> HIDE DEF l
    <3>6. (l \o LinesOf[Tail(u)]) \o LinesOf[t] = l \o (LinesOf[Tail(u)] \o LinesOf[t])
      <4> DEFINE m == LinesOf[Tail(u)]
                 n == LinesOf[t]
      <4>1. m \in Seq(Lines) /\ n \in Seq(Lines) /\ l \in Seq(Lines)
        BY <2>1, <3>5
      <4> HIDE DEF m, n
      <4>2. (l \o m) \o n = l \o (m \o n)
        BY <4>1, ConcatAssociative, SMTT(60)
      <4> QED BY <4>2 DEF m, n
    <3>7. LinesOf[Tail(u) \o t] = LinesOf[Tail(u)] \o LinesOf[t]
      BY <3>2
    <3> QED BY <3>3, <3>4, <3>6, <3>7
  <2> QED BY <2>2, <2>3
<1> HIDE DEF P
<1>2. Seq(Parts) \subseteq P
  BY <1>1, ByLength
<1> QED BY <1>2 DEF P

(* A text without lines has none.                                          *)
LEMMA NoLines ==
  ASSUME NEW s \in Seq(Parts), \A i \in 1 .. Len(s) : s[i] \notin Lines
  PROVE  LinesOf[s] = << >>
<1> DEFINE P == {u \in Seq(Parts) : (\A i \in 1 .. Len(u) : u[i] \notin Lines) => LinesOf[u] = << >>}
<1>1. ASSUME NEW u \in Seq(Parts), \A v \in Seq(Parts) : Len(v) < Len(u) => v \in P PROVE u \in P
  <2>1. CASE u = << >>
    BY <2>1, LinesOfStep
  <2>2. CASE u # << >>
    <3> SUFFICES ASSUME \A i \in 1 .. Len(u) : u[i] \notin Lines PROVE LinesOf[u] = << >>
      OBVIOUS
    <3>1. Len(u) \in Nat \ {0} /\ Tail(u) \in Seq(Parts) /\ Len(Tail(u)) = Len(u) - 1
          /\ \A i \in 1 .. Len(Tail(u)) : Tail(u)[i] = u[i + 1]
      BY <2>2, EmptySeq, HeadTailProperties
    <3>2. \A i \in 1 .. Len(Tail(u)) : Tail(u)[i] \notin Lines
      BY <3>1
    <3>3. Tail(u) \in P
      <4>1. Len(Tail(u)) < Len(u)
        BY <3>1
      <4> HIDE DEF P
      <4> QED BY <1>1, <3>1, <4>1
    <3>4. LinesOf[Tail(u)] = << >>
      BY <3>2, <3>3
    <3>5. u[1] \notin Lines
      BY <3>1
    <3>6. LinesOf[u] = << >> \o LinesOf[Tail(u)]
      BY <2>2, <3>5, LinesOfStep
    <3> QED BY <3>4, <3>6
  <2> QED BY <2>1, <2>2
<1> HIDE DEF P
<1>2. Seq(Parts) \subseteq P
  BY <1>1, ByLength
<1> QED BY <1>2 DEF P

(* The lines of a text cut in two.                                         *)
LEMMA LinesOfHalves ==
  ASSUME NEW s \in Seq(Parts), NEW m \in 0 .. Len(s)
  PROVE  LinesOf[s] = LinesOf[SubSeq(s, 1, m)] \o LinesOf[SubSeq(s, m + 1, Len(s))]
<1> DEFINE a == SubSeq(s, 1, m)
           b == SubSeq(s, m + 1, Len(s))
<1>1. a \in Seq(Parts) /\ b \in Seq(Parts) /\ s = a \o b
  BY Halves
<1> HIDE DEF a, b
<1>2. LinesOf[a \o b] = LinesOf[a] \o LinesOf[b]
  BY <1>1, LinesOfBoth
<1> QED BY <1>1, <1>2 DEF a, b

-----------------------------------------------------------------------------
User == Lines \cup {NL}

(* What the user writes is not of the block.                               *)
LEMMA PartsAre ==
  /\ User \subseteq Parts
  /\ Start \notin User /\ Source \notin User /\ End \notin User /\ NL \notin Lines
  /\ Start # Source /\ Start # End /\ Source # End /\ NL # Start /\ NL # Source /\ NL # End
  /\ {Start, Source, End} \subseteq Parts /\ \A e \in Parts : e \in User \/ e \in {Start, Source, End}
BY DEF User, Parts, Lines, Start, Source, End, NL

(* The rc file: the user's text before p, b elements of the block, and the *)
(* user's text again.                                                      *)
Around(s, p, b) ==
  /\ p \in Nat /\ b \in 0 .. 3 /\ p + b <= Len(s)
  /\ b >= 1 => s[p + 1] = Start
  /\ b >= 2 => s[p + 2] = Source
  /\ b = 3 => s[p + 3] = End
  /\ \A i \in 1 .. Len(s) : i <= p \/ i > p + b => s[i] \in User

Apart(s) == \A i \in 1 .. Len(s) - 1 : s[i] \in Lines => s[i + 1] = NL

RcIs(s) == s \in Seq(Parts) /\ Apart(s) /\ \E p, b : Around(s, p, b)

(* The block is found where it is, and ends with its end marker, or with   *)
(* the file if that is lost.                                               *)
LEMMA WhereBlockIs ==
  ASSUME NEW s \in Seq(Parts), NEW p, NEW b, Around(s, p, b)
  PROVE  /\ b = 0 => ~Found(s) /\ \A i \in 1 .. Len(s) : s[i] \in User
         /\ b # 0 =>
              /\ Found(s) /\ IndexOf(Start, s) = p + 1
              /\ BlockEnd(s) = IF b = 3 THEN p + 3 ELSE Len(s)
<1>1. Len(s) \in Nat /\ p \in Nat /\ b \in 0 .. 3 /\ p + b <= Len(s)
  BY DEF Around
<1>2. /\ IndexOf(Start, s) \in 0 .. Len(s)
      /\ IndexOf(Start, s) = 0 => \A i \in 1 .. Len(s) : s[i] # Start
      /\ IndexOf(Start, s) # 0 => s[IndexOf(Start, s)] = Start /\ \A i \in 1 .. IndexOf(Start, s) - 1 : s[i] # Start
  BY IndexIs
<1> DEFINE x == IndexOf(Start, s)
<1>3. x \in 0 .. Len(s)
      /\ (x = 0 => \A i \in 1 .. Len(s) : s[i] # Start)
      /\ (x # 0 => s[x] = Start /\ \A i \in 1 .. x - 1 : s[i] # Start)
  BY <1>2
<1> HIDE DEF x
<1>4. CASE b = 0
  <2>1. \A i \in 1 .. Len(s) : s[i] \in User
    BY <1>1, <1>4 DEF Around
  <2>2. x = 0
    BY <1>1, <1>3, <2>1, PartsAre
  <2> QED BY <1>4, <2>1, <2>2 DEF x, Found
<1>5. CASE b # 0
  <2>1. s[p + 1] = Start /\ p + 1 \in 1 .. Len(s)
    BY <1>1, <1>5 DEF Around
  <2>2. \A i \in 1 .. Len(s) : i # p + 1 => s[i] # Start
    <3> SUFFICES ASSUME NEW i \in 1 .. Len(s), i # p + 1 PROVE s[i] # Start
      OBVIOUS
    <3>1. CASE i <= p \/ i > p + b
      BY <3>1, PartsAre DEF Around
    <3>2. CASE ~(i <= p \/ i > p + b)
      <4>1. (i = p + 2 /\ b >= 2) \/ (i = p + 3 /\ b = 3)
        BY <1>1, <3>2
      <4> QED BY <4>1, PartsAre DEF Around
    <3> QED BY <3>1, <3>2
  <2>3. x # 0
    BY <1>3, <2>1
  <2>4. x = p + 1
    BY <1>1, <1>3, <2>1, <2>2, <2>3
  <2> DEFINE e == {i \in DOMAIN s : i > x /\ s[i] = End}
  <2>5. BlockEnd(s) = IF e = {} THEN Len(s) ELSE Min(e)
    BY DEF BlockEnd, x
  <2>6. \A i \in 1 .. Len(s) : s[i] = End <=> b = 3 /\ i = p + 3
    <3> SUFFICES ASSUME NEW i \in 1 .. Len(s) PROVE s[i] = End <=> b = 3 /\ i = p + 3
      OBVIOUS
    <3>1. CASE i <= p \/ i > p + b
      BY <1>1, <3>1, PartsAre DEF Around
    <3>2. CASE ~(i <= p \/ i > p + b)
      <4>1. (i = p + 1 /\ b >= 1) \/ (i = p + 2 /\ b >= 2) \/ (i = p + 3 /\ b = 3)
        BY <1>1, <3>2
      <4> QED BY <1>1, <4>1, PartsAre DEF Around
    <3> QED BY <3>1, <3>2
  <2>7. DOMAIN s = 1 .. Len(s)
    OBVIOUS
  <2>8. CASE b = 3
    <3>1. e = {p + 3}
      BY <1>1, <2>4, <2>6, <2>7, <2>8
    <3>2. Min({p + 3}) = p + 3
      BY <1>1 DEF Min
    <3> HIDE DEF e
    <3> QED BY <2>3, <2>4, <2>5, <2>8, <3>1, <3>2 DEF x, Found
  <2>9. CASE b # 3
    <3>1. e = {}
      BY <2>6, <2>7, <2>9
    <3> HIDE DEF e
    <3>2. BlockEnd(s) = Len(s)
      BY <2>5, <3>1
    <3> QED BY <1>5, <2>3, <2>4, <2>9, <3>2 DEF x, Found
  <2> QED BY <1>5, <2>8, <2>9
<1> QED BY <1>4, <1>5

(* A part of the user's text. *)
IsText(s) == s \in Seq(Parts) /\ Apart(s) /\ \A i \in 1 .. Len(s) : s[i] \in User

(* It ends its last line. *)
Closed(s) == s # << >> => s[Len(s)] \notin Lines

(* What is in front of the block and behind it. *)
BeforeBlock(s) == SubSeq(s, 1, IndexOf(Start, s) - 1)
AfterBlock(s) == SubSeq(s, BlockEnd(s) + 1, Len(s))

(* Without a start marker all lines are the user's.                        *)
LEMMA UserLinesAlone ==
  ASSUME NEW s \in Seq(Parts), \A i \in 1 .. Len(s) : s[i] # Start
  PROVE  UserLines(s) = LinesOf[s]
<1>1. \A i \in DOMAIN s : ~InBlock(s, i)
  <2> SUFFICES ASSUME NEW i \in 1 .. Len(s), NEW j \in 1 .. i PROVE s[j] # Start
    BY DEF InBlock
  <2>1. j \in 1 .. Len(s)
    OBVIOUS
  <2> QED BY <2>1
<1> DEFINE m == [i \in DOMAIN s |-> IF InBlock(s, i) THEN NL ELSE s[i]]
<1>2. m = s
  <2>1. m = [i \in DOMAIN s |-> s[i]]
    BY <1>1
  <2>2. s = [i \in DOMAIN s |-> s[i]]
    OBVIOUS
  <2> QED BY <2>1, <2>2
<1> HIDE DEF m
<1>3. UserLines(s) = LinesOf[m]
  BY DEF UserLines, m
<1> QED BY <1>2, <1>3

(* With one, those in front of the block and those behind it, each of them *)
(* a text.                                                                 *)
LEMMA BlockSplits ==
  ASSUME NEW s, RcIs(s), Found(s)
  PROVE  /\ IsText(BeforeBlock(s)) /\ Closed(BeforeBlock(s)) /\ IsText(AfterBlock(s))
         /\ UserLines(s) = LinesOf[BeforeBlock(s)] \o LinesOf[AfterBlock(s)]
<1>1. s \in Seq(Parts) /\ Len(s) \in Nat /\ Apart(s)
  BY DEF RcIs
<1>2. PICK p, b : Around(s, p, b)
  BY DEF RcIs
<1>3. p \in Nat /\ b \in 1 .. 3 /\ p + b <= Len(s)
  <2>1. p \in Nat /\ b \in 0 .. 3 /\ p + b <= Len(s)
    BY <1>2 DEF Around
  <2>2. b # 0
    BY <1>1, <1>2, WhereBlockIs
  <2> QED BY <2>1, <2>2
<1> DEFINE q == IF b = 3 THEN p + 3 ELSE Len(s)
<1>4. IndexOf(Start, s) = p + 1 /\ BlockEnd(s) = q
  BY <1>1, <1>2, <1>3, WhereBlockIs
<1>5. q \in p + 1 .. Len(s) /\ p \in 0 .. Len(s) /\ q \in 0 .. Len(s)
  BY <1>1, <1>3
<1>6. \A i \in 1 .. Len(s) : i <= p \/ i > q => s[i] \in User
  BY <1>1, <1>2, <1>3 DEF Around
<1>7. s[p + 1] = Start
  BY <1>2, <1>3 DEF Around
<1>8. \A i \in 1 .. Len(s) : InBlock(s, i) <=> (p < i /\ i <= q)
  <2> SUFFICES ASSUME NEW i \in 1 .. Len(s) PROVE InBlock(s, i) <=> (p < i /\ i <= q)
    OBVIOUS
  <2>1. \A j \in 1 .. Len(s) : s[j] = Start => j = p + 1
    <3> SUFFICES ASSUME NEW j \in 1 .. Len(s), j # p + 1 PROVE s[j] # Start
      OBVIOUS
    <3>1. CASE j <= p \/ j > p + b
      BY <1>2, <3>1, PartsAre DEF Around
    <3>2. CASE ~(j <= p \/ j > p + b)
      <4>1. (j = p + 2 /\ b >= 2) \/ (j = p + 3 /\ b = 3)
        BY <1>1, <1>3, <3>2
      <4> QED BY <1>2, <4>1, PartsAre DEF Around
    <3> QED BY <3>1, <3>2
  <2>2. \A e \in p + 1 .. q - 1 : s[e] # End
    <3> SUFFICES ASSUME NEW e \in p + 1 .. q - 1 PROVE s[e] # End
      OBVIOUS
    <3>1. CASE e <= p + b
      <4>1. e = p + 1 \/ (e = p + 2 /\ b >= 2)
        BY <1>1, <1>3, <3>1
      <4> QED BY <1>2, <1>3, <4>1, PartsAre DEF Around
    <3>2. CASE e > p + b
      <4>1. e \in 1 .. Len(s)
        BY <1>1, <1>3, <1>5
      <4> QED BY <1>2, <3>2, <4>1, PartsAre DEF Around
    <3> QED BY <1>3, <3>1, <3>2
  <2>3. ASSUME p < i, i <= q PROVE InBlock(s, i)
    <3>1. p + 1 \in 1 .. i /\ \A e \in p + 1 .. i - 1 : e \in p + 1 .. q - 1
      BY <1>3, <1>5, <2>3
    <3> QED BY <1>7, <2>2, <3>1 DEF InBlock
  <2>4. ASSUME InBlock(s, i) PROVE p < i /\ i <= q
    <3>1. PICK j \in 1 .. i : s[j] = Start /\ \A e \in j .. i - 1 : s[e] # End
      BY <2>4 DEF InBlock
    <3>2. j = p + 1
      BY <1>1, <2>1, <3>1
    <3>3. CASE b = 3
      <4>1. s[p + 3] = End
        BY <1>2, <3>3 DEF Around
      <4>2. ~(p + 3 \in p + 1 .. i - 1)
        BY <3>1, <3>2, <4>1
      <4> QED BY <1>3, <3>2, <3>3, <4>2
    <3>4. CASE b # 3
      BY <1>3, <3>2, <3>4
    <3> QED BY <3>3, <3>4
  <2> QED BY <2>3, <2>4
<1> HIDE DEF q
<1>9. /\ BeforeBlock(s) = SubSeq(s, 1, p) /\ AfterBlock(s) = SubSeq(s, q + 1, Len(s))
  BY <1>3, <1>4 DEF BeforeBlock, AfterBlock
<1>10. /\ BeforeBlock(s) \in Seq(Parts) /\ Len(BeforeBlock(s)) = p /\ \A i \in 1 .. p : BeforeBlock(s)[i] = s[i]
  BY <1>1, <1>5, <1>9, Halves
<1>11. /\ AfterBlock(s) \in Seq(Parts) /\ Len(AfterBlock(s)) = Len(s) - q /\ \A i \in 1 .. Len(s) - q : AfterBlock(s)[i] = s[q + i]
  BY <1>1, <1>5, <1>9, Halves
<1>12. IsText(BeforeBlock(s))
  BY <1>1, <1>3, <1>6, <1>10 DEF IsText, Apart
<1>13. Closed(BeforeBlock(s))
  <2> SUFFICES ASSUME BeforeBlock(s) # << >> PROVE BeforeBlock(s)[p] \notin Lines
    BY <1>10 DEF Closed
  <2>1. p # 0
    BY <1>10
  <2>2. p \in 1 .. Len(s) - 1 /\ BeforeBlock(s)[p] = s[p]
    BY <1>1, <1>3, <1>10, <2>1
  <2>3. s[p + 1] # NL
    BY <1>7, PartsAre
  <2> QED BY <1>1, <2>2, <2>3 DEF Apart
<1>14. IsText(AfterBlock(s))
  <2>1. \A i \in 1 .. Len(s) - q : q + i \in 1 .. Len(s) /\ q + i > q
    BY <1>1, <1>5
  <2>2. \A i \in 1 .. Len(AfterBlock(s)) : AfterBlock(s)[i] \in User
    BY <1>6, <1>11, <2>1
  <2>3. Apart(AfterBlock(s))
    <3> SUFFICES ASSUME NEW i \in 1 .. Len(AfterBlock(s)) - 1, AfterBlock(s)[i] \in Lines PROVE AfterBlock(s)[i + 1] = NL
      BY DEF Apart
    <3>1. i \in 1 .. Len(s) - q /\ i + 1 \in 1 .. Len(s) - q /\ q + i \in 1 .. Len(s) - 1
      BY <1>1, <1>5, <1>11
    <3>2. AfterBlock(s)[i] = s[q + i] /\ AfterBlock(s)[i + 1] = s[q + (i + 1)] /\ q + (i + 1) = (q + i) + 1
      BY <1>5, <1>11, <3>1
    <3> QED BY <1>1, <3>1, <3>2 DEF Apart
  <2> QED BY <1>11, <2>2, <2>3 DEF IsText
<1>15. UserLines(s) = LinesOf[BeforeBlock(s)] \o LinesOf[AfterBlock(s)]
  <2> DEFINE m == [i \in DOMAIN s |-> IF InBlock(s, i) THEN NL ELSE s[i]]
  <2>1. DOMAIN s = 1 .. Len(s) /\ \A i \in 1 .. Len(s) : s[i] \in Parts
    BY <1>1
  <2>2. /\ m \in Seq(Parts) /\ Len(m) = Len(s)
        /\ \A i \in 1 .. Len(s) : m[i] = IF p < i /\ i <= q THEN NL ELSE s[i]
    <3>1. m = [i \in 1 .. Len(s) |-> IF p < i /\ i <= q THEN NL ELSE s[i]]
      BY <1>8, <2>1
    <3>2. NL \in Parts
      BY DEF Parts
    <3> HIDE DEF m
    <3> QED BY <1>1, <2>1, <3>1, <3>2
  <2> HIDE DEF m
  <2> DEFINE f == SubSeq(m, 1, p)
             o == SubSeq(m, p + 1, Len(m))
             k == SubSeq(o, 1, q - p)
             r == SubSeq(o, q - p + 1, Len(o))
  <2>3. /\ f \in Seq(Parts) /\ Len(f) = p /\ o \in Seq(Parts) /\ Len(o) = Len(m) - p
        /\ \A i \in 1 .. p : f[i] = m[i]
        /\ \A i \in 1 .. Len(m) - p : o[i] = m[p + i]
        /\ LinesOf[m] = LinesOf[f] \o LinesOf[o]
    <3>1. p \in 0 .. Len(m)
      BY <1>5, <2>2
    <3>2. /\ f \in Seq(Parts) /\ Len(f) = p /\ o \in Seq(Parts) /\ Len(o) = Len(m) - p
          /\ \A i \in 1 .. p : f[i] = m[i]
          /\ \A i \in 1 .. Len(m) - p : o[i] = m[p + i]
      BY <2>2, <3>1, Halves
    <3>3. LinesOf[m] = LinesOf[f] \o LinesOf[o]
      BY <2>2, <3>1, LinesOfHalves
    <3> QED BY <3>2, <3>3
  <2> HIDE DEF f, o
  <2>4. q - p \in 0 .. Len(o)
    BY <1>1, <1>3, <1>5, <2>2, <2>3
  <2>5. /\ k \in Seq(Parts) /\ Len(k) = q - p /\ r \in Seq(Parts) /\ Len(r) = Len(o) - (q - p)
        /\ \A i \in 1 .. q - p : k[i] = o[i]
        /\ \A i \in 1 .. Len(o) - (q - p) : r[i] = o[q - p + i]
        /\ LinesOf[o] = LinesOf[k] \o LinesOf[r]
    BY <2>3, <2>4, Halves, LinesOfHalves, ZenonT(60)
  <2> HIDE DEF k, r
  <2>6. f = BeforeBlock(s)
    <3>1. \A i \in 1 .. p : f[i] = BeforeBlock(s)[i]
      BY <1>1, <1>3, <1>5, <1>10, <2>2, <2>3, SMTT(60)
    <3> QED BY <1>10, <2>3, <3>1, SeqEqual
  <2>7. LinesOf[k] = << >>
    <3>1. \A i \in 1 .. Len(k) : k[i] = NL
      <4> SUFFICES ASSUME NEW i \in 1 .. q - p PROVE k[i] = NL
        BY <2>5
      <4>1. i \in 1 .. Len(m) - p /\ p + i \in 1 .. Len(s) /\ p < p + i /\ p + i <= q
        BY <1>1, <1>3, <1>5, <2>2
      <4> QED BY <2>2, <2>3, <2>5, <4>1, ZenonT(60)
    <3> QED BY <2>5, <3>1, NoLines, PartsAre
  <2>8. r = AfterBlock(s)
    <3>1. Len(r) = Len(AfterBlock(s))
      BY <1>1, <1>3, <1>5, <1>11, <2>2, <2>3, <2>5
    <3>2. \A i \in 1 .. Len(r) : r[i] = AfterBlock(s)[i]
      <4> SUFFICES ASSUME NEW i \in 1 .. Len(s) - q PROVE r[i] = AfterBlock(s)[i]
        BY <1>11, <3>1
      <4>1. i \in 1 .. Len(o) - (q - p) /\ q - p + i \in 1 .. Len(m) - p /\ p + (q - p + i) = q + i
            /\ q + i \in 1 .. Len(s) /\ ~(q + i <= q)
        BY <1>1, <1>3, <1>5, <2>2, <2>3
      <4>2. r[i] = o[q - p + i] /\ o[q - p + i] = m[p + (q - p + i)]
        BY <2>3, <2>5, <4>1
      <4>3. m[q + i] = s[q + i]
        BY <2>2, <4>1
      <4> QED BY <1>11, <4>1, <4>2, <4>3
    <3> QED BY <1>11, <2>5, <3>1, <3>2, SeqEqual
  <2>9. LinesOf[r] \in Seq(Lines)
    BY <2>5, LinesOfStep
  <2>10. << >> \o LinesOf[r] = LinesOf[r]
    BY <2>9, ConcatEmptySeq
  <2>11. LinesOf[m] = LinesOf[BeforeBlock(s)] \o LinesOf[AfterBlock(s)]
    BY <2>3, <2>5, <2>6, <2>7, <2>8, <2>10
  <2>12. UserLines(s) = LinesOf[m]
    BY DEF UserLines, m
  <2> QED BY <2>11, <2>12
<1> QED BY <1>12, <1>13, <1>14, <1>15

(* A file in which no block is found is the user's text.                   *)
LEMMA NoneOutside ==
  ASSUME NEW s, RcIs(s), ~Found(s)
  PROVE  IsText(s) /\ UserLines(s) = LinesOf[s]
<1>1. s \in Seq(Parts) /\ Apart(s)
  BY DEF RcIs
<1>2. PICK p, b : Around(s, p, b)
  BY DEF RcIs
<1>3. b \in 0 .. 3
  BY <1>2 DEF Around
<1>4. \A i \in 1 .. Len(s) : s[i] \in User
  BY <1>1, <1>2, <1>3, WhereBlockIs
<1>5. UserLines(s) = LinesOf[s]
  BY <1>1, <1>4, UserLinesAlone, PartsAre
<1> QED BY <1>1, <1>4, <1>5 DEF IsText

(* Two texts, the first of which ends its line, are one. *)
LEMMA TextsJoin ==
  ASSUME NEW s, NEW t, IsText(s), IsText(t), Closed(s)
  PROVE  IsText(s \o t) /\ LinesOf[s \o t] = LinesOf[s] \o LinesOf[t]
         /\ (t # << >> /\ Closed(t) => Closed(s \o t))
<1>1. s \in Seq(Parts) /\ t \in Seq(Parts) /\ Len(s) \in Nat /\ Len(t) \in Nat
  BY DEF IsText
<1> DEFINE c == s \o t
<1>2. /\ c \in Seq(Parts) /\ Len(c) = Len(s) + Len(t)
      /\ \A i \in 1 .. Len(s) + Len(t) : c[i] = IF i <= Len(s) THEN s[i] ELSE t[i - Len(s)]
  BY <1>1, ConcatProperties
<1> HIDE DEF c
<1>3. \A i \in 1 .. Len(c) : c[i] \in User
  BY <1>1, <1>2 DEF IsText
<1>4. Apart(c)
  <2> SUFFICES ASSUME NEW i \in 1 .. Len(c) - 1, c[i] \in Lines PROVE c[i + 1] = NL
    BY DEF Apart
  <2>1. CASE i < Len(s)
    <3>1. c[i] = s[i] /\ c[i + 1] = s[i + 1] /\ i \in 1 .. Len(s) - 1
      BY <1>1, <1>2, <2>1
    <3> QED BY <3>1 DEF IsText, Apart
  <2>2. CASE i = Len(s)
    <3>1. c[i] = s[Len(s)] /\ s # << >>
      BY <1>1, <1>2, <2>2
    <3> QED BY <3>1 DEF Closed
  <2>3. CASE i > Len(s)
    <3>1. c[i] = t[i - Len(s)] /\ c[i + 1] = t[i + 1 - Len(s)] /\ i - Len(s) \in 1 .. Len(t) - 1
          /\ i + 1 - Len(s) = (i - Len(s)) + 1
      BY <1>1, <1>2, <2>3, SMTT(60)
    <3> QED BY <3>1 DEF IsText, Apart
  <2> QED BY <1>1, <2>1, <2>2, <2>3
<1>5. t # << >> /\ Closed(t) => Closed(c)
  <2> SUFFICES ASSUME t # << >>, Closed(t) PROVE c[Len(c)] \notin Lines
    BY DEF Closed
  <2>1. Len(t) > 0
    BY <1>1
  <2>2. c[Len(c)] = t[Len(t)]
    BY <1>1, <1>2, <2>1
  <2> QED BY <2>2 DEF Closed
<1>6. LinesOf[s \o t] = LinesOf[s] \o LinesOf[t]
  BY <1>1, LinesOfBoth
<1> QED BY <1>2, <1>3, <1>4, <1>5, <1>6 DEF IsText, c

(* A text is an rc file, without a block.                                  *)
LEMMA TextAlone ==
  ASSUME NEW s, IsText(s)
  PROVE  RcIs(s) /\ OneBlockAtMost(s)
<1>1. s \in Seq(Parts) /\ Apart(s) /\ \A i \in 1 .. Len(s) : s[i] \in User
  BY DEF IsText
<1>2. Around(s, 0, 0)
  BY <1>1 DEF Around
<1>3. {i \in DOMAIN s : s[i] \in {Start, Source, End}} = {}
  <2>1. DOMAIN s = 1 .. Len(s)
    BY <1>1
  <2> QED BY <1>1, <2>1, PartsAre
<1> QED BY <1>1, <1>2, <1>3 DEF RcIs, OneBlockAtMost

(* The block is its three parts.                                           *)
LEMMA BlockIs == Block \in Seq(Parts) /\ Len(Block) = 3 /\ Block[1] = Start /\ Block[2] = Source /\ Block[3] = End
BY PartsAre DEF Block

(* Two texts with a block between them are an rc file with that one block. *)
LEMMA WithBlock ==
  ASSUME NEW s, NEW t, IsText(s), IsText(t), Closed(s)
  PROVE  LET r == s \o Block \o t IN
         RcIs(r) /\ OneBlockAtMost(r) /\ LinesOf[r] = LinesOf[s] \o LinesOf[t]
<1>1. s \in Seq(Parts) /\ t \in Seq(Parts) /\ Len(s) \in Nat /\ Len(t) \in Nat
  BY DEF IsText
<1> DEFINE u == s \o Block
           r == u \o t
           p == Len(s)
<1>2. /\ u \in Seq(Parts) /\ Len(u) = p + 3
      /\ \A i \in 1 .. p + 3 : u[i] = IF i <= p THEN s[i] ELSE Block[i - p]
  <2>1. /\ u \in Seq(Parts) /\ Len(u) = Len(s) + Len(Block)
        /\ \A i \in 1 .. Len(s) + Len(Block) : u[i] = IF i <= Len(s) THEN s[i] ELSE Block[i - Len(s)]
    BY <1>1, BlockIs, ConcatProperties
  <2> HIDE DEF u
  <2> QED BY <2>1, BlockIs
<1> HIDE DEF u
<1>3. /\ r \in Seq(Parts) /\ Len(r) = Len(u) + Len(t)
      /\ \A i \in 1 .. Len(u) + Len(t) : r[i] = IF i <= Len(u) THEN u[i] ELSE t[i - Len(u)]
  <2>1. u \in Seq(Parts)
    BY <1>2
  <2> QED BY <1>1, <2>1, ConcatProperties
<1> HIDE DEF r
<1>4. /\ Len(r) = p + 3 + Len(t)
      /\ \A i \in 1 .. p : r[i] = s[i]
      /\ r[p + 1] = Start /\ r[p + 2] = Source /\ r[p + 3] = End
      /\ \A i \in 1 .. Len(t) : r[p + 3 + i] = t[i]
  <2>1. \A i \in 1 .. p : r[i] = s[i]
    BY <1>1, <1>2, <1>3
  <2>2. r[p + 1] = Block[1] /\ r[p + 2] = Block[2] /\ r[p + 3] = Block[3]
    BY <1>1, <1>2, <1>3
  <2>3. \A i \in 1 .. Len(t) : r[p + 3 + i] = t[i]
    BY <1>1, <1>2, <1>3
  <2> QED BY <1>2, <1>3, <2>1, <2>2, <2>3, BlockIs
<1>5. \A i \in 1 .. Len(r) : i <= p \/ i > p + 3 => r[i] \in User
  <2> SUFFICES ASSUME NEW i \in 1 .. Len(r), i <= p \/ i > p + 3 PROVE r[i] \in User
    OBVIOUS
  <2>1. CASE i <= p
    BY <1>1, <1>4, <2>1 DEF IsText
  <2>2. CASE i > p + 3
    <3>1. i - (p + 3) \in 1 .. Len(t) /\ p + 3 + (i - (p + 3)) = i
      BY <1>1, <1>4, <2>2
    <3>2. r[i] = t[i - (p + 3)]
      BY <1>4, <3>1
    <3> QED BY <3>1, <3>2 DEF IsText
  <2> QED BY <2>1, <2>2
<1>6. Around(r, p, 3)
  BY <1>1, <1>4, <1>5 DEF Around
<1>7. Apart(r)
  <2> SUFFICES ASSUME NEW i \in 1 .. Len(r) - 1, r[i] \in Lines PROVE r[i + 1] = NL
    BY DEF Apart
  <2>1. CASE i < p
    <3>1. r[i] = s[i] /\ r[i + 1] = s[i + 1] /\ i \in 1 .. Len(s) - 1
      BY <1>1, <1>4, <2>1
    <3> QED BY <3>1 DEF IsText, Apart
  <2>2. CASE i = p
    <3>1. r[i] = s[Len(s)] /\ s # << >>
      BY <1>1, <1>4, <2>2
    <3> QED BY <3>1 DEF Closed
  <2>3. CASE i > p /\ i <= p + 3
    <3>1. i = p + 1 \/ i = p + 2 \/ i = p + 3
      BY <1>1, <2>3
    <3> QED BY <1>4, <3>1, PartsAre DEF User
  <2>4. CASE i > p + 3
    <3>1. i - (p + 3) \in 1 .. Len(t) - 1 /\ i + 1 - (p + 3) \in 1 .. Len(t)
          /\ p + 3 + (i - (p + 3)) = i /\ p + 3 + (i + 1 - (p + 3)) = i + 1
          /\ i + 1 - (p + 3) = (i - (p + 3)) + 1
      BY <1>1, <1>4, <2>4, SMTT(60)
    <3>2. r[i] = t[i - (p + 3)] /\ r[i + 1] = t[i + 1 - (p + 3)]
      <4>1. \A j, k : j \in 1 .. Len(t) /\ p + 3 + j = k => r[k] = t[j]
        BY <1>4
      <4>2. i - (p + 3) \in 1 .. Len(t)
        BY <1>1, <3>1
      <4> QED BY <3>1, <4>1, <4>2
    <3> QED BY <3>1, <3>2 DEF IsText, Apart
  <2> QED BY <1>1, <2>1, <2>2, <2>3, <2>4
<1>8. OneBlockAtMost(r)
  <2> DEFINE marks == {i \in DOMAIN r : r[i] \in {Start, Source, End}}
  <2>1. DOMAIN r = 1 .. Len(r)
    BY <1>3
  <2>2. \A i \in 1 .. Len(r) : r[i] \in {Start, Source, End} <=> i \in p + 1 .. p + 3
    <3> SUFFICES ASSUME NEW i \in 1 .. Len(r)
                 PROVE  r[i] \in {Start, Source, End} <=> i \in p + 1 .. p + 3
      OBVIOUS
    <3>1. CASE i <= p \/ i > p + 3
      BY <1>1, <1>5, <3>1, PartsAre
    <3>2. CASE ~(i <= p \/ i > p + 3)
      <4>1. i = p + 1 \/ i = p + 2 \/ i = p + 3
        BY <1>1, <3>2
      <4> QED BY <1>1, <1>4, <4>1
    <3> QED BY <3>1, <3>2
  <2>3. p + 1 .. p + 3 \subseteq 1 .. Len(r)
    BY <1>1, <1>4
  <2>4. marks = p + 1 .. p + 3
    BY <2>1, <2>2, <2>3
  <2> DEFINE b == SubSeq(r, p + 1, p + 3)
  <2>5. b = Block
    <3>1. p + 1 \in Int /\ p + 3 \in Int /\ \A i \in p + 1 .. p + 3 : r[i] \in Parts
      BY <1>1, <1>3, <2>3
    <3>2. b \in Seq(Parts) /\ Len(b) = 3 /\ \A i \in 1 .. 3 : b[i] = r[p + i]
      <4> DEFINE k == p + 1
                 l == p + 3
      <4> HIDE DEF k, l
      <4>1. k \in Int /\ l \in Int /\ \A i \in k .. l : r[i] \in Parts
        BY <3>1 DEF k, l
      <4>2. /\ SubSeq(r, k, l) \in Seq(Parts) /\ Len(SubSeq(r, k, l)) = IF k <= l THEN l - k + 1 ELSE 0
            /\ \A i \in 1 .. l - k + 1 : SubSeq(r, k, l)[i] = r[k + i - 1]
        BY <4>1, SubSeqProperties
      <4>3. b = SubSeq(r, k, l)
        BY DEF k, l
      <4> HIDE DEF b
      <4> QED BY <1>1, <4>2, <4>3 DEF k, l
    <3> HIDE DEF b
    <3>3. \A i \in 1 .. 3 : b[i] = Block[i]
      BY <1>1, <1>4, <3>2, BlockIs
    <3> QED BY <3>2, <3>3, BlockIs, SeqEqual
  <2>6. p + 1 \in DOMAIN r /\ (p + 1) + 2 = p + 3
    BY <1>1, <2>1, <2>3
  <2> HIDE DEF marks, b
  <2> QED BY <2>4, <2>5, <2>6 DEF OneBlockAtMost, marks, b
<1>9. LinesOf[r] = LinesOf[s] \o LinesOf[t]
  <2>1. LinesOf[r] = LinesOf[u] \o LinesOf[t]
    BY <1>1, <1>2, LinesOfBoth DEF r
  <2>2. LinesOf[u] = LinesOf[s] \o LinesOf[Block]
    BY <1>1, BlockIs, LinesOfBoth DEF u
  <2>3. LinesOf[Block] = << >>
    <3>1. \A i \in 1 .. Len(Block) : Block[i] \notin Lines
      <4>1. \A i \in 1 .. 3 : i = 1 \/ i = 2 \/ i = 3
        OBVIOUS
      <4> QED BY <4>1, BlockIs, PartsAre DEF User
    <3> QED BY <3>1, BlockIs, NoLines
  <2>4. LinesOf[s] \o << >> = LinesOf[s]
    <3>1. LinesOf[s] \in Seq(Lines)
      BY <1>1, LinesOfStep
    <3> QED BY <3>1, ConcatEmptySeq
  <2> QED BY <2>1, <2>2, <2>3, <2>4
<1> QED BY <1>3, <1>6, <1>7, <1>8, <1>9 DEF RcIs, r, u

(* A part of a text is a text.                                             *)
LEMMA TextPart ==
  ASSUME NEW s, IsText(s), NEW m \in 0 .. Len(s)
  PROVE  IsText(SubSeq(s, 1, m)) /\ IsText(SubSeq(s, m + 1, Len(s)))
<1>1. s \in Seq(Parts) /\ Len(s) \in Nat
  BY DEF IsText
<1> DEFINE a == SubSeq(s, 1, m)
           b == SubSeq(s, m + 1, Len(s))
<1>2. /\ a \in Seq(Parts) /\ Len(a) = m /\ \A i \in 1 .. m : a[i] = s[i]
      /\ b \in Seq(Parts) /\ Len(b) = Len(s) - m /\ \A i \in 1 .. Len(s) - m : b[i] = s[m + i]
  BY <1>1, Halves
<1> HIDE DEF a, b
<1>3. IsText(a)
  BY <1>1, <1>2 DEF IsText, Apart
<1>4. IsText(b)
  <2>1. \A i \in 1 .. Len(b) : b[i] \in User
    BY <1>1, <1>2 DEF IsText
  <2>2. Apart(b)
    <3> SUFFICES ASSUME NEW i \in 1 .. Len(b) - 1, b[i] \in Lines PROVE b[i + 1] = NL
      BY DEF Apart
    <3>1. i \in 1 .. Len(s) - m /\ i + 1 \in 1 .. Len(s) - m /\ m + i \in 1 .. Len(s) - 1 /\ m + (i + 1) = (m + i) + 1
      BY <1>1, <1>2
    <3>2. b[i] = s[m + i] /\ b[i + 1] = s[(m + i) + 1]
      BY <1>2, <3>1
    <3> QED BY <3>1, <3>2 DEF IsText, Apart
  <2> QED BY <1>2, <2>1, <2>2 DEF IsText
<1> QED BY <1>3, <1>4 DEF a, b

(* A text made to end its line. *)
LEMMA Ended ==
  ASSUME NEW s, IsText(s)
  PROVE  IsText(s \o <<NL>>) /\ Closed(s \o <<NL>>) /\ LinesOf[s \o <<NL>>] = LinesOf[s]
<1> DEFINE n == <<NL>>
           c == s \o n
<1>1. s \in Seq(Parts) /\ Len(s) \in Nat
  BY DEF IsText
<1>2. n \in Seq(Parts) /\ Len(n) = 1 /\ n[1] = NL
  BY DEF Parts
<1> HIDE DEF n
<1>3. /\ c \in Seq(Parts) /\ Len(c) = Len(s) + Len(n)
      /\ \A i \in 1 .. Len(s) + Len(n) : c[i] = IF i <= Len(s) THEN s[i] ELSE n[i - Len(s)]
  BY <1>1, <1>2, ConcatProperties
<1> HIDE DEF c
<1>4. Len(c) = Len(s) + 1 /\ c[Len(s) + 1] = NL /\ \A i \in 1 .. Len(s) : c[i] = s[i]
  BY <1>1, <1>2, <1>3
<1>5. Closed(c)
  BY <1>4, PartsAre DEF Closed
<1>6. IsText(c)
  <2>1. \A i \in 1 .. Len(c) : c[i] \in User
    <3> SUFFICES ASSUME NEW i \in 1 .. Len(c) PROVE c[i] \in User
      OBVIOUS
    <3>1. i \in 1 .. Len(s) \/ i = Len(s) + 1
      BY <1>1, <1>4
    <3> QED BY <1>4, <3>1 DEF IsText, User
  <2>2. Apart(c)
    <3> SUFFICES ASSUME NEW i \in 1 .. Len(s), c[i] \in Lines PROVE c[i + 1] = NL
      BY <1>1, <1>4 DEF Apart
    <3>1. i = Len(s) \/ (i \in 1 .. Len(s) - 1 /\ c[i + 1] = s[i + 1])
      BY <1>1, <1>4
    <3> QED BY <1>4, <3>1 DEF IsText, Apart
  <2> QED BY <1>3, <2>1, <2>2 DEF IsText
<1>7. LinesOf[c] = LinesOf[s]
  <2>1. LinesOf[s \o n] = LinesOf[s] \o LinesOf[n]
    BY <1>1, <1>2, LinesOfBoth
  <2>2. LinesOf[n] = << >>
    BY <1>2, NoLines, PartsAre
  <2>3. LinesOf[s] \in Seq(Lines)
    BY <1>1, LinesOfStep
  <2>4. LinesOf[s] \o << >> = LinesOf[s]
    BY <2>3, ConcatEmptySeq
  <2> QED BY <2>1, <2>2, <2>4 DEF c
<1> QED BY <1>5, <1>6, <1>7 DEF c, n

(* So is nothing.                                                          *)
LEMMA EmptyText == IsText(<< >>) /\ Closed(<< >>) /\ LinesOf[<< >>] = << >>
<1>1. << >> \in Seq(Parts) /\ Len(<< >>) = 0
  BY EmptySeq
<1>2. LinesOf[<< >>] = << >>
  BY <1>1, LinesOfStep
<1>3. (\A i \in 1 .. Len(<< >>) : << >>[i] \in User) /\ Apart(<< >>)
  BY <1>1 DEF Apart
<1> QED BY <1>1, <1>2, <1>3 DEF IsText, Closed

(* Newlines alone hold no lines.                                           *)
LEMMA NoText ==
  ASSUME NEW s, IsText(s), Text(s) = {}
  PROVE  LinesOf[s] = << >>
<1>1. s \in Seq(Parts) /\ DOMAIN s = 1 .. Len(s)
  BY DEF IsText
<1>2. \A i \in 1 .. Len(s) : s[i] = NL
  BY <1>1 DEF Text
<1> QED BY <1>1, <1>2, NoLines, PartsAre

(* Trimming newlines at the end keeps the lines.                           *)
LEMMA TrimRightIs ==
  ASSUME NEW s, IsText(s)
  PROVE  IsText(TrimRight(s)) /\ LinesOf[TrimRight(s)] = LinesOf[s]
<1>1. s \in Seq(Parts) /\ Len(s) \in Nat /\ DOMAIN s = 1 .. Len(s)
  BY DEF IsText
<1>2. CASE Text(s) = {}
  BY <1>2, NoText, EmptyText DEF TrimRight
<1>3. CASE Text(s) # {}
  <2> DEFINE m == Max(Text(s))
             b == SubSeq(s, m + 1, Len(s))
  <2>1. m \in 1 .. Len(s) /\ \A i \in 1 .. Len(s) : s[i] # NL => i <= m
    <3>1. Text(s) \subseteq 0 .. Len(s) /\ Text(s) \subseteq 1 .. Len(s)
      BY <1>1 DEF Text
    <3>2. m \in Text(s) /\ \A i \in Text(s) : i <= m
      BY <1>1, <1>3, <3>1, MaxIs
    <3> HIDE DEF m
    <3> QED BY <1>1, <3>1, <3>2 DEF Text
  <2>2. TrimRight(s) = SubSeq(s, 1, m)
    BY <1>3 DEF TrimRight
  <2> HIDE DEF m
  <2>3. m \in 0 .. Len(s)
    BY <2>1
  <2>4. IsText(SubSeq(s, 1, m)) /\ b \in Seq(Parts) /\ Len(b) = Len(s) - m
        /\ \A i \in 1 .. Len(s) - m : b[i] = s[m + i]
    BY <1>1, <2>3, TextPart, Halves
  <2>5. \A i \in 1 .. Len(b) : b[i] = NL
    <3> SUFFICES ASSUME NEW i \in 1 .. Len(s) - m PROVE s[m + i] = NL
      BY <2>4
    <3>1. m + i \in 1 .. Len(s) /\ ~(m + i <= m)
      BY <1>1, <2>1
    <3> QED BY <2>1, <3>1
  <2>6. LinesOf[b] = << >>
    <3> HIDE DEF b
    <3> QED BY <2>4, <2>5, NoLines, PartsAre
  <2>7. LinesOf[s] = LinesOf[SubSeq(s, 1, m)] \o LinesOf[b]
    BY <1>1, <2>3, LinesOfHalves
  <2>8. LinesOf[SubSeq(s, 1, m)] \o << >> = LinesOf[SubSeq(s, 1, m)]
    <3> DEFINE a == SubSeq(s, 1, m)
    <3>1. LinesOf[a] \in Seq(Lines)
      BY <2>4, LinesOfStep DEF IsText
    <3> HIDE DEF a
    <3>2. LinesOf[a] \o << >> = LinesOf[a]
      BY <3>1, ConcatEmptySeq
    <3> QED BY <3>2 DEF a
  <2> QED BY <2>2, <2>4, <2>6, <2>7, <2>8
<1> QED BY <1>2, <1>3

(* And at the beginning.                                                   *)
LEMMA TrimLeftIs ==
  ASSUME NEW s, IsText(s)
  PROVE  IsText(TrimLeft(s)) /\ LinesOf[TrimLeft(s)] = LinesOf[s]
<1>1. s \in Seq(Parts) /\ Len(s) \in Nat /\ DOMAIN s = 1 .. Len(s)
  BY DEF IsText
<1>2. CASE Text(s) = {}
  BY <1>2, NoText, EmptyText DEF TrimLeft
<1>3. CASE Text(s) # {}
  <2> DEFINE m == Min(Text(s)) - 1
             a == SubSeq(s, 1, m)
             b == SubSeq(s, m + 1, Len(s))
  <2>1. m \in 0 .. Len(s) - 1 /\ (\A i \in 1 .. m : s[i] = NL) /\ Min(Text(s)) = m + 1
    <3>1. Text(s) \subseteq Nat /\ Text(s) \subseteq 1 .. Len(s)
      BY <1>1 DEF Text
    <3>2. Min(Text(s)) \in Text(s) /\ \A i \in Text(s) : Min(Text(s)) <= i
      BY <1>3, <3>1, MinIs
    <3>3. Min(Text(s)) \in 1 .. Len(s)
      BY <3>1, <3>2
    <3>4. ASSUME NEW i \in 1 .. m PROVE s[i] = NL
      <4>1. i \in 1 .. Len(s) /\ ~(Min(Text(s)) <= i)
        BY <1>1, <3>3
      <4> QED BY <1>1, <3>2, <4>1 DEF Text
    <3> QED BY <1>1, <3>3, <3>4
  <2>2. TrimLeft(s) = b
    BY <1>3, <2>1 DEF TrimLeft
  <2> HIDE DEF m
  <2>3. m \in 0 .. Len(s)
    BY <1>1, <2>1
  <2>4. IsText(b) /\ a \in Seq(Parts) /\ Len(a) = m /\ \A i \in 1 .. m : a[i] = s[i]
    BY <1>1, <2>3, TextPart, Halves
  <2>5. LinesOf[s] = LinesOf[a] \o LinesOf[b]
    BY <1>1, <2>3, LinesOfHalves
  <2> HIDE DEF a, b
  <2>6. LinesOf[a] = << >>
    <3>1. \A i \in 1 .. Len(a) : a[i] = NL
      BY <2>1, <2>4
    <3> QED BY <2>4, <3>1, NoLines, PartsAre
  <2>7. LinesOf[b] \in Seq(Lines)
    BY <2>4, LinesOfStep DEF IsText
  <2>8. << >> \o LinesOf[b] = LinesOf[b]
    BY <2>7, ConcatEmptySeq
  <2> QED BY <2>2, <2>4, <2>5, <2>6, <2>8
<1> QED BY <1>2, <1>3

(* Installing completion leaves one whole block and the user's lines.      *)
LEMMA InstalledIs ==
  ASSUME NEW s, RcIs(s)
  PROVE  RcIs(Installed(s)) /\ OneBlockAtMost(Installed(s)) /\ LinesOf[Installed(s)] = UserLines(s)
<1>1. CASE Found(s)
  <2>1. Installed(s) = BeforeBlock(s) \o Block \o AfterBlock(s)
    BY <1>1 DEF Installed, Rewritten, BeforeBlock, AfterBlock
  <2>2. /\ IsText(BeforeBlock(s)) /\ Closed(BeforeBlock(s)) /\ IsText(AfterBlock(s))
        /\ UserLines(s) = LinesOf[BeforeBlock(s)] \o LinesOf[AfterBlock(s)]
    BY <1>1, BlockSplits
  <2> DEFINE f == BeforeBlock(s)
             r == AfterBlock(s)
  <2> HIDE DEF f, r
  <2>3. IsText(f) /\ Closed(f) /\ IsText(r) /\ UserLines(s) = LinesOf[f] \o LinesOf[r]
    BY <2>2 DEF f, r
  <2>4. RcIs(f \o Block \o r) /\ OneBlockAtMost(f \o Block \o r) /\ LinesOf[f \o Block \o r] = LinesOf[f] \o LinesOf[r]
    BY <2>3, WithBlock
  <2>5. Installed(s) = f \o Block \o r
    BY <2>1 DEF f, r
  <2> QED BY <2>3, <2>4, <2>5
<1>2. CASE ~Found(s)
  <2> DEFINE u == s \o (IF EndsLine(s) THEN << >> ELSE <<NL>>)
             v == u \o (IF s = << >> THEN << >> ELSE <<NL>>)
  <2>1. IsText(s) /\ UserLines(s) = LinesOf[s]
    BY <1>2, NoneOutside
  <2>2. Installed(s) = v \o Block
    BY <1>2 DEF Installed
  <2>3. IsText(u) /\ LinesOf[u] = LinesOf[s]
    <3>1. CASE EndsLine(s)
      <4>1. u = s
        BY <2>1, <3>1, ConcatEmptySeq DEF IsText
      <4> QED BY <2>1, <4>1
    <3>2. CASE ~EndsLine(s)
      <4>1. u = s \o <<NL>>
        BY <3>2
      <4> QED BY <2>1, <4>1, Ended
    <3> QED BY <3>1, <3>2
  <2>4. IsText(v) /\ Closed(v) /\ LinesOf[v] = LinesOf[s]
    <3>1. CASE s = << >>
      <4>1. EndsLine(s)
        BY <3>1 DEF EndsLine
      <4>2. v = << >>
        BY <3>1, <4>1
      <4> QED BY <3>1, <4>2, EmptyText
    <3>2. CASE s # << >>
      <4> HIDE DEF u
      <4>1. v = u \o <<NL>>
        BY <3>2
      <4> QED BY <2>3, <4>1, Ended
    <3> QED BY <3>1, <3>2
  <2> HIDE DEF u, v
  <2>5. /\ RcIs(v \o Block \o << >>) /\ OneBlockAtMost(v \o Block \o << >>)
        /\ LinesOf[v \o Block \o << >>] = LinesOf[v] \o LinesOf[<< >>]
    BY <2>4, EmptyText, WithBlock
  <2>6. v \o Block \o << >> = v \o Block
    <3>1. v \in Seq(Parts)
      BY <2>4 DEF IsText
    <3>2. v \o Block \in Seq(Parts)
      BY <3>1, BlockIs, ConcatProperties
    <3> DEFINE w == v \o Block
    <3> HIDE DEF w
    <3>3. w \o << >> = w
      BY <3>2, ConcatEmptySeq DEF w
    <3> QED BY <3>3 DEF w
  <2>7. LinesOf[v] \o LinesOf[<< >>] = LinesOf[v]
    <3>1. LinesOf[v] \in Seq(Lines)
      BY <2>4, LinesOfStep DEF IsText
    <3>2. LinesOf[v] \o << >> = LinesOf[v]
      BY <3>1, ConcatEmptySeq
    <3> QED BY <3>2, EmptyText
  <2> QED BY <2>1, <2>2, <2>4, <2>5, <2>6, <2>7
<1> QED BY <1>1, <1>2

(* Uninstalling it leaves the user's lines alone.                          *)
LEMMA RemovedIs ==
  ASSUME NEW s, RcIs(s), Found(s)
  PROVE  IsText(Removed(s)) /\ LinesOf[Removed(s)] = UserLines(s)
<1> DEFINE f == TrimRight(BeforeBlock(s))
           r == TrimLeft(AfterBlock(s))
<1>1. /\ IsText(BeforeBlock(s)) /\ IsText(AfterBlock(s))
      /\ UserLines(s) = LinesOf[BeforeBlock(s)] \o LinesOf[AfterBlock(s)]
  BY BlockSplits
<1>2. IsText(f) /\ IsText(r) /\ UserLines(s) = LinesOf[f] \o LinesOf[r]
  BY <1>1, TrimRightIs, TrimLeftIs
<1>3. Removed(s) = IF f = << >> THEN r ELSE IF r = << >> THEN f ELSE f \o <<NL>> \o r
  BY DEF Removed, BeforeBlock, AfterBlock
<1> HIDE DEF f, r
<1>4. LinesOf[f] \in Seq(Lines) /\ LinesOf[r] \in Seq(Lines)
  BY <1>2, LinesOfStep DEF IsText
<1>5. LinesOf[f] \o << >> = LinesOf[f] /\ << >> \o LinesOf[r] = LinesOf[r]
  BY <1>4, ConcatEmptySeq
<1>6. CASE f = << >>
  <2>1. UserLines(s) = LinesOf[r]
    BY <1>2, <1>5, <1>6, EmptyText
  <2> QED BY <1>2, <1>3, <1>6, <2>1
<1>7. CASE f # << >> /\ r = << >>
  <2>1. UserLines(s) = LinesOf[f]
    BY <1>2, <1>5, <1>7, EmptyText
  <2> QED BY <1>2, <1>3, <1>7, <2>1
<1>8. CASE f # << >> /\ r # << >>
  <2> DEFINE g == f \o <<NL>>
  <2>1. IsText(g) /\ Closed(g) /\ LinesOf[g] = LinesOf[f]
    BY <1>2, Ended
  <2>2. Removed(s) = g \o r
    BY <1>3, <1>8
  <2> HIDE DEF g
  <2>3. IsText(g \o r) /\ LinesOf[g \o r] = LinesOf[g] \o LinesOf[r]
    BY <1>2, <2>1, TextsJoin
  <2> QED BY <1>2, <2>1, <2>2, <2>3
<1> QED BY <1>6, <1>7, <1>8

(* What an interrupted write leaves is an rc file.                         *)
LEMMA PrefixIs ==
  ASSUME NEW s, RcIs(s), NEW n \in 0 .. Len(s)
  PROVE  RcIs(SubSeq(s, 1, n))
<1> DEFINE t == SubSeq(s, 1, n)
<1>1. s \in Seq(Parts) /\ Len(s) \in Nat /\ Apart(s)
  BY DEF RcIs
<1>2. PICK p, b : Around(s, p, b)
  BY DEF RcIs
<1>3. t \in Seq(Parts) /\ Len(t) = n /\ \A i \in 1 .. n : t[i] = s[i]
  BY <1>1, Halves
<1> HIDE DEF t
<1>4. Apart(t)
  BY <1>1, <1>3 DEF Apart
<1>5. p \in Nat /\ b \in 0 .. 3 /\ p + b <= Len(s)
  BY <1>2 DEF Around
<1>6. CASE n <= p
  <2>1. Around(t, n, 0)
    BY <1>2, <1>3, <1>5, <1>6 DEF Around
  <2> QED BY <1>3, <1>4, <2>1 DEF RcIs, t
<1>7. CASE p < n /\ n <= p + b
  <2> DEFINE c == n - p
  <2>1. c \in 1 .. 3 /\ c <= b /\ p + c = n
    BY <1>5, <1>7
  <2>2. /\ t[p + 1] = s[p + 1] /\ (c >= 2 => t[p + 2] = s[p + 2]) /\ (c = 3 => t[p + 3] = s[p + 3])
    BY <1>3, <1>5, <2>1
  <2>3. \A i \in 1 .. n : i <= p \/ i > p + c => t[i] \in User
    BY <1>1, <1>2, <1>3, <1>5, <2>1 DEF Around
  <2>4. Around(t, p, c)
    BY <1>2, <1>3, <1>5, <2>1, <2>2, <2>3, SMTT(60) DEF Around
  <2> QED BY <1>3, <1>4, <2>4 DEF RcIs, t
<1>8. CASE p + b < n
  <2>1. /\ (b >= 1 => t[p + 1] = s[p + 1]) /\ (b >= 2 => t[p + 2] = s[p + 2]) /\ (b = 3 => t[p + 3] = s[p + 3])
    BY <1>3, <1>5, <1>8
  <2>2. \A i \in 1 .. n : i <= p \/ i > p + b => t[i] \in User
    BY <1>1, <1>2, <1>3, <1>5, <1>8 DEF Around
  <2>3. Around(t, p, b)
    BY <1>2, <1>3, <1>5, <1>8, <2>1, <2>2 DEF Around
  <2> QED BY <1>3, <1>4, <2>3 DEF RcIs, t
<1> QED BY <1>1, <1>5, <1>6, <1>7, <1>8 DEF t

(* One more element at the end of the file. *)
LEMMA AddedIs ==
  ASSUME NEW s, RcIs(s), NEW e \in User, s # << >> => (s[Len(s)] \in Lines => e = NL)
  PROVE  RcIs(s \o <<e>>) /\ s \o <<e>> # << >> /\ Last(s \o <<e>>) = e
<1> DEFINE n == <<e>>
           c == s \o n
<1>1. s \in Seq(Parts) /\ Len(s) \in Nat /\ Apart(s)
  BY DEF RcIs
<1>2. n \in Seq(Parts) /\ Len(n) = 1 /\ n[1] = e
  BY PartsAre
<1>3. PICK p, b : Around(s, p, b)
  BY DEF RcIs
<1> HIDE DEF n
<1>4. /\ c \in Seq(Parts) /\ Len(c) = Len(s) + Len(n)
      /\ \A i \in 1 .. Len(s) + Len(n) : c[i] = IF i <= Len(s) THEN s[i] ELSE n[i - Len(s)]
  BY <1>1, <1>2, ConcatProperties
<1> HIDE DEF c
<1>5. Len(c) = Len(s) + 1 /\ c[Len(s) + 1] = e /\ \A i \in 1 .. Len(s) : c[i] = s[i]
  BY <1>1, <1>2, <1>4
<1>6. Apart(c)
  <2> SUFFICES ASSUME NEW i \in 1 .. Len(s), c[i] \in Lines PROVE c[i + 1] = NL
    BY <1>1, <1>5 DEF Apart
  <2>1. CASE i = Len(s)
    BY <1>1, <1>5, <2>1
  <2>2. CASE i # Len(s)
    <3>1. i \in 1 .. Len(s) - 1 /\ i + 1 \in 1 .. Len(s)
      BY <1>1, <2>2
    <3> QED BY <1>1, <1>5, <3>1 DEF Apart
  <2> QED BY <2>1, <2>2
<1>7. Around(c, p, b)
  <2>1. p \in Nat /\ b \in 0 .. 3 /\ p + b <= Len(s)
    BY <1>3 DEF Around
  <2>2. /\ (b >= 1 => c[p + 1] = s[p + 1]) /\ (b >= 2 => c[p + 2] = s[p + 2]) /\ (b = 3 => c[p + 3] = s[p + 3])
    BY <1>1, <1>5, <2>1
  <2>3. \A i \in 1 .. Len(c) : i <= p \/ i > p + b => c[i] \in User
    <3> SUFFICES ASSUME NEW i \in 1 .. Len(c), i <= p \/ i > p + b PROVE c[i] \in User
      OBVIOUS
    <3>1. i \in 1 .. Len(s) \/ i = Len(s) + 1
      BY <1>1, <1>5
    <3> QED BY <1>3, <1>5, <3>1 DEF Around
  <2> QED BY <1>1, <1>3, <1>5, <2>1, <2>2, <2>3 DEF Around
<1>8. c # << >> /\ Last(c) = e
  BY <1>1, <1>4, <1>5 DEF Last
<1> QED BY <1>4, <1>6, <1>7, <1>8 DEF RcIs, c, n

RcOK == RcIs(rc)

(* The rc file starts empty.                                               *)
LEMMA RcInit == SetupInit => RcOK
BY EmptyText, TextAlone DEF SetupInit, RcOK

(* The user's own lines leave it one.                                      *)
LEMMA UserWritesKeeps ==
  ASSUME RcOK, UserWrites
  PROVE  RcOK'
<1>1. PICK l \in Lines, more \in {<<NL>>, << >>} : rc' = rc \o (IF EndsLine(rc) THEN << >> ELSE <<NL>>) \o <<l>> \o more
  BY DEF UserWrites
<1>2. l \in User /\ NL \in User
  BY DEF User
<1> DEFINE s == rc \o (IF EndsLine(rc) THEN << >> ELSE <<NL>>)
           t == s \o <<l>>
<1>3. RcIs(s) /\ (s # << >> => s[Len(s)] \notin Lines)
  <2>1. CASE EndsLine(rc)
    <3>1. s = rc
      BY <2>1, ConcatEmptySeq DEF RcOK, RcIs
    <3>2. rc # << >> => rc[Len(rc)] \notin Lines
      BY <2>1, PartsAre DEF EndsLine, Last, User
    <3> QED BY <3>1, <3>2 DEF RcOK
  <2>2. CASE ~EndsLine(rc)
    <3>1. s = rc \o <<NL>>
      BY <2>2
    <3>2. RcIs(rc \o <<NL>>) /\ Last(rc \o <<NL>>) = NL
      BY <1>2, AddedIs DEF RcOK
    <3> QED BY <3>1, <3>2, PartsAre DEF Last
  <2> QED BY <2>1, <2>2
<1> HIDE DEF s
<1>4. RcIs(t) /\ t # << >>
  BY <1>2, <1>3, AddedIs
<1> HIDE DEF t
<1>5. RcIs(t \o <<NL>>)
  BY <1>2, <1>4, AddedIs
<1>6. t \o << >> = t
  BY <1>4, ConcatEmptySeq DEF RcIs
<1>7. rc' = t \o more
  BY <1>1 DEF t, s
<1>8. CASE more = <<NL>>
  BY <1>5, <1>7, <1>8 DEF RcOK
<1>9. CASE more = << >>
  BY <1>4, <1>6, <1>7, <1>9 DEF RcOK
<1> QED BY <1>8, <1>9

(* And so does every command.                                              *)
LEMMA RcSteps ==
  ASSUME RcOK, [UnitsNext \/ CompletionNext]_setup
  PROVE  RcOK'
<1>1. CASE CompletionInstall
  BY <1>1, InstalledIs DEF CompletionInstall, RcOK
<1>2. CASE CompletionUninstall
  <2>1. Found(rc) => RcIs(Removed(rc))
    BY RemovedIs, TextAlone DEF RcOK
  <2> QED BY <1>2, <2>1 DEF CompletionUninstall, RcOK
<1>3. CASE CompletionInterrupted
  <2>1. PICK new \in {Installed(rc)} \cup (IF Found(rc) THEN {Removed(rc)} ELSE {}) :
          \E n \in 0 .. Len(new) : rc' = SubSeq(new, 1, n)
    BY <1>3 DEF CompletionInterrupted
  <2>2. RcIs(new)
    BY <2>1, InstalledIs, RemovedIs, TextAlone DEF RcOK
  <2> QED BY <2>1, <2>2, PrefixIs DEF RcOK
<1>4. CASE UserWrites
  BY <1>4, UserWritesKeeps
<1>5. CASE UnitsNext
  <2>1. rc' = rc
    BY <1>5 DEF UnitsNext, Install, RemoveOne, Uninstall, One, Begin, Confirm, Write, Reload, Enable, Disable,
                Delete, Return, Interrupt
  <2> QED BY <2>1 DEF RcOK
<1>6. CASE UNCHANGED setup
  BY <1>6 DEF setup, RcOK
<1> QED BY <1>1, <1>2, <1>3, <1>4, <1>5, <1>6 DEF CompletionNext

(* What a command that is not interrupted does to it.                      *)
LEMMA RcCommandKeeps ==
  ASSUME RcOK, RcCommand
  PROVE  /\ LinesOf[rc'] = UserLines(rc)
         /\ \A i \in 1 .. Len(rc') - 1 : rc'[i] \in Lines => rc'[i + 1] = NL
         /\ OneBlockAtMost(rc')
<1>1. RcIs(rc') /\ OneBlockAtMost(rc') /\ LinesOf[rc'] = UserLines(rc)
  <2>1. CASE rc' = Installed(rc)
    BY <2>1, InstalledIs DEF RcOK
  <2>2. CASE Found(rc) /\ rc' = Removed(rc)
    BY <2>2, RemovedIs, TextAlone DEF RcOK
  <2> QED BY <2>1, <2>2 DEF RcCommand
<1> QED BY <1>1 DEF RcIs, Apart

(* completion install and its --uninstall, one that is not cut off itself, *)
(* keep the user's lines outside the block, in order and apart, and leave  *)
(* one whole block or none (applyCompBlock, installCompletion): for rc     *)
(* files of any length, whatever lines the user added and wherever earlier *)
(* writes of the file were cut off.                                        *)
THEOREM UserTextIsKept == SetupSpec => UserTextKept
<1>1. SetupInit => RcOK
  BY RcInit
<1>2. RcOK /\ [UnitsNext \/ CompletionNext]_setup => RcOK'
  BY RcSteps
<1>3. RcOK => [RcCommand =>
         /\ LinesOf[rc'] = UserLines(rc)
         /\ \A i \in 1 .. Len(rc') - 1 : rc'[i] \in Lines => rc'[i + 1] = NL
         /\ OneBlockAtMost(rc')]_rc
  BY RcCommandKeeps
<1> QED BY <1>1, <1>2, <1>3, PTL DEF SetupSpec, UserTextKept

-----------------------------------------------------------------------------
(* The commands together. *)

(* What is parsed so far are options, of an argument list that is one.     *)
CommandOK == LineOK /\ opts \in Options

(* The defaults are options.                                               *)
LEMMA DefaultsType == Defaults \in Options
BY EmptySeq DEF Defaults, Options

(* At the start.                                                           *)
LEMMA CommandInit == Init => CommandOK
BY LineInit, DefaultsType DEF Init, CommandOK

(* After every step.                                                       *)
LEMMA CommandSteps ==
  ASSUME CommandOK, [Next]_vars
  PROVE  CommandOK'
<1>1. LineOK'
  BY LineSteps DEF CommandOK
<1>2. CASE Main
  <2> DEFINE r == NormalizeSingleDash[Expand[argv]]
  <2>1. r \in Seq(Arguments)
    BY ExpandDef, NormalizeSingleDashDef DEF CommandOK, LineOK
  <2> HIDE DEF r
  <2>2. rewritten' = <<r>> /\ opts' = Parse[rewritten'[1]][Defaults]
    BY <1>2 DEF Main, r
  <2>3. opts' = Parse[r][Defaults]
    BY <2>2
  <2>4. opts' \in Options
    BY <2>1, <2>3, DefaultsType, ParseType
  <2> QED BY <1>1, <2>4 DEF CommandOK
<1>3. CASE RunE
  BY <1>1, <1>3, DefaultsType DEF RunE, CommandOK
<1>4. CASE UNCHANGED line
  BY <1>1, <1>4 DEF line, CommandOK
<1> QED BY <1>2, <1>3, <1>4 DEF Next, SuiteNext, SetupNext, vars, line

(* The client that a command line starts is one that Suite starts.         *)
LEMMA RunEIsSuite ==
  ASSUME CommandOK, RunE
  PROVE  SuiteStep
<1>1. /\ \A p \in Protocols : p \in SUBSET Texts
      /\ \A b \in Bases : b \in Nat
      /\ \A f \in Forwards : f \in ForwardConf
  BY CommandAssumption
<1>2. ThroughputList \in SUBSET Texts /\ opts.blind \in BOOLEAN /\ opts.enabled \in BOOLEAN
  <2>1. opts.blind \in BOOLEAN /\ opts.enabled \in BOOLEAN /\ opts.list \in Seq(Arguments)
        /\ opts.throughput \in Seq(Arguments)
    BY DEF CommandOK, Options
  <2>2. \A a \in Arguments : a.name \in Texts
    BY DEF Arguments, Words
  <2>3. ASSUME NEW v \in Seq(Arguments) PROVE SplitCSV(v) \in SUBSET Texts
    BY <2>2 DEF SplitCSV, ToSet
  <2> QED BY <2>1, <2>3 DEF ThroughputList
<1>3. \A c \in {0, ServerBase} : c \in Nat
  BY DEF ServerBase
<1>4. CASE UsageError
  BY <1>4 DEF SuiteStep
<1>5. ASSUME NEW p \in Protocols, NEW b \in Bases, NEW c \in {0, ServerBase},
             ClientStart([mode |-> "test", requested |-> p, blind |-> opts.blind,
                          only |-> opts.enabled, throughput |-> ThroughputList,
                          base |-> b, control |-> c])
      PROVE  SuiteStep
  <2>1. [mode |-> "test", requested |-> p, blind |-> opts.blind,
         only |-> opts.enabled, throughput |-> ThroughputList,
         base |-> b, control |-> c] \in TestConf
    BY <1>1, <1>2, <1>3 DEF TestConf
  <2> QED BY <1>5, <2>1 DEF SuiteStep
<1>6. ASSUME NEW f \in Forwards, ForwardStart(f) PROVE SuiteStep
  BY <1>1, <1>6 DEF SuiteStep
<1> QED BY <1>4, <1>5, <1>6 DEF RunE

(* Every step of the program is one of Suite's, or leaves it alone.        *)
LEMMA CommandIsSuite == CommandOK /\ [Next]_vars => [SuiteStep]_suite
<1> SUFFICES ASSUME CommandOK, [Next]_vars PROVE [SuiteStep]_suite
  OBVIOUS
<1>1. CASE RunE
  BY <1>1, RunEIsSuite
<1>2. CASE ServerNext(ServerConfs)
  <2>1. ServerConfs \subseteq ServerConf
    BY CommandAssumption
  <2> QED BY <1>2, <2>1 DEF ServerNext, SuiteStep
<1>3. CASE ClientNext
  BY <1>3 DEF SuiteStep
<1>4. CASE UNCHANGED suite
  BY <1>4
<1> QED BY <1>1, <1>2, <1>3, <1>4 DEF Next, SuiteNext, SetupNext, Main, vars

(* Or of HostSetup's.                                                      *)
LEMMA CommandIsSetup == [Next]_vars => [UnitsNext \/ CompletionNext]_setup
BY DEF Next, SuiteNext, SetupNext, vars

(* The program that main composes implements both of its parts: what a     *)
(* command line starts is a server or a client of Suite with some          *)
(* configuration, and the other commands change the host as HostSetup says *)
(* (main, clientCmd's RunE): for any arguments, names and configurations.  *)
THEOREM CommandsAreParts == Spec => SuiteSpec /\ SetupSpec
<1>1. Init => SuiteInit /\ SetupInit
  BY DEF Init
<1> QED BY <1>1, CommandInit, CommandSteps, CommandIsSuite, CommandIsSetup, PTL DEF Spec, SuiteSpec, SetupSpec

(* And so everything proved of the parts holds of the program: nothing is  *)
(* left open, verdicts and forwards are honest, no service is left without *)
(* a unit, uninstalls are thorough and the user's text is kept, whatever   *)
(* commands are given in whatever order.                                   *)
THEOREM CommandsAreSafe ==
  Spec => /\ [](NothingLeftOpen /\ VerdictHonest /\ ForwardHonest)
          /\ [](NoServiceWithoutUnit /\ UninstallThorough)
          /\ UserTextKept
<1>1. Spec => SuiteSpec /\ SetupSpec
  BY CommandsAreParts
<1>2. SuiteSpec => [](NothingLeftOpen /\ VerdictHonest /\ ForwardHonest)
  BY ServerLeavesNothing, VerdictIsHonest, ForwardingIsHonest, PTL
<1>3. SetupSpec => [](NoServiceWithoutUnit /\ UninstallThorough) /\ UserTextKept
  BY ServicesHaveUnits, UninstallIsThorough, UserTextIsKept, PTL
<1> QED BY <1>1, <1>2, <1>3, PTL
=============================================================================
