----------------------- MODULE VirtualPlatform_proofs -----------------------
(***************************************************************************)
(* Proofs about the Spike virtual platform: GdbRsp for every firmware      *)
(* length, poll interval and set of requests, and for any number of        *)
(* requests, Ctrl-Cs and damaged packets; Spike for every set of           *)
(* scenarios, every price of the timing model, every size of its cache and *)
(* of the two words of the counter, and every bound on the driver's turns. *)
(***************************************************************************)
EXTENDS GdbRsp, Spike, TLAPS


\* Reading the first token off a wire (::recv in recv_packet and
\* check_interrupt).
LEMMA TailFacts ==
  ASSUME NEW S, NEW s \in Seq(S), s # <<>>
  PROVE  /\ Head(s) = s[1] /\ Head(s) \in S /\ 1 \in DOMAIN s
         /\ Tail(s) \in Seq(S) /\ Len(Tail(s)) = Len(s) - 1
         /\ DOMAIN s = 1 .. Len(s) /\ DOMAIN Tail(s) = 1 .. Len(s) - 1
         /\ \A i \in 1 .. Len(s) - 1 : Tail(s)[i] = s[i + 1]
  OBVIOUS

\* Writing a token to a wire (::send).
LEMMA AppendFacts ==
  ASSUME NEW S, NEW s \in Seq(S), NEW e \in S
  PROVE  /\ Append(s, e) \in Seq(S) /\ Len(Append(s, e)) = Len(s) + 1
         /\ DOMAIN s = 1 .. Len(s) /\ DOMAIN Append(s, e) = 1 .. Len(s) + 1
         /\ \A i \in 1 .. Len(s) : Append(s, e)[i] = s[i]
         /\ Append(s, e)[Len(s) + 1] = e
  OBVIOUS

\* What is on a wire after its first token is read.
LEMMA TailWire ==
  ASSUME NEW s \in Seq(Down), s # <<>>, NEW n
  PROVE  /\ \A t : Has(s, t) <=> Head(s).t = t \/ Has(Tail(s), t)
         /\ Fresh(s, n) => Fresh(Tail(s), n)
         /\ Ordered(s, n) =>
              /\ Ordered(Tail(s), n)
              /\ Head(s).t # "intr" => ~Has(Tail(s), Head(s).t)
              /\ Head(s).t = "pkt" =>
                   /\ Fresh(Tail(s), n)
                   /\ ~Has(Tail(s), "ack") /\ ~Has(Tail(s), "nak")
         /\ \A r, g : Carries(s, r, g) =>
              /\ Carries(Tail(s), r, g)
              /\ Head(s).t = "pkt" => Head(s).req = r /\ (g => Head(s).ok)
<1> DEFINE u == Tail(s)
<1>1. /\ Head(s) = s[1] /\ 1 \in DOMAIN s
      /\ Len(s) \in Nat /\ Len(s) # 0
      /\ DOMAIN s = 1 .. Len(s) /\ DOMAIN u = 1 .. Len(s) - 1
      /\ \A i \in 1 .. Len(s) - 1 : u[i] = s[i + 1]
  BY TailFacts
<1> HIDE DEF u
<1>2. \A i \in DOMAIN u : i + 1 \in DOMAIN s /\ u[i] = s[i + 1]
  BY <1>1
<1>3. \A i \in DOMAIN s : i = 1 \/ (i - 1 \in DOMAIN u /\ s[i] = u[i - 1])
  BY <1>1
<1>4. \A t : Has(s, t) <=> Head(s).t = t \/ Has(u, t)
  BY <1>1, <1>2, <1>3 DEF Has
<1>5. Fresh(s, n) => Fresh(u, n)
  BY <1>2 DEF Fresh
<1>6. ASSUME Ordered(s, n)
      PROVE  /\ Ordered(u, n)
             /\ Head(s).t # "intr" => ~Has(u, Head(s).t)
             /\ Head(s).t = "pkt" =>
                   Fresh(u, n) /\ ~Has(u, "ack") /\ ~Has(u, "nak")
  <2>1. Ordered(u, n)
    <3>1. ASSUME NEW i \in DOMAIN u, NEW j \in DOMAIN u,
                 u[i].t = u[j].t, u[i].t # "intr"
          PROVE  i = j
      <4>1. i + 1 = j + 1 BY <1>2, <1>6, <3>1 DEF Ordered
      <4>2. i \in Nat /\ j \in Nat BY <1>1
      <4>3. QED BY <4>1, <4>2
    <3>2. ASSUME NEW i \in DOMAIN u, NEW j \in DOMAIN u, i < j, u[i].t = "pkt"
          PROVE  u[j].t = "intr" /\ u[j].run = n
      <4>1. i + 1 < j + 1 BY <1>1, <3>2
      <4>2. QED BY <1>2, <1>6, <3>2, <4>1 DEF Ordered
    <3>3. QED BY <3>1, <3>2 DEF Ordered
  <2>2. Head(s).t # "intr" => ~Has(u, Head(s).t)
    BY <1>1, <1>2, <1>6 DEF Ordered, Has
  <2>3. Head(s).t = "pkt" => Fresh(u, n) /\ ~Has(u, "ack") /\ ~Has(u, "nak")
    BY <1>1, <1>2, <1>6 DEF Ordered, Fresh, Has
  <2>4. QED BY <2>1, <2>2, <2>3
<1>7. \A r, g : Carries(s, r, g) =>
        /\ Carries(u, r, g)
        /\ Head(s).t = "pkt" => Head(s).req = r /\ (g => Head(s).ok)
  BY <1>1, <1>2 DEF Carries
<1>8. QED BY <1>4, <1>5, <1>6, <1>7 DEF u

\* What is on a wire after a token is written.
LEMMA AppendWire ==
  ASSUME NEW s \in Seq(Down), NEW e \in Down
  PROVE  /\ \A t : Has(Append(s, e), t) <=> Has(s, t) \/ e.t = t
         /\ \A n : Fresh(s, n) /\ (e.t = "intr" => e.run = n)
                      => Fresh(Append(s, e), n)
         /\ \A n, m : Ordered(s, n) /\ (e.t = "intr" => n = m /\ e.run = m)
                        /\ (e.t # "intr" => ~Has(s, "pkt") /\ ~Has(s, e.t))
                      => Ordered(Append(s, e), m)
         /\ \A r, g : Carries(s, r, g)
                        /\ (e.t = "pkt" => e.req = r /\ (g => e.ok))
                      => Carries(Append(s, e), r, g)
<1> DEFINE u == Append(s, e)
<1>1. /\ Len(s) \in Nat
      /\ DOMAIN s = 1 .. Len(s) /\ DOMAIN u = 1 .. Len(s) + 1
      /\ \A i \in 1 .. Len(s) : u[i] = s[i]
      /\ u[Len(s) + 1] = e
  BY AppendFacts
<1> HIDE DEF u
<1>2. \A i \in DOMAIN u :
         (i \in DOMAIN s /\ u[i] = s[i]) \/ (i = Len(s) + 1 /\ u[i] = e)
  BY <1>1
<1>3. \A i \in DOMAIN s : i \in DOMAIN u /\ u[i] = s[i] /\ i < Len(s) + 1
  BY <1>1
<1>4. \A t : Has(u, t) <=> Has(s, t) \/ e.t = t
  BY <1>1, <1>2, <1>3 DEF Has
<1>5. \A n : Fresh(s, n) /\ (e.t = "intr" => e.run = n) => Fresh(u, n)
  BY <1>2 DEF Fresh
<1>6. ASSUME NEW n, NEW m, Ordered(s, n),
             e.t = "intr" => n = m /\ e.run = m,
             e.t # "intr" => ~Has(s, "pkt") /\ ~Has(s, e.t)
      PROVE  Ordered(u, m)
  <2>1. ASSUME NEW i \in DOMAIN u, NEW j \in DOMAIN u,
               u[i].t = u[j].t, u[i].t # "intr"
        PROVE  i = j
    BY <1>2, <1>6, <2>1 DEF Ordered, Has
  <2>2. ASSUME NEW i \in DOMAIN u, NEW j \in DOMAIN u, i < j, u[i].t = "pkt"
        PROVE  u[j].t = "intr" /\ u[j].run = m
    <3>1. i \in DOMAIN s /\ u[i] = s[i]
      BY <1>1, <1>2, <2>2
    <3>2. e.t = "intr" /\ n = m /\ e.run = m
      BY <1>6, <3>1, <2>2 DEF Has
    <3>3. QED BY <1>2, <1>6, <2>2, <3>1, <3>2 DEF Ordered
  <2>3. QED BY <2>1, <2>2 DEF Ordered
<1>7. \A r, g : Carries(s, r, g) /\ (e.t = "pkt" => e.req = r /\ (g => e.ok))
                   => Carries(u, r, g)
  BY <1>2 DEF Carries
<1>8. QED BY <1>4, <1>5, <1>6, <1>7 DEF u

\* The requests of GDB name an instruction of the firmware, and their kind.
LEMMA RequestFacts ==
  \A r \in Requests \cup {NoRequest} :
     /\ r.a \in 0 .. LAST
     /\ r.k \in {"query", "c", "s", "Z", "z", "pc", "M", "reset", "noack", "D", "k"}
  BY GdbRspConstants DEF GdbRspConstants, NoRequest

\* Both ends only ever write tokens of their own wire.
LEMMA TokenFacts ==
  /\ Ack \in Down /\ Nak \in Down /\ Ack.t = "ack" /\ Nak.t = "nak"
  /\ Ack \in Up /\ Nak \in Up /\ Ack # Nak
  /\ \A n \in Nat : /\ CtrlC(n) \in Down
                    /\ CtrlC(n).t = "intr" /\ CtrlC(n).run = n
  /\ \A r \in Requests \cup {NoRequest}, b \in BOOLEAN :
        /\ Packet(r, b) \in Down
        /\ Packet(r, b).t = "pkt" /\ Packet(r, b).req = r /\ Packet(r, b).ok = b
  /\ \A x \in Texts : Reply(x) \in Up /\ Reply(x).t = "reply"
  /\ \A d \in Down :
        /\ d.t \in {"ack", "nak", "intr", "pkt"}
        /\ d.t = "pkt" => d.req \in Requests \cup {NoRequest} /\ d.ok \in BOOLEAN
  /\ \A u \in Up : u.t \in {"ack", "nak", "reply"}
  BY DEF Ack, Nak, CtrlC, Packet, Reply, Down, Up

\* The server reads tokens it does not answer: what it leaves on the wire.
LessOnWire ==
  /\ toServer' \in Seq(Down) /\ Ordered(toServer', sent)
  /\ \A t \in {"ack", "nak", "pkt"} : Has(toServer', t) => Has(toServer, t)
  /\ Fresh(toServer, sent) => Fresh(toServer', sent)
  /\ gpc # "closed" => Carries(toServer', greq, gnoack)

\* Reading nothing, or the first token, leaves less on the wire.
LEMMA ReadsLess ==
  ASSUME WireInv,
         toServer' = toServer \/ (toServer # <<>> /\ toServer' = Tail(toServer))
  PROVE  LessOnWire
<1>1. CASE toServer' = toServer
  BY <1>1 DEF WireInv, LessOnWire
<1>2. CASE toServer # <<>> /\ toServer' = Tail(toServer)
  <2>1. toServer' \in Seq(Down) BY <1>2, TailFacts DEF WireInv
  <2>2. QED BY <1>2, <2>1, TailWire DEF WireInv, LessOnWire
<1>3. QED BY <1>1, <1>2

\* send_packet, from any of handle_packet's branches and from do_continue:
\* the one reply to the request in service.
LEMMA SendKeeps ==
  ASSUME TypeOK, IInv, Serving, NEW x \in Texts, SendPacket(x), LessOnWire,
         UNCHANGED <<cur, no_ack, gdbVars>>
  PROVE  IInv'
<1> USE DEF IInv, gdbVars
<1>1. CASE gpc = "closed" /\ spc' = "ended" /\ UNCHANGED <<toGdb, reply, replies>>
  <2>1. WireInv' BY <1>1 DEF WireInv, LessOnWire
  <2>2. CountInv' BY <1>1 DEF CountInv, Serving, LessOnWire
  <2>3. TalkInv' BY <1>1 DEF TalkInv
  <2>4. QED BY <2>1, <2>2, <2>3
<1>2. CASE /\ toGdb' = Append(toGdb, Reply(x))
           /\ spc' = IF no_ack THEN AfterReply ELSE "await_ack"
           /\ reply' = x /\ replies' = replies + 1
  <2>1. /\ Reply(x) \in Up /\ Reply(x).t = "reply"
        /\ toGdb' \in Seq(Up) /\ Len(toGdb') = Len(toGdb) + 1
        /\ \A i \in 1 .. Len(toGdb) : toGdb'[i] = toGdb[i]
        /\ toGdb'[Len(toGdb) + 1].t = "reply"
        /\ Len(toGdb) \in Nat
    BY <1>2, TokenFacts, AppendFacts DEF WireInv
  <2>2. WireInv' BY <1>2, <2>1 DEF WireInv, LessOnWire
  <2>3. spc' \notin {"handle", "running"}
    BY <1>2 DEF AfterReply
  <2>4. replies < sent /\ ~Has(toServer, "pkt")
    BY DEF CountInv
  <2>5. CountInv'
    BY <1>2, <2>3, <2>4 DEF CountInv, Serving, LessOnWire
  <2>6. ASSUME gpc # "closed"
        PROVE  InService /\ Unread(0) /\ ~Has(toServer, "nak") /\ accepted + 1 = sent
    <3>1. InService /\ accepted + 1 = sent
      BY <2>6, <2>4 DEF TypeOK, TalkInv, AtRest, Serving, CountInv
    <3>2. QED BY <3>1, <2>4 DEF InService, Serving, AfterReply
  <2>7. ASSUME gpc # "closed"
        PROVE  InService'
    <3>1. Unread(1)' BY <2>1, <2>6, <2>7 DEF Unread
    <3>2. replies' = sent BY <1>2, <2>4, <2>6, <2>7 DEF CountInv
    <3>3. ~Has(toServer', "pkt") /\ ~Has(toServer', "ack") /\ ~Has(toServer', "nak")
      BY <2>4, <2>6, <2>7 DEF InService, LessOnWire
    <3>4. CASE no_ack
      BY <1>2, <2>6, <2>7, <3>1, <3>2, <3>3, <3>4 DEF InService, AfterReply
    <3>5. CASE ~no_ack
      BY <1>2, <2>6, <2>7, <3>1, <3>2, <3>3, <3>5 DEF InService
    <3>6. QED BY <3>4, <3>5
  <2>8. TalkInv'
    BY <2>6, <2>7, <2>4 DEF TalkInv, AtRest, Serving
  <2>9. QED BY <2>2, <2>5, <2>8
<1>3. QED BY <1>1, <1>2 DEF SendPacket

\* The server goes on working on the request it has: a step of the loop in
\* do_continue that sends nothing, or its start.
LEMMA WorkKeeps ==
  ASSUME TypeOK, IInv, Serving, Serving', LessOnWire,
         UNCHANGED <<toGdb, cur, reply, replies, no_ack, gdbVars>>
  PROVE  IInv'
<1> USE DEF IInv, gdbVars
<1>1. WireInv' BY DEF WireInv, LessOnWire
<1>2. CountInv' BY DEF CountInv, LessOnWire
<1>3. TalkInv'
  BY DEF TypeOK, TalkInv, AtRest, Serving, CountInv, InService, Unread,
         AfterReply, LessOnWire
<1>4. QED BY <1>1, <1>2, <1>3

\* handle_packet and do_continue, whatever the request.
LEMMA HandleStep ==
  ASSUME TypeOK, IInv,
         \/ HandleQuery \/ HandleBreakpoint \/ HandleWrite \/ HandleNoAck
         \/ HandleDetach \/ HandleKill \/ ResumeExited \/ DoStep \/ DoContinue
         \/ ContinueStops \/ ContinueSteps \/ ContinuePolls
  PROVE  IInv'
<1>1. CASE HandleKill
  <2> USE <1>1 DEF HandleKill, Handling, IInv, wireVars, gdbVars
  <2>1. WireInv' BY DEF WireInv
  <2>2. CountInv' BY DEF CountInv, Serving
  <2>3. TalkInv'
    BY DEF TypeOK, TalkInv, AtRest, Serving, CountInv, InService, Unread,
           AfterReply
  <2>4. QED BY <2>1, <2>2, <2>3
<1>2. CASE HandleQuery \/ HandleBreakpoint \/ HandleWrite \/ HandleNoAck
           \/ HandleDetach \/ ResumeExited \/ DoStep \/ ContinueStops
  <2>1. \E x \in Texts : SendPacket(x)
    BY <1>2 DEF HandleQuery, HandleBreakpoint, HandleWrite, HandleNoAck,
                HandleDetach, ResumeExited, DoStep, ContinueStops, Texts
  <2>2. Serving /\ toServer' = toServer /\ UNCHANGED <<cur, no_ack, gdbVars>>
    BY <1>2 DEF HandleQuery, HandleBreakpoint, HandleWrite, HandleNoAck,
                HandleDetach, ResumeExited, DoStep, ContinueStops, Handling,
                Serving
  <2>3. LessOnWire BY <2>2, ReadsLess DEF IInv
  <2>4. QED BY <2>1, <2>2, <2>3, SendKeeps
<1>3. CASE DoContinue \/ ContinueSteps
  <2>1. /\ Serving /\ Serving' /\ toServer' = toServer
        /\ UNCHANGED <<toGdb, cur, reply, replies, no_ack, gdbVars>>
    BY <1>3 DEF DoContinue, ContinueSteps, Handling, Serving, wireVars
  <2>2. LessOnWire BY <2>1, ReadsLess DEF IInv
  <2>3. QED BY <2>1, <2>2, WorkKeeps
<1>4. CASE ContinuePolls
  <2>1. LessOnWire BY <1>4, ReadsLess DEF ContinuePolls, IInv
  <2>2. Serving /\ UNCHANGED <<cur, no_ack, gdbVars>>
    BY <1>4 DEF ContinuePolls, Serving
  <2>3. CASE FirstIs("intr")
    BY <1>4, <2>1, <2>2, <2>3, SendKeeps DEF ContinuePolls, Texts
  <2>4. CASE ~FirstIs("intr")
    <3>1. Serving' /\ UNCHANGED <<toGdb, reply, replies>>
      BY <1>4, <2>4 DEF ContinuePolls, Serving
    <3>2. QED BY <2>1, <2>2, <3>1, WorkKeeps
  <2>5. QED BY <2>3, <2>4
<1>5. QED BY <1>1, <1>2, <1>3, <1>4

\* recv_packet and send_packet's wait for the ack.
LEMMA WireStep ==
  ASSUME TypeOK, IInv,
         \/ RecvControl \/ RecvPacket \/ RecvClosed
         \/ AwaitAck \/ AwaitNak \/ AwaitOther \/ AwaitClosed
  PROVE  IInv'
<1> DEFINE s == toServer
<1>a. s \in Seq(Down) /\ Ordered(s, sent) BY DEF IInv, WireInv
<1>b. ASSUME s # <<>>
      PROVE  /\ \A t : Has(s, t) <=> Head(s).t = t \/ Has(Tail(s), t)
             /\ Head(s).t # "intr" => ~Has(Tail(s), Head(s).t)
             /\ Head(s).t = "pkt" =>
                  /\ Fresh(Tail(s), sent)
                  /\ ~Has(Tail(s), "ack") /\ ~Has(Tail(s), "nak")
             /\ gpc # "closed" /\ Head(s).t = "pkt" =>
                  Head(s).req = greq /\ (gnoack => Head(s).ok)
             /\ Head(s) \in Down
  BY <1>a, <1>b, TailWire, TailFacts DEF IInv, WireInv
<1>c. toServer' = toServer \/ (s # <<>> /\ toServer' = Tail(s)) => LessOnWire
  BY ReadsLess DEF IInv
<1> USE DEF IInv, targetVars, wireVars, serverVars, gdbVars
<1>1. CASE RecvControl \/ AwaitOther
  <2>1. /\ s # <<>> /\ toServer' = Tail(s) /\ spc \in {"recv", "await_ack"}
        /\ spc = "recv" => Head(s).t # "pkt"
        /\ spc = "await_ack" => Head(s).t \in {"intr", "pkt"}
        /\ UNCHANGED <<toGdb, serverVars, gdbVars>>
    BY <1>1 DEF RecvControl, AwaitOther, Recv, FirstIs
  <2>2. WireInv' BY <1>c, <2>1 DEF WireInv, LessOnWire
  <2>3. CountInv' BY <1>c, <2>1 DEF CountInv, Serving, LessOnWire
  <2>4. TalkInv'
    BY <1>b, <2>1 DEF TypeOK, TalkInv, AtRest, Serving, CountInv, InService, Unread,
           AfterReply
  <2>5. QED BY <2>2, <2>3, <2>4
<1>2. CASE RecvPacket
  <2>1. /\ s # <<>> /\ Head(s).t = "pkt" /\ toServer' = Tail(s) /\ spc = "recv"
        /\ toGdb' = IF no_ack THEN toGdb
                    ELSE Append(toGdb, IF Head(s).ok THEN Ack ELSE Nak)
        /\ IF Head(s).ok THEN spc' = "handle" /\ cur' = Head(s).req
                         ELSE spc' = "recv" /\ cur' = cur
        /\ UNCHANGED <<no_ack, reply, replies, gdbVars>>
    BY <1>2 DEF RecvPacket, Recv, FirstIs
  <2>2. /\ Head(s).req \in Requests \cup {NoRequest} /\ Head(s).ok \in BOOLEAN
        /\ \A t \in {"ack", "nak", "pkt"} : ~Has(Tail(s), t)
        /\ Has(s, "pkt") /\ LessOnWire
    BY <1>b, <1>c, <2>1, TokenFacts
  <2>3. WireInv'
    <3>1. toGdb' \in Seq(Up) BY <2>1, TokenFacts, AppendFacts DEF WireInv
    <3>2. QED BY <2>1, <2>2, <3>1 DEF WireInv, LessOnWire
  <2>4. CountInv' BY <1>b, <2>1, <2>2 DEF CountInv, Serving
  <2>5. TalkInv'
    <3>1. SUFFICES ASSUME gpc # "closed" PROVE TalkInv'
      BY <2>1 DEF TalkInv
    <3>2. /\ AtRest /\ ~Has(s, "ack") /\ toGdb = <<>> /\ gpc \in {"ack", "reply"}
          /\ gpc = "ack" <=> ~gnoack
          /\ no_ack = gnoack /\ replies < sent /\ accepted + 1 = sent
      BY <2>1, <2>2, <3>1 DEF TypeOK, TalkInv, AtRest, InService, CountInv
    <3>3. Head(s).req = greq /\ (gnoack => Head(s).ok) BY <1>b, <2>1, <3>1
    <3>4. CASE Head(s).ok
      <4>1. Unread(0)'
        <5>1. CASE gnoack BY <2>1, <3>2, <5>1 DEF Unread
        <5>2. CASE ~gnoack
          <6>1. toGdb' = <<Ack>> BY <2>1, <3>2, <3>4, <5>2
          <6>2. QED BY <2>1, <3>2, <5>2, <6>1 DEF Unread
        <5>3. QED BY <5>1, <5>2
      <4>2. InService'
        BY <2>1, <2>2, <3>2, <3>3, <3>4, <4>1 DEF InService, Serving
      <4>3. QED BY <2>1, <3>2, <4>2 DEF TalkInv
    <3>5. CASE ~Head(s).ok
      <4>1. ~gnoack /\ gpc = "ack" /\ toGdb' = <<Nak>> BY <2>1, <3>2, <3>3, <3>5
      <4>2. AtRest' BY <2>1, <2>2, <3>2, <3>5 DEF AtRest
      <4>3. QED BY <2>1, <2>2, <3>2, <3>5, <4>1, <4>2 DEF TalkInv
    <3>6. QED BY <3>4, <3>5
  <2>6. QED BY <2>3, <2>4, <2>5
<1>3. CASE RecvClosed \/ AwaitClosed
  <2>1. /\ gpc = "closed" /\ toServer' = toServer
        /\ spc' \in {"ended", "recv"}
        /\ UNCHANGED <<toGdb, cur, reply, replies, gdbVars>>
    BY <1>3 DEF RecvClosed, AwaitClosed, AfterReply
  <2>2. WireInv' BY <2>1 DEF WireInv
  <2>3. CountInv' BY <2>1 DEF CountInv, Serving
  <2>4. TalkInv' BY <2>1 DEF TalkInv
  <2>5. QED BY <2>2, <2>3, <2>4
<1>4. CASE AwaitAck
  <2>1. /\ s # <<>> /\ Head(s).t = "ack" /\ toServer' = Tail(s)
        /\ spc = "await_ack" /\ spc' = AfterReply
        /\ no_ack' = (no_ack \/ cur.k = "noack")
        /\ UNCHANGED <<toGdb, cur, reply, replies, gdbVars>>
    BY <1>4 DEF AwaitAck, Recv, FirstIs
  <2>2. WireInv' BY <1>c, <2>1 DEF WireInv, LessOnWire
  <2>3. CountInv' BY <1>c, <2>1 DEF CountInv, Serving, LessOnWire, AfterReply
  <2>4. TalkInv'
    <3>1. Has(s, "ack") /\ ~Has(Tail(s), "ack") BY <1>b, <2>1
    <3>2. /\ Has(Tail(s), "nak") <=> Has(s, "nak")
          /\ Has(Tail(s), "pkt") <=> Has(s, "pkt")
      BY <1>b, <2>1
    <3>3. AtRest => AtRest' BY <2>1, <3>1, <3>2, TypeOK DEF AtRest, AfterReply, TypeOK
    <3>4. QED BY <2>1, <3>1, <3>2, <3>3 DEF TalkInv, InService
  <2>5. QED BY <2>2, <2>3, <2>4
<1>5. CASE AwaitNak
  <2>1. /\ s # <<>> /\ Head(s).t = "nak" /\ toServer' = Tail(s)
        /\ spc = "await_ack" /\ toGdb' = Append(toGdb, Reply(reply))
        /\ UNCHANGED <<serverVars, gdbVars>>
    BY <1>5 DEF AwaitNak, Recv, FirstIs
  <2>2. /\ Reply(reply) \in Up /\ Reply(reply).t = "reply"
        /\ toGdb' \in Seq(Up) /\ Len(toGdb') = Len(toGdb) + 1
        /\ toGdb'[Len(toGdb) + 1].t = "reply" /\ Len(toGdb) \in Nat
    BY <2>1, TokenFacts, AppendFacts DEF WireInv
  <2>3. WireInv' BY <1>c, <2>1, <2>2 DEF WireInv, LessOnWire
  <2>4. CountInv' BY <1>c, <2>1 DEF CountInv, Serving, LessOnWire
  <2>5. TalkInv'
    <3>1. Has(s, "nak") /\ ~Has(Tail(s), "nak") BY <1>b, <2>1
    <3>2. /\ Has(Tail(s), "ack") <=> Has(s, "ack")
          /\ Has(Tail(s), "pkt") <=> Has(s, "pkt")
      BY <1>b, <2>1
    <3>3. ~AtRest BY <3>1 DEF AtRest
    <3>4. InService /\ gpc = "reply" => Unread(1)'
      BY <2>1, <2>2, <3>1 DEF InService, Unread, Serving
    <3>5. InService /\ gpc = "reply" => InService'
      BY <2>1, <3>1, <3>2, <3>4 DEF InService, Serving
    <3>6. gpc \notin {"idle", "ack"}
      BY <2>1, <3>1, <3>3 DEF TalkInv, InService, Serving
    <3>7. QED BY <2>1, <3>3, <3>5, <3>6 DEF TalkInv
  <2>6. QED BY <2>3, <2>4, <2>5
<1>6. QED BY <1>1, <1>2, <1>3, <1>4, <1>5

\* GDB's own steps: requests, acks, repeats, Ctrl-Cs and the end.
LEMMA GdbStep ==
  ASSUME TypeOK, IInv,
         \/ GdbReads \/ (\E r \in Requests : GdbSend(r))
         \/ GdbInterrupt \/ GdbClose
  PROVE  IInv'
<1> DEFINE s == toServer
<1>a. s \in Seq(Down) /\ toGdb \in Seq(Up) /\ Ordered(s, sent) /\ sent \in Nat
  BY DEF IInv, WireInv, CountInv
<1>b. ASSUME NEW e \in Down
      PROVE  /\ Append(s, e) \in Seq(Down)
             /\ \A t : Has(Append(s, e), t) <=> Has(s, t) \/ e.t = t
             /\ \A n : Fresh(s, n) /\ (e.t = "intr" => e.run = n)
                          => Fresh(Append(s, e), n)
             /\ \A m : Ordered(s, sent) /\ (e.t = "intr" => m = sent /\ e.run = m)
                         /\ (e.t # "intr" => ~Has(s, "pkt") /\ ~Has(s, e.t))
                          => Ordered(Append(s, e), m)
             /\ \A r, g : Carries(s, r, g)
                            /\ (e.t = "pkt" => e.req = r /\ (g => e.ok))
                          => Carries(Append(s, e), r, g)
  BY <1>a, AppendFacts, AppendWire
<1>c. ASSUME ~Has(s, "pkt") PROVE \A r, g : Carries(s, r, g)
  BY <1>c DEF Has, Carries
<1> USE DEF IInv, targetVars, wireVars, serverVars, gdbVars
<1>1. CASE \E r \in Requests : GdbSend(r)
  <2>1. PICK r \in Requests, good \in BOOLEAN :
          /\ gpc = "idle" /\ sent < MaxRequests
          /\ good \/ ~gnoack
          /\ toServer' = Append(s, Packet(r, good))
          /\ greq' = r /\ sent' = sent + 1
          /\ gpc' = IF ~gnoack THEN "ack"
                    ELSE IF r.k = "k" THEN "closed" ELSE "reply"
          /\ UNCHANGED <<toGdb, serverVars, gnoack, accepted>>
    BY <1>1 DEF GdbSend
  <2>2. Packet(r, good) \in Down /\ Packet(r, good).t = "pkt"
        /\ Packet(r, good).req = r /\ Packet(r, good).ok = good
    BY TokenFacts
  <2>3. accepted = sent /\ AtRest /\ toGdb = <<>> /\ ~Has(s, "pkt")
    BY <2>1 DEF TalkInv
  <2>4. /\ toServer' \in Seq(Down) /\ Ordered(toServer', sent + 1)
        /\ Has(toServer', "pkt")
        /\ Has(toServer', "ack") <=> Has(s, "ack")
        /\ Has(toServer', "nak") <=> Has(s, "nak")
        /\ Carries(toServer', r, gnoack)
    BY <1>a, <1>b, <1>c, <2>1, <2>2, <2>3
  <2>5. WireInv' BY <2>1, <2>4 DEF WireInv
  <2>6. CountInv' BY <2>1, <2>3, <2>4, GdbRspConstants
    DEF CountInv, Serving, AtRest, GdbRspConstants
  <2>7. AtRest' BY <2>1, <2>3, <2>4 DEF AtRest
  <2>8. TalkInv' BY <2>1, <2>3, <2>4, <2>7 DEF TalkInv, TypeOK
  <2>9. QED BY <2>5, <2>6, <2>8
<1>2. CASE GdbReadsAck
  <2>1. /\ gpc = "ack" /\ toGdb # <<>> /\ toGdb' = Tail(toGdb)
        /\ IF Head(toGdb) = Ack
           THEN /\ gpc' = IF greq.k = "k" THEN "closed" ELSE "reply"
                /\ UNCHANGED toServer
           ELSE /\ toServer' = Append(toServer, Packet(greq, TRUE))
                /\ UNCHANGED gpc
        /\ UNCHANGED <<serverVars, greq, gnoack, sent, accepted>>
    BY <1>2 DEF GdbReadsAck
  <2>2. /\ Head(toGdb) = toGdb[1] /\ toGdb' \in Seq(Up)
        /\ Len(toGdb') = Len(toGdb) - 1 /\ Len(toGdb) \in Nat
        /\ \A i \in 1 .. Len(toGdb) - 1 : toGdb'[i] = toGdb[i + 1]
    BY <1>a, <2>1, TailFacts
  <2>3. CASE Head(toGdb) = Ack
    <3>1. /\ InService /\ ~gnoack /\ accepted + 1 = sent
          /\ \E n \in {0, 1} : Unread(n)
      BY <2>1, <2>2, <2>3, TokenFacts DEF TalkInv, InService
    <3>2. \A n \in {0, 1} : Unread(n) /\ gpc' # "closed" =>
             /\ Len(toGdb') = n /\ gpc' = "reply"
             /\ n = 1 => toGdb'[1].t = "reply"
      BY <2>1, <2>2, <2>3 DEF Unread
    <3>3. /\ Unread(0) /\ gpc' # "closed" => Unread(0)'
          /\ Unread(1) /\ gpc' # "closed" => Unread(1)'
      BY <2>2, <3>2 DEF Unread
    <3>4. gpc' # "closed" => InService'
      BY <2>1, <2>3, <3>1, <3>3 DEF InService, Serving, AfterReply
    <3>5. WireInv' BY <2>1, <2>2, <2>3 DEF WireInv
    <3>6. CountInv' BY <2>1, <2>3 DEF CountInv, Serving
    <3>7. TalkInv' BY <2>1, <2>3, <3>1, <3>4 DEF TalkInv
    <3>8. QED BY <3>5, <3>6, <3>7
  <2>4. CASE Head(toGdb) # Ack
    <3>1. /\ AtRest /\ spc = "recv" /\ toGdb = <<Nak>> /\ ~Has(s, "pkt")
          /\ ~gnoack /\ accepted + 1 = sent
      BY <2>1, <2>2, <2>4 DEF TalkInv, InService, Unread
    <3>2. toGdb' = <<>> BY <2>1, <3>1
    <3>3. /\ Packet(greq, TRUE) \in Down /\ Packet(greq, TRUE).t = "pkt"
          /\ Packet(greq, TRUE).req = greq /\ Packet(greq, TRUE).ok
      BY TokenFacts DEF WireInv
    <3>4. /\ toServer' \in Seq(Down) /\ Ordered(toServer', sent)
          /\ Has(toServer', "pkt")
          /\ Has(toServer', "ack") <=> Has(s, "ack")
          /\ Has(toServer', "nak") <=> Has(s, "nak")
          /\ Carries(toServer', greq, gnoack)
      BY <1>a, <1>b, <1>c, <2>1, <2>4, <3>1, <3>3
    <3>5. WireInv' BY <2>1, <2>2, <2>4, <3>4 DEF WireInv
    <3>6. CountInv' BY <2>1, <2>4, <3>1, <3>4 DEF CountInv, Serving, AtRest
    <3>7. AtRest' BY <2>1, <2>4, <3>1, <3>4 DEF AtRest
    <3>8. TalkInv' BY <2>1, <2>4, <3>1, <3>2, <3>4, <3>7 DEF TalkInv
    <3>9. QED BY <3>5, <3>6, <3>8
  <2>5. QED BY <2>3, <2>4
<1>3. CASE GdbReadsReply \/ GdbReadsDamagedReply
  <2>1. /\ gpc = "reply" /\ toGdb # <<>> /\ toGdb' = Tail(toGdb)
        /\ UNCHANGED <<serverVars, greq, sent>>
    BY <1>3 DEF GdbReadsReply, GdbReadsDamagedReply
  <2>2. toGdb' \in Seq(Up) /\ Len(toGdb') = Len(toGdb) - 1 /\ Len(toGdb) \in Nat
    BY <1>a, <2>1, TailFacts
  <2>3. InService /\ accepted + 1 = sent /\ greq.k # "k"
    BY <2>1 DEF TalkInv
  <2>4. Unread(1) /\ ~Unread(0) /\ ~Has(s, "nak") /\ replies = sent
    BY <1>a, <2>1, <2>3 DEF InService, Unread, Serving
  <2>5. /\ toGdb' = <<>>
        /\ ~Has(s, "pkt") /\ ~Has(s, "ack") /\ no_ack = gnoack /\ cur = greq
        /\ \/ spc = "await_ack" /\ ~no_ack
           \/ spc = AfterReply /\ no_ack
    BY <2>1, <2>2, <2>3, <2>4 DEF InService, Unread, Serving
  <2>6. CASE GdbReadsReply
    <3>1. /\ toServer' = IF gnoack THEN s ELSE Append(s, Ack)
          /\ gnoack' = (gnoack \/ greq.k = "noack")
          /\ accepted' = accepted + 1
          /\ gpc' = IF greq.k = "D" THEN "closed" ELSE "idle"
      BY <2>6 DEF GdbReadsReply
    <3>2. /\ toServer' \in Seq(Down) /\ Ordered(toServer', sent)
          /\ ~Has(toServer', "pkt") /\ ~Has(toServer', "nak")
          /\ Has(toServer', "ack") <=> ~gnoack
      <4>1. CASE gnoack BY <1>a, <2>4, <2>5, <3>1, <4>1
      <4>2. CASE ~gnoack
        BY <1>a, <1>b, <2>4, <2>5, <3>1, <4>2, TokenFacts
      <4>3. QED BY <4>1, <4>2
    <3>3. \A r, g : Carries(toServer', r, g) BY <3>2 DEF Has, Carries
    <3>4. WireInv' BY <2>1, <2>2, <3>2, <3>3 DEF WireInv
    <3>5. CountInv'
      BY <2>1, <2>3, <2>4, <2>5, <3>1, <3>2 DEF CountInv, Serving, AfterReply
    <3>6. ASSUME gpc' # "closed" PROVE AtRest'
      BY <2>1, <2>3, <2>4, <2>5, <3>1, <3>2, <3>6
      DEF AtRest, AfterReply, TypeOK, CountInv
    <3>7. TalkInv'
      BY <2>1, <2>3, <2>5, <3>1, <3>2, <3>6 DEF TalkInv
    <3>8. QED BY <3>4, <3>5, <3>7
  <2>7. CASE GdbReadsDamagedReply
    <3>1. /\ toServer' = Append(s, Nak) /\ ~gnoack
          /\ UNCHANGED <<gpc, gnoack, accepted>>
      BY <2>7 DEF GdbReadsDamagedReply
    <3>2. /\ toServer' \in Seq(Down) /\ Ordered(toServer', sent)
          /\ ~Has(toServer', "pkt") /\ ~Has(toServer', "ack")
          /\ Has(toServer', "nak")
      BY <1>a, <1>b, <2>4, <2>5, <3>1, TokenFacts
    <3>3. \A r, g : Carries(toServer', r, g) BY <3>2 DEF Has, Carries
    <3>4. WireInv' BY <2>1, <2>2, <3>1, <3>2, <3>3 DEF WireInv
    <3>5. CountInv' BY <2>1, <2>5, <3>1, <3>2 DEF CountInv, Serving
    <3>6. Unread(0)'
      <4>1. Len(toGdb') = 0 /\ gpc' = "reply" BY <2>1, <2>5, <3>1
      <4>2. QED BY <4>1 DEF Unread
    <3>7. InService' BY <2>1, <2>4, <2>5, <3>1, <3>2, <3>6 DEF InService
    <3>8. TalkInv' BY <2>1, <2>3, <3>1, <3>7 DEF TalkInv
    <3>9. QED BY <3>4, <3>5, <3>8
  <2>8. QED BY <1>3, <2>6, <2>7
<1>4. CASE GdbInterrupt
  <2>1. /\ gpc = "reply" /\ toServer' = Append(s, CtrlC(sent))
        /\ UNCHANGED <<toGdb, serverVars, gpc, greq, gnoack, sent, accepted>>
    BY <1>4 DEF GdbInterrupt
  <2>2. CtrlC(sent) \in Down /\ CtrlC(sent).t = "intr" /\ CtrlC(sent).run = sent
    BY <1>a, TokenFacts
  <2>3. /\ toServer' \in Seq(Down) /\ Ordered(toServer', sent)
        /\ \A t \in {"ack", "nak", "pkt"} : Has(toServer', t) <=> Has(s, t)
        /\ Fresh(s, sent) => Fresh(toServer', sent)
        /\ Carries(toServer', greq, gnoack)
    BY <1>a, <1>b, <2>1, <2>2 DEF WireInv
  <2>4. WireInv' BY <2>1, <2>3 DEF WireInv
  <2>5. CountInv' BY <2>1, <2>3 DEF CountInv, Serving
  <2>6. TalkInv'
    BY <2>1, <2>3 DEF TalkInv, AtRest, InService, Unread, Serving, AfterReply
  <2>7. QED BY <2>4, <2>5, <2>6
<1>5. CASE GdbClose
  <2>1. WireInv' BY <1>5 DEF GdbClose, WireInv
  <2>2. CountInv' BY <1>5 DEF GdbClose, CountInv, Serving
  <2>3. TalkInv' BY <1>5 DEF GdbClose, TalkInv
  <2>4. QED BY <2>1, <2>2, <2>3
<1>6. QED BY <1>1, <1>2, <1>3, <1>4, <1>5 DEF GdbReads

\* Types are kept by every step: addresses in the firmware, counts in bounds,
\* only known tokens on either wire.
LEMMA TypeStep ==
  ASSUME TypeOK, IInv, IInv', [Next]_vars
  PROVE  TypeOK'
<1>1. /\ \A i \in DOMAIN toServer' : toServer'[i].t \in {"ack", "nak", "intr", "pkt"}
      /\ \A i \in DOMAIN toGdb' : toGdb'[i].t \in {"ack", "nak", "reply"}
  BY TokenFacts DEF IInv, WireInv
<1>2. /\ replies' \in 0 .. MaxRequests /\ accepted' \in 0 .. MaxRequests
  BY GdbRspConstants DEF GdbRspConstants, IInv, CountInv
<1>3. cur.k \in {"query", "c", "s", "Z", "z", "pc", "M", "reset", "noack", "D", "k"}
      /\ cur.a \in 0 .. LAST
  BY RequestFacts DEF IInv, WireInv
<1> DEFINE Rest ==
      /\ pc \in 0 .. LAST /\ tohost \in {0, 1} /\ spins \in BOOLEAN
      /\ breakpoints \subseteq 0 .. LAST
      /\ no_ack \in BOOLEAN /\ exited \in BOOLEAN /\ gnoack \in BOOLEAN
      /\ spc \in {"recv", "handle", "running", "await_ack", "ended"}
      /\ steps \in 0 .. POLL_EVERY - 1
      /\ gpc \in {"idle", "ack", "reply", "closed"}
<1>4. Rest'
  <2>a. Rest BY DEF TypeOK
  <2> USE <1>3, <2>a, GdbRspConstants
      DEF GdbRspConstants, wireVars, targetVars, serverVars, gdbVars,
          SendPacket, AfterReply, Handling, StepFn
  <2>1. CASE Server
    <3>1. CASE RecvControl BY <3>1 DEF RecvControl
    <3>2. CASE RecvPacket BY <3>2 DEF RecvPacket
    <3>3. CASE RecvClosed BY <3>3 DEF RecvClosed
    <3>4. CASE AwaitAck BY <3>4 DEF AwaitAck
    <3>5. CASE AwaitNak BY <3>5 DEF AwaitNak
    <3>6. CASE AwaitOther BY <3>6 DEF AwaitOther
    <3>7. CASE AwaitClosed BY <3>7 DEF AwaitClosed
    <3>8. CASE HandleQuery BY <3>8 DEF HandleQuery
    <3>9. CASE HandleBreakpoint BY <3>9 DEF HandleBreakpoint
    <3>10. CASE HandleWrite BY <3>10 DEF HandleWrite
    <3>11. CASE HandleNoAck BY <3>11 DEF HandleNoAck
    <3>12. CASE HandleDetach BY <3>12 DEF HandleDetach
    <3>13. CASE HandleKill BY <3>13 DEF HandleKill
    <3>14. CASE ResumeExited BY <3>14 DEF ResumeExited
    <3>15. CASE DoStep BY <3>15 DEF DoStep
    <3>16. CASE DoContinue BY <3>16 DEF DoContinue
    <3>17. CASE ContinueStops BY <3>17 DEF ContinueStops
    <3>18. CASE ContinueSteps BY <3>18 DEF ContinueSteps
    <3>19. CASE ContinuePolls BY <3>19 DEF ContinuePolls
    <3>20. QED
      BY <2>1, <3>1, <3>2, <3>3, <3>4, <3>5, <3>6, <3>7, <3>8, <3>9, <3>10,
         <3>11, <3>12, <3>13, <3>14, <3>15, <3>16, <3>17, <3>18, <3>19
      DEF Server
  <2>2. CASE GdbReads
    BY <2>2 DEF GdbReads, GdbReadsAck, GdbReadsReply, GdbReadsDamagedReply
  <2>3. CASE \E r \in Requests : GdbSend(r) BY <2>3 DEF GdbSend
  <2>4. CASE GdbInterrupt \/ GdbClose BY <2>4 DEF GdbInterrupt, GdbClose
  <2> QED
    <3> CASE UNCHANGED vars BY DEF vars
    <3> QED BY <2>1, <2>2, <2>3, <2>4 DEF Next
<1>5. QED BY <1>1, <1>2, <1>4 DEF TypeOK

\* The types of a session, and the inductive invariant, hold throughout it.
THEOREM InvHolds == Spec => [](TypeOK /\ IInv)
<1>1. Init => TypeOK /\ IInv
  <2> SUFFICES ASSUME Init PROVE TypeOK /\ IInv
    OBVIOUS
  <2>1. /\ DOMAIN toServer = {} /\ DOMAIN toGdb = {}
        /\ toServer \in Seq(Down) /\ toGdb \in Seq(Up)
    <3>1. toServer = <<>> /\ toGdb = <<>> BY DEF Init
    <3>2. <<>> \in Seq(Down) /\ <<>> \in Seq(Up) /\ DOMAIN <<>> = {}
      OBVIOUS
    <3>3. QED BY <3>1, <3>2
  <2>2. TypeOK
    <3>1. LAST \in Nat /\ POLL_EVERY \in Nat \ {0} /\ MaxRequests \in Nat
      BY GdbRspConstants DEF GdbRspConstants
    <3>2. /\ pc = 0 /\ tohost = 0 /\ spins \in BOOLEAN /\ breakpoints = {}
          /\ no_ack = FALSE /\ exited = FALSE /\ gnoack = FALSE
          /\ spc = "recv" /\ gpc = "idle"
          /\ steps = 0 /\ replies = 0 /\ accepted = 0
      BY DEF Init
    <3>3. no_ack \in BOOLEAN /\ exited \in BOOLEAN /\ gnoack \in BOOLEAN
      BY <3>2
    <3>4. /\ pc \in 0 .. LAST /\ tohost \in {0, 1} /\ steps \in 0 .. POLL_EVERY - 1
          /\ replies \in 0 .. MaxRequests /\ accepted \in 0 .. MaxRequests
      BY <3>1, <3>2
    <3>5. breakpoints \subseteq 0 .. LAST BY <3>2
    <3>6. QED BY <2>1, <3>2, <3>3, <3>4, <3>5 DEF TypeOK
  <2>3. /\ \A t : ~Has(toServer, t)
        /\ Ordered(toServer, sent) /\ Carries(toServer, greq, gnoack)
    BY <2>1 DEF Has, Ordered, Carries
  <2>4. WireInv BY <2>1, <2>3 DEF Init, WireInv, Texts
  <2>5. CountInv
    <3>1. MaxRequests \in Nat BY GdbRspConstants DEF GdbRspConstants
    <3>2. spc = "recv" /\ sent = 0 /\ replies = 0 /\ accepted = 0 BY DEF Init
    <3>3. QED BY <2>3, <3>1, <3>2 DEF CountInv, Serving
  <2>6. TalkInv BY <2>3 DEF Init, TalkInv, AtRest
  <2>7. QED BY <2>2, <2>4, <2>5, <2>6 DEF IInv
<1>2. TypeOK /\ IInv /\ [Next]_vars => (TypeOK /\ IInv)'
  <2> SUFFICES ASSUME TypeOK, IInv, [Next]_vars PROVE TypeOK' /\ IInv'
    OBVIOUS
  <2>1. ASSUME Server PROVE IInv'
    <3>1. ASSUME RecvControl \/ RecvPacket \/ RecvClosed \/ AwaitAck \/ AwaitNak
                 \/ AwaitOther \/ AwaitClosed
          PROVE  IInv'
      BY <3>1, WireStep
    <3>2. ASSUME HandleQuery \/ HandleBreakpoint \/ HandleWrite \/ HandleNoAck
                 \/ HandleDetach \/ HandleKill \/ ResumeExited \/ DoStep
                 \/ DoContinue \/ ContinueStops \/ ContinueSteps
                 \/ ContinuePolls
          PROVE  IInv'
      BY <3>2, HandleStep
    <3>3. QED BY <2>1, <3>1, <3>2 DEF Server
  <2>2. ASSUME GdbReads \/ (\E r \in Requests : GdbSend(r)) \/ GdbInterrupt
               \/ GdbClose
        PROVE  IInv'
    BY <2>2, GdbStep
  <2>3. ASSUME UNCHANGED vars PROVE IInv'
    BY <2>3 DEF vars, wireVars, serverVars, gdbVars, IInv, WireInv, CountInv,
                TalkInv, AtRest, InService, Unread, Serving, AfterReply
  <2>4. IInv' BY <2>1, <2>2, <2>3 DEF Next
  <2>5. QED BY <2>4, TypeStep
<1>3. QED BY <1>1, <1>2, PTL DEF Spec

\* No Ctrl-C outlives the run it was meant for, and the two ends agree on the
\* ack mode, whatever is damaged or repeated on the wires and wherever GDB
\* quits (recv_packet, send_packet and check_interrupt).
THEOREM SessionSound == Spec => []SessionIsSound
<1>1. TypeOK /\ IInv => SessionIsSound
  <2> SUFFICES ASSUME TypeOK, IInv PROVE SessionIsSound
    OBVIOUS
  <2>1. InterruptIsFresh
    BY DEF IInv, CountInv, Serving, Fresh, InterruptIsFresh
  <2>2. ASSUME gnoack, gpc # "closed"
        PROVE  /\ \A i \in DOMAIN toGdb : toGdb[i].t = "reply"
               /\ spc = "await_ack" <=> Has(toServer, "ack")
    <3>1. gpc \in {"idle", "reply"} BY <2>2 DEF TypeOK, IInv, TalkInv
    <3>2. toGdb = <<>> \/ (\E n \in {0, 1} : Unread(n))
      BY <2>2, <3>1 DEF IInv, TalkInv, InService
    <3>3. \A i \in DOMAIN toGdb : toGdb[i].t = "reply"
      <4>1. toGdb \in Seq(Up) BY DEF IInv, WireInv
      <4>2. CASE toGdb = <<>> BY <4>2
      <4>3. ASSUME NEW n \in {0, 1}, Unread(n)
            PROVE  \A i \in DOMAIN toGdb : toGdb[i].t = "reply"
        <5>1. /\ Len(toGdb) = n /\ DOMAIN toGdb = 1 .. Len(toGdb)
              /\ n = 1 => toGdb[Len(toGdb)].t = "reply"
          BY <3>1, <4>1, <4>3 DEF Unread
        <5>2. \A i \in DOMAIN toGdb : n = 1 /\ i = 1 BY <5>1
        <5>3. QED BY <5>1, <5>2
      <4>4. QED BY <3>2, <4>2, <4>3
    <3>4. spc = "await_ack" <=> Has(toServer, "ack")
      BY <2>2, <3>1
      DEF TypeOK, IInv, TalkInv, AtRest, InService, Serving, AfterReply
    <3>5. QED BY <3>3, <3>4
  <2>3. QED BY <2>1, <2>2 DEF SessionIsSound, AckModesAgree, Has
<1>2. QED BY InvHolds, <1>1, PTL

\* The target never moves while GDB believes it halted: no step of do_continue,
\* do_step or a write is left over once the reply is read.
THEOREM TargetHalts == Spec => TargetHaltsForGdb
<1>1. TypeOK /\ IInv /\ [Next]_vars => (gpc = "idle" => UNCHANGED targetVars)
  <2> SUFFICES ASSUME TypeOK, IInv, [Next]_vars, gpc = "idle"
               PROVE  UNCHANGED targetVars
    OBVIOUS
  <2>1. ~Serving BY DEF IInv, TalkInv, AtRest, Serving
  <2>2. CASE Server
    BY <2>1, <2>2
    DEF Serving, Server, RecvControl, RecvPacket, RecvClosed, AwaitAck, AwaitNak,
        AwaitOther, AwaitClosed, HandleQuery, HandleBreakpoint, HandleWrite,
        HandleNoAck, HandleDetach, HandleKill, ResumeExited, DoStep, DoContinue,
        ContinueStops, ContinueSteps, ContinuePolls, Handling
  <2>3. CASE ~Server
    BY <2>3 DEF Next, vars, GdbReads, GdbReadsAck, GdbReadsReply,
                GdbReadsDamagedReply, GdbSend, GdbInterrupt, GdbClose
  <2>4. QED BY <2>2, <2>3
<1>2. QED BY InvHolds, <1>1, PTL DEF Spec, TargetHaltsForGdb

\* The session implements the lockstep of requests and replies: each step of
\* server or GDB sends, answers or accepts one request, or none.
THEOREM RequestsRefineLockstep == Spec => RequestsInLockstep
<1>1. Init => L!Init
  BY DEF Init, L!Init
<1>2. TypeOK /\ IInv /\ [Next]_vars => [L!Next]_(L!vars)
  <2> SUFFICES ASSUME TypeOK, IInv, [Next]_vars
               PROVE  L!Next \/ UNCHANGED L!vars
    OBVIOUS
  <2> USE DEF L!Next, L!Open, L!Answer, L!Check, L!vars, serverVars, gdbVars
  <2>1. CASE Server
    <3>1. UNCHANGED <<sent, accepted>>
      BY <2>1
      DEF Server, RecvControl, RecvPacket, RecvClosed, AwaitAck, AwaitNak,
          AwaitOther, AwaitClosed, HandleQuery, HandleBreakpoint, HandleWrite,
          HandleNoAck, HandleDetach, HandleKill, ResumeExited, DoStep,
          DoContinue, ContinueStops, ContinueSteps, ContinuePolls
    <3>2. replies' = replies \/ (Serving /\ replies' = replies + 1)
      BY <2>1
      DEF Server, RecvControl, RecvPacket, RecvClosed, AwaitAck, AwaitNak,
          AwaitOther, AwaitClosed, HandleQuery, HandleBreakpoint, HandleWrite,
          HandleNoAck, HandleDetach, HandleKill, ResumeExited, DoStep,
          DoContinue, ContinueStops, ContinueSteps, ContinuePolls, Handling,
          SendPacket, Serving
    <3>3. QED BY <3>1, <3>2 DEF IInv, CountInv
  <2>2. CASE \E r \in Requests : GdbSend(r)
    BY <2>2 DEF GdbSend, IInv, TalkInv
  <2>3. CASE GdbReads
    <3>1. CASE GdbReadsReply
      <4>1. accepted < replies
        <5>1. gpc = "reply" /\ InService /\ accepted + 1 = sent
          BY <3>1 DEF GdbReadsReply, IInv, TalkInv
        <5>2. ~Unread(0)
          BY <3>1, <5>1 DEF GdbReadsReply, Unread, IInv, WireInv
        <5>3. QED BY <5>1, <5>2 DEF InService, IInv, CountInv
      <4>2. QED BY <3>1, <4>1 DEF GdbReadsReply
    <3>2. CASE GdbReadsAck \/ GdbReadsDamagedReply
      BY <3>2 DEF GdbReadsAck, GdbReadsDamagedReply
    <3>3. QED BY <2>3, <3>1, <3>2 DEF GdbReads
  <2>4. CASE GdbInterrupt \/ GdbClose
    BY <2>4 DEF GdbInterrupt, GdbClose
  <2> QED
    <3> CASE UNCHANGED vars BY DEF vars
    <3> QED BY <2>1, <2>2, <2>3, <2>4 DEF Next
<1>3. QED BY <1>1, <1>2, InvHolds, PTL DEF Spec, RequestsInLockstep, L!Spec

-----------------------------------------------------------------------------
(* The two words of the count of cycles *)

\* A number times a positive one is no less than it, and times two positive
\* numbers in order, in order (the high word counts whole low words).
LEMMA TimesGrows ==
  ASSUME NEW a \in Nat, NEW b \in Nat, NEW m \in Nat, a <= b
  PROVE  a * m <= b * m /\ b * m - a * m = (b - a) * m /\ (a < b => a * m + m <= b * m)
<1>1. PICK d \in Nat : b = a + d
  <2>1. b - a \in Nat /\ b = a + (b - a) OBVIOUS
  <2>2. QED BY <2>1
<1>2. b * m = a * m + d * m /\ a * m \in Nat /\ d * m \in Nat
  BY <1>1
<1>3. b - a = d BY <1>1
<1>4. d # 0 => d * m >= m
  <2>1. d # 0 => d - 1 \in Nat /\ d * m = (d - 1) * m + m BY <1>1
  <2>2. d # 0 => (d - 1) * m \in Nat BY <2>1
  <2>3. QED BY <2>1, <2>2
<1>5. QED BY <1>1, <1>2, <1>3, <1>4

\* mcycleh and mcycle are the two words of one count.
LEMMA Words ==
  ASSUME NEW x \in 0 .. CycleMod - 1
  PROVE  /\ x \div WordMod \in 0 .. HighMod - 1 /\ x % WordMod \in 0 .. WordMod - 1
         /\ x = (x \div WordMod) * WordMod + (x % WordMod)
<1>1. WordMod \in Nat /\ WordMod > 1 /\ HighMod \in Nat /\ HighMod > 1 /\ CycleMod = WordMod * HighMod
  BY TimingAssumption DEF TimingAssumption, CycleMod
<1>2. x \in Nat /\ x < CycleMod /\ CycleMod \in Nat
  BY <1>1
<1> DEFINE h == x \div WordMod
<1>3. /\ h \in Nat /\ x % WordMod \in 0 .. WordMod - 1
      /\ x = h * WordMod + (x % WordMod)
  BY <1>1, <1>2
<1> HIDE DEF h
<1>4. h < HighMod
  <2>1. SUFFICES ASSUME HighMod <= h PROVE FALSE
    BY <1>1, <1>3
  <2>2. HighMod * WordMod <= h * WordMod
    BY <1>1, <1>3, <2>1, TimesGrows
  <2>3. QED BY <1>1, <1>2, <1>3, <2>2
<1>5. QED BY <1>1, <1>3, <1>4 DEF h

\* What the count is after a time shorter than its period.
LEMMA Later ==
  ASSUME NEW x \in 0 .. CycleMod - 1, NEW d \in Nat, d <= CycleMod
  PROVE  /\ (x + d) % CycleMod \in 0 .. CycleMod - 1
         /\ (x + d) % CycleMod = IF x + d < CycleMod THEN x + d ELSE x + d - CycleMod
<1>1. CycleMod \in Nat /\ CycleMod # 0
  <2>1. WordMod \in Nat \ {0} /\ HighMod \in Nat \ {0}
    BY TimingAssumption DEF TimingAssumption
  <2>2. HighMod * WordMod >= WordMod
    BY <2>1, TimesGrows, 1 * WordMod = WordMod
  <2>3. QED BY <2>1, <2>2 DEF CycleMod
<1>2. ASSUME NEW m \in Nat, NEW y \in Nat, m # 0, y < 2 * m
      PROVE  y % m \in 0 .. m - 1 /\ y % m = IF y < m THEN y ELSE y - m
  BY <1>2
<1>3. QED
  <2> DEFINE y == x + d
  <2>1. y \in Nat /\ y < 2 * CycleMod BY <1>1
  <2> HIDE DEF y
  <2>2. y % CycleMod \in 0 .. CycleMod - 1
        /\ y % CycleMod = IF y < CycleMod THEN y ELSE y - CycleMod
    BY <1>1, <1>2, <2>1
  <2>3. QED BY <1>1, <2>1, <2>2 DEF y

\* The longest time between two reads of a CSR that follow each other.
Gap == Pen.base + Pen.system + 1

\* Two times and a gap are shorter than the count: the words of times closer
\* than the low word.
LEMMA GapIsShort ==
  /\ Gap \in Nat /\ 2 * Gap <= WordMod /\ WordMod \in Nat /\ HighMod \in Nat /\ CycleMod \in Nat
  /\ WordMod > 1 /\ HighMod > 1 /\ 2 * WordMod <= CycleMod
  /\ CycleMod = HighMod * WordMod
<1>1. /\ WordMod \in Nat /\ HighMod \in Nat /\ WordMod > 1 /\ HighMod > 1
      /\ Pen.base \in Nat /\ Pen.system \in Nat
  BY TimingAssumption DEF TimingAssumption, Prices
<1>2. 2 * WordMod <= HighMod * WordMod /\ HighMod * WordMod \in Nat
  BY <1>1, TimesGrows
<1>3. QED BY <1>1, <1>2, SpikeAssumption DEF SpikeAssumption, Gap, CycleMod

\* The number of whole low words in a count grows by one at most in a gap, and
\* starts again where the count does (mcycleh between two reads).
LEMMA HighWord ==
  ASSUME NEW x \in 0 .. CycleMod - 1, NEW d \in Nat, d <= WordMod
  PROVE  LET y == (x + d) % CycleMod
         IN  \/ x + d < CycleMod /\ y = x + d /\ y \div WordMod \in {x \div WordMod, (x \div WordMod) + 1}
             \/ x + d >= CycleMod /\ x \div WordMod = HighMod - 1 /\ y \div WordMod = 0
<1> DEFINE y == (x + d) % CycleMod
           h == x \div WordMod
           g == y \div WordMod
<1>1. /\ WordMod \in Nat /\ HighMod \in Nat /\ CycleMod \in Nat /\ WordMod > 1 /\ HighMod > 1
      /\ 2 * WordMod <= CycleMod /\ CycleMod = HighMod * WordMod
  BY GapIsShort
<1>2. y \in 0 .. CycleMod - 1 /\ y = IF x + d < CycleMod THEN x + d ELSE x + d - CycleMod
  <2>1. d <= CycleMod BY <1>1
  <2>2. QED BY <2>1, Later, Zenon
<1>3. /\ h \in 0 .. HighMod - 1 /\ x = h * WordMod + (x % WordMod) /\ x % WordMod \in 0 .. WordMod - 1
  BY Words
<1> HIDE DEF y
<1>4. /\ g \in 0 .. HighMod - 1 /\ y = g * WordMod + (y % WordMod) /\ y % WordMod \in 0 .. WordMod - 1
  BY <1>2, Words
<1> HIDE DEF g, h
<1>5. h \in Nat /\ g \in Nat /\ h * WordMod \in Nat /\ g * WordMod \in Nat
  BY <1>1, <1>3, <1>4
<1>6. CASE x + d < CycleMod
  <2>1. ~(g < h)
    <3>1. g < h => g * WordMod + WordMod <= h * WordMod BY <1>1, <1>5, TimesGrows
    <3>2. QED BY <1>1, <1>2, <1>3, <1>4, <1>5, <1>6, <3>1
  <2>2. ~(h + 1 < g)
    <3>1. h + 1 < g => (h + 1) * WordMod + WordMod <= g * WordMod BY <1>1, <1>5, TimesGrows
    <3>2. (h + 1) * WordMod = h * WordMod + WordMod BY <1>1, <1>5
    <3>3. QED BY <1>1, <1>2, <1>3, <1>4, <1>5, <1>6, <3>1, <3>2
  <2>3. QED BY <1>2, <1>5, <1>6, <2>1, <2>2 DEF y, g, h
<1>7. CASE x + d >= CycleMod
  <2>1. ~(h < HighMod - 1)
    <3>1. h + 1 < HighMod => (h + 1) * WordMod + WordMod <= HighMod * WordMod BY <1>1, <1>5, TimesGrows
    <3>2. (h + 1) * WordMod = h * WordMod + WordMod BY <1>1, <1>5
    <3>3. QED BY <1>1, <1>3, <1>5, <1>7, <3>1, <3>2
  <2>2. ~(0 < g)
    <3>1. 0 < g => 0 * WordMod + WordMod <= g * WordMod BY <1>1, <1>5, TimesGrows
    <3>2. QED BY <1>1, <1>2, <1>4, <1>5, <1>7, <3>1
  <2>3. QED BY <1>1, <1>3, <1>5, <1>7, <2>1, <2>2 DEF y, g, h
<1>8. QED BY <1>1, <1>2, <1>6, <1>7

\* verif_ca_get_cycle: if the high word is the same before and after the low
\* word is read, the two are the words of one count.
LEMMA ReadIsWhole ==
  ASSUME NEW x \in 0 .. CycleMod - 1, NEW d \in 0 .. Gap, NEW e \in 0 .. Gap,
         NEW a, a = (x + d) % CycleMod, ((a + e) % CycleMod) \div WordMod = x \div WordMod
  PROVE  (x \div WordMod) * WordMod + (a % WordMod) = a
<1>1. /\ WordMod \in Nat /\ HighMod \in Nat /\ CycleMod \in Nat /\ WordMod > 1 /\ HighMod > 1
      /\ 2 * WordMod <= CycleMod /\ Gap \in Nat /\ 2 * Gap <= WordMod
  BY GapIsShort
<1>0. d \in Nat /\ d <= WordMod /\ d <= CycleMod /\ e \in Nat /\ e <= WordMod
  BY <1>1
<1>2. a \in 0 .. CycleMod - 1 /\ a = IF x + d < CycleMod THEN x + d ELSE x + d - CycleMod
  BY <1>0, Later, Zenon
<1>3. \/ x + d < CycleMod /\ a \div WordMod \in {x \div WordMod, (x \div WordMod) + 1}
      \/ x + d >= CycleMod /\ x \div WordMod = HighMod - 1 /\ a \div WordMod = 0
  BY <1>0, HighWord, Zenon
<1> DEFINE b == (a + e) % CycleMod
<1>4. \/ a + e < CycleMod /\ b \div WordMod \in {a \div WordMod, (a \div WordMod) + 1}
      \/ a + e >= CycleMod /\ a \div WordMod = HighMod - 1 /\ b \div WordMod = 0
  BY <1>0, <1>2, HighWord, Zenon
<1> HIDE DEF b
<1>5. x \div WordMod \in 0 .. HighMod - 1 /\ a \div WordMod \in 0 .. HighMod - 1
  BY <1>2, Words, Zenon
<1>6. b \div WordMod = x \div WordMod BY DEF b
<1>7. a \div WordMod = x \div WordMod
  <2>1. CASE x + d < CycleMod /\ a + e < CycleMod BY <1>1, <1>3, <1>4, <1>5, <1>6, <2>1
  <2>2. CASE x + d >= CycleMod
    <3>1. a < WordMod /\ a + e < CycleMod BY <1>0, <1>1, <1>2, <2>2
    <3>2. QED BY <1>1, <1>3, <1>4, <1>5, <1>6, <2>2, <3>1
  <2>3. CASE x + d < CycleMod /\ a + e >= CycleMod
    BY <1>1, <1>3, <1>4, <1>5, <1>6, <2>3
  <2>4. QED BY <1>1, <1>2, <2>1, <2>2, <2>3
<1>8. QED BY <1>2, <1>7, Words

\* verif_ca_mark_cycle: a high word read just after the low one is its own or,
\* if there was a carry in between, the next one.
LEMMA MarkIsClose ==
  ASSUME NEW a \in 0 .. CycleMod - 1, NEW e \in 0 .. Gap, NEW h, h = ((a + e) % CycleMod) \div WordMod
  PROVE  h \in 0 .. HighMod - 1 /\ h * WordMod + (a % WordMod) \in {a, (a + WordMod) % CycleMod}
<1>1. /\ WordMod \in Nat /\ HighMod \in Nat /\ CycleMod \in Nat /\ WordMod > 1 /\ HighMod > 1
      /\ 2 * WordMod <= CycleMod /\ Gap \in Nat /\ 2 * Gap <= WordMod /\ CycleMod = HighMod * WordMod
  BY GapIsShort
<1>2. e \in Nat /\ e <= WordMod /\ WordMod <= CycleMod
  BY <1>1
<1> DEFINE b == (a + e) % CycleMod
           g == a \div WordMod
<1>3. \/ a + e < CycleMod /\ b \div WordMod \in {a \div WordMod, (a \div WordMod) + 1}
      \/ a + e >= CycleMod /\ a \div WordMod = HighMod - 1 /\ b \div WordMod = 0
  BY <1>2, HighWord, Zenon
<1>4. b \in 0 .. CycleMod - 1
  <2>1. e <= CycleMod BY <1>1, <1>2
  <2>2. QED BY <1>2, <2>1, Later, Zenon
<1>5. h = b \div WordMod OBVIOUS
<1> HIDE DEF b
<1>6. h \in 0 .. HighMod - 1
  BY <1>4, <1>5, Words, Zenon
<1>7. g \in 0 .. HighMod - 1 /\ a = g * WordMod + (a % WordMod) /\ a % WordMod \in 0 .. WordMod - 1
  BY Words, Zenon
<1>8. (a + WordMod) % CycleMod = IF a + WordMod < CycleMod THEN a + WordMod ELSE a + WordMod - CycleMod
  BY <1>1, <1>2, Later, Zenon
<1>9. h = g \/ (h = g + 1) \/ (h = 0 /\ g = HighMod - 1)
  BY <1>3, <1>5
<1> HIDE DEF g
<1>10. CASE h = g BY <1>6, <1>7, <1>10, Zenon
<1>11. CASE h = g + 1
  <2>1. h * WordMod = g * WordMod + WordMod /\ g * WordMod \in Nat BY <1>1, <1>7, <1>11
  <2>2. h * WordMod + WordMod <= HighMod * WordMod
    <3>1. h \in Nat /\ h < HighMod BY <1>1, <1>6
    <3>2. QED BY <1>1, <3>1, TimesGrows
  <2>3. a + WordMod < CycleMod BY <1>1, <1>7, <2>1, <2>2
  <2>4. h * WordMod + (a % WordMod) = a + WordMod BY <1>1, <1>7, <2>1
  <2>5. QED BY <1>6, <1>8, <2>3, <2>4
<1>12. CASE h = 0 /\ g = HighMod - 1
  <2>1. g * WordMod = CycleMod - WordMod BY <1>1, <1>12
  <2>2. h * WordMod = 0 BY <1>1, <1>12
  <2>3. a + WordMod = CycleMod + (a % WordMod) BY <1>1, <1>7, <2>1
  <2>4. (a + WordMod) % CycleMod = a % WordMod BY <1>1, <1>7, <1>8, <2>3
  <2>5. h * WordMod + (a % WordMod) = (a + WordMod) % CycleMod BY <1>7, <2>2, <2>4
  <2>6. QED BY <1>6, <2>5
<1>13. QED BY <1>9, <1>10, <1>11, <1>12

\* The host's subtraction of the start from the mirror (CA_measure.cc): whole
\* periods of the count do not matter.
LEMMA RunIsExact ==
  ASSUME NEW mark \in 0 .. CycleMod - 1, NEW start \in 0 .. WordMod - 1,
         NEW v \in {mark, (mark + WordMod) % CycleMod},
         NEW run, run = (v - start) % CycleMod
  PROVE  run \in 0 .. CycleMod - 1 /\ (run - (mark - start)) % CycleMod \in {0, WordMod}
<1>1. /\ WordMod \in Nat /\ CycleMod \in Nat /\ WordMod > 1 /\ 2 * WordMod <= CycleMod
  BY GapIsShort
<1>2. (mark + WordMod) % CycleMod = IF mark + WordMod < CycleMod THEN mark + WordMod ELSE mark + WordMod - CycleMod
  <2>1. WordMod <= CycleMod BY <1>1
  <2>2. QED BY <1>1, <2>1, Later, Zenon
<1>3. ASSUME NEW m \in Nat, NEW r \in Int, m # 0, -m < r, r < 2 * m
      PROVE  r % m = IF r < 0 THEN r + m ELSE IF r < m THEN r ELSE r - m
  BY <1>3
<1>4. v - start \in Int /\ -CycleMod < v - start /\ v - start < CycleMod
  BY <1>1, <1>2
<1>5. run = IF v - start < 0 THEN v - start + CycleMod ELSE v - start
  <2> DEFINE w == v - start
  <2>1. w \in Int /\ -CycleMod < w /\ w < 2 * CycleMod /\ w < CycleMod /\ CycleMod # 0 BY <1>1, <1>4
  <2>2. run = w % CycleMod OBVIOUS
  <2> HIDE DEF w
  <2>3. run = IF w < 0 THEN w + CycleMod ELSE w BY <1>1, <1>3, <2>1, <2>2
  <2>4. QED BY <2>3 DEF w
<1> DEFINE d == run - (mark - start)
<1>6. d \in {0, WordMod, CycleMod, WordMod + CycleMod, WordMod - CycleMod}
  BY <1>1, <1>2, <1>4, <1>5
<1> HIDE DEF d
<1>7. d % CycleMod \in {0, WordMod}
  <2>1. d \in Int /\ -CycleMod < d /\ d < 2 * CycleMod /\ CycleMod # 0 BY <1>1, <1>6
  <2>2. d % CycleMod = IF d < 0 THEN d + CycleMod ELSE IF d < CycleMod THEN d ELSE d - CycleMod
    BY <1>1, <1>3, <2>1
  <2>3. QED BY <1>1, <1>6, <2>1, <2>2
<1>8. QED BY <1>1, <1>4, <1>5, <1>7 DEF d

-----------------------------------------------------------------------------
(* Firmware *)

Deeds == {"none", "spin", "bp", "mie", "poll", "tohost lo", "tohost hi", "read hi", "read lo", "read hi2",
          "again", "start", "c0", "table", "record", "mark hi", "mark lo", "any"}
Vals == Nat \cup Breakpoints \cup Blocks
Ops == [do : Deeds, val : Vals, insn : Instructions]
Reads == {"read hi", "read lo", "read hi2"}

\* What all firmware has in common: an instruction that uses a word of the
\* counter comes directly after the one that reads it.
InPlace(p, i) ==
  /\ p[i].do = "bp" => p[i].val \in Breakpoints
  /\ p[i].do = "tohost lo" => p[i].val \in Nat
  /\ p[i].do = "tohost hi" => p[i].val = 0
  /\ p[i].do \in Reads => p[i].insn = Csr
  /\ p[i].do = "read hi2" => i > 2 /\ p[i - 1].do = "read lo" /\ p[i - 2].do = "read hi"
  /\ p[i].do = "again" => i > 3 /\ p[i - 1].do = "read hi2" /\ (i > 4 => p[i - 4].do # "read lo")
  /\ p[i].do = "mark hi" => i > 2 /\ p[i - 1].do = "read hi" /\ p[i - 2].do = "read lo"
  /\ p[i].do = "mark lo" => i > 1 /\ p[i - 1].do = "mark hi"

\* A piece of firmware that does nothing but these deeds.
Piece(p, deeds) ==
  /\ p \in Seq(Ops)
  /\ \A i \in 1 .. Len(p) : InPlace(p, i) /\ p[i].do \in deeds
  /\ p # <<>> => p[Len(p)].do # "read lo"

\* One piece of firmware after another (\o in the programs).
LEMMA Joined ==
  ASSUME NEW S, NEW p \in Seq(S), NEW q \in Seq(S)
  PROVE  /\ p \o q \in Seq(S) /\ Len(p \o q) = Len(p) + Len(q) /\ Len(p) \in Nat /\ Len(q) \in Nat
         /\ \A i \in 1 .. Len(p) : (p \o q)[i] = p[i]
         /\ \A i \in Len(p) + 1 .. Len(p) + Len(q) : (p \o q)[i] = q[i - Len(p)]
         /\ (p # <<>> <=> Len(p) # 0) /\ (q # <<>> <=> Len(q) # 0)
  OBVIOUS

\* Whether an instruction is in place depends on it and the four before it.
LEMMA SameNeighbours ==
  ASSUME NEW p, NEW r, NEW i \in Nat, InPlace(p, i), r[i] = p[i],
         i > 1 => r[i - 1] = p[i - 1], i > 2 => r[i - 2] = p[i - 2], i > 4 => r[i - 4] = p[i - 4]
  PROVE  InPlace(r, i)
<1>1. (i > 2 => i > 1) /\ (i > 3 => i > 1) OBVIOUS
<1>2. /\ r[i].do = "bp" => r[i].val \in Breakpoints
      /\ r[i].do = "tohost lo" => r[i].val \in Nat
      /\ r[i].do = "tohost hi" => r[i].val = 0
      /\ r[i].do \in Reads => r[i].insn = Csr
  BY Zenon DEF InPlace
<1>3. r[i].do = "read hi2" => i > 2 /\ r[i - 1].do = "read lo" /\ r[i - 2].do = "read hi"
  BY <1>1, Zenon DEF InPlace
<1>4. r[i].do = "again" => i > 3 /\ r[i - 1].do = "read hi2" /\ (i > 4 => r[i - 4].do # "read lo")
  BY <1>1, Zenon DEF InPlace
<1>5. r[i].do = "mark hi" => i > 2 /\ r[i - 1].do = "read hi" /\ r[i - 2].do = "read lo"
  BY <1>1, Zenon DEF InPlace
<1>6. r[i].do = "mark lo" => i > 1 /\ r[i - 1].do = "mark hi"
  BY <1>1, Zenon DEF InPlace
<1>7. QED BY <1>2, <1>3, <1>4, <1>5, <1>6, Zenon DEF InPlace

\* Two pieces make a piece.
LEMMA JoinedPieces ==
  ASSUME NEW D, NEW p, Piece(p, D), NEW q, Piece(q, D)
  PROVE  Piece(p \o q, D)
<1> DEFINE r == p \o q
<1>1. p \in Seq(Ops) /\ q \in Seq(Ops) BY DEF Piece
<1>2. /\ r \in Seq(Ops) /\ Len(r) = Len(p) + Len(q) /\ Len(p) \in Nat /\ Len(q) \in Nat
      /\ \A i \in 1 .. Len(p) : r[i] = p[i]
      /\ \A i \in Len(p) + 1 .. Len(p) + Len(q) : r[i] = q[i - Len(p)]
      /\ (p # <<>> <=> Len(p) # 0) /\ (q # <<>> <=> Len(q) # 0)
      /\ (r # <<>> <=> Len(r) # 0)
  BY <1>1, Joined
<1> HIDE DEF r
<1>3. ASSUME NEW i \in 1 .. Len(p) PROVE InPlace(r, i) /\ r[i].do \in D
  <2>1. InPlace(p, i) /\ p[i].do \in D BY <1>3 DEF Piece
  <2>2. /\ (i > 1 => i - 1 \in 1 .. Len(p)) /\ (i > 2 => i - 2 \in 1 .. Len(p))
        /\ (i > 4 => i - 4 \in 1 .. Len(p)) /\ i \in Nat
    BY <1>2
  <2>3. /\ r[i] = p[i] /\ (i > 1 => r[i - 1] = p[i - 1]) /\ (i > 2 => r[i - 2] = p[i - 2])
        /\ (i > 4 => r[i - 4] = p[i - 4])
    BY <1>2, <2>2, Zenon
  <2>4. InPlace(r, i)
    BY <2>1, <2>2, <2>3, SameNeighbours, Zenon
  <2>5. QED BY <2>1, <2>3, <2>4, Zenon
<1>4. ASSUME NEW i \in Len(p) + 1 .. Len(p) + Len(q) PROVE InPlace(r, i) /\ r[i].do \in D
  <2> DEFINE j == i - Len(p)
  <2>1. j \in 1 .. Len(q) /\ i = j + Len(p) BY <1>2
  <2> HIDE DEF j
  <2>2. InPlace(q, j) /\ q[j].do \in D BY <2>1 DEF Piece
  <2> DEFINE Q == Len(p) + 1 .. Len(p) + Len(q)
  <2>0. /\ i \in Q /\ i - Len(p) = j
        /\ (j > 1 => i - 1 \in Q /\ (i - 1) - Len(p) = j - 1)
        /\ (j > 2 => i - 2 \in Q /\ (i - 2) - Len(p) = j - 2)
        /\ (j > 4 => i - 4 \in Q /\ (i - 4) - Len(p) = j - 4)
    BY <1>2, <2>1
  <2>8. \A k \in Q : r[k] = q[k - Len(p)] BY <1>2
  <2> HIDE DEF Q
  <2>3. /\ r[i] = q[j] /\ (j > 1 => r[i - 1] = q[j - 1]) /\ (j > 2 => r[i - 2] = q[j - 2])
        /\ (j > 4 => r[i - 4] = q[j - 4])
    BY <2>0, <2>8, Zenon
  <2>4. j = 4 /\ i > 4 => r[i - 4] = p[Len(p)] /\ p # <<>> BY <1>2, <2>1
  <2>5. j = 4 /\ i > 4 => r[i - 4].do # "read lo" BY <2>4 DEF Piece
  <2>6. /\ i \in Nat /\ j \in Nat /\ (j > 1 => i > 1) /\ (j > 2 => i > 2) /\ (j > 3 => i > 3)
        /\ (i > 4 /\ j > 3 => j = 4 \/ j > 4) /\ (j > 2 => j > 1) /\ (j > 3 => j > 1)
    BY <1>2, <2>1
  <2>7. InPlace(r, i)
    <3>1. /\ r[i].do = "bp" => r[i].val \in Breakpoints
          /\ r[i].do = "tohost lo" => r[i].val \in Nat
          /\ r[i].do = "tohost hi" => r[i].val = 0
          /\ r[i].do \in Reads => r[i].insn = Csr
      BY <2>2, <2>3, Zenon DEF InPlace
    <3>2. r[i].do = "read hi2" => i > 2 /\ r[i - 1].do = "read lo" /\ r[i - 2].do = "read hi"
      BY <2>2, <2>3, <2>6, Zenon DEF InPlace
    <3>3. r[i].do = "again" => i > 3 /\ r[i - 1].do = "read hi2" /\ (i > 4 => r[i - 4].do # "read lo")
      BY <2>2, <2>3, <2>5, <2>6, Zenon DEF InPlace
    <3>4. r[i].do = "mark hi" => i > 2 /\ r[i - 1].do = "read hi" /\ r[i - 2].do = "read lo"
      BY <2>2, <2>3, <2>6, Zenon DEF InPlace
    <3>5. r[i].do = "mark lo" => i > 1 /\ r[i - 1].do = "mark hi"
      BY <2>2, <2>3, <2>6, Zenon DEF InPlace
    <3>6. QED BY <3>1, <3>2, <3>3, <3>4, <3>5, Zenon DEF InPlace
  <2>9. QED BY <2>2, <2>3, <2>7, Zenon
<1>5. r # <<>> => r[Len(r)].do # "read lo"
  <2>1. CASE Len(q) = 0
    <3>1. r # <<>> => p # <<>> /\ r[Len(r)] = p[Len(p)] BY <1>2, <2>1
    <3>2. QED BY <3>1 DEF Piece
  <2>2. CASE Len(q) # 0
    <3>1. q # <<>> /\ r[Len(r)] = q[Len(q)] BY <1>2, <2>2
    <3>2. QED BY <3>1 DEF Piece
  <2>3. QED BY <2>1, <2>2
<1>6. QED
  <2>1. \A i \in 1 .. Len(r) : i \in 1 .. Len(p) \/ i \in Len(p) + 1 .. Len(p) + Len(q) BY <1>2
  <2>2. QED BY <1>2, <1>3, <1>4, <1>5, <2>1 DEF Piece, r

\* A piece that does some deeds does no others.
LEMMA Widens == ASSUME NEW D, NEW E, D \subseteq E, NEW p, Piece(p, D) PROVE Piece(p, E)
  BY DEF Piece

Tied == {"read hi", "read lo", "read hi2", "again", "mark hi", "mark lo"}
Loose(op) ==
  /\ op.do = "bp" => op.val \in Breakpoints
  /\ op.do = "tohost lo" => op.val \in Nat
  /\ op.do = "tohost hi" => op.val = 0

\* Deeds that look at no neighbour make a piece in any order.
LEMMA LoosePiece ==
  ASSUME NEW D, NEW p \in Seq(Ops),
         \A i \in 1 .. Len(p) : p[i].do \in D \ Tied /\ Loose(p[i])
  PROVE  Piece(p, D)
<1>1. p # <<>> => Len(p) \in 1 .. Len(p)
  <2>1. Len(p) \in Nat /\ (p # <<>> => Len(p) # 0) BY ONLY p \in Seq(Ops)
  <2>2. QED BY ONLY <2>1
<1>2. ASSUME NEW i \in 1 .. Len(p) PROVE InPlace(p, i) /\ p[i].do \in D
  BY <1>2, Zenon DEF InPlace, Loose, Tied, Reads
<1>3. p # <<>> => p[Len(p)].do # "read lo"
  BY <1>1, Zenon DEF Tied, Reads
<1>4. QED BY <1>2, <1>3, Zenon DEF Piece

\* The instructions the firmware is made of are instructions of the model.
LEMMA InsnFacts ==
  /\ Alu \in Instructions /\ Csr \in Instructions /\ Jump \in Instructions
  /\ \A b \in {0, 1} : Branch(b) \in Instructions
  /\ \A n \in Nat : Load(n) \in Instructions /\ Store(n) \in Instructions
  /\ Insn("alu", 2, {1, 2}, "tcm", 0, 0) \in Instructions
  BY DEF Alu, Csr, Jump, Branch, Load, Store, Insn, Instructions, Classes, Regions

\* What an instruction of the firmware does, and its cost, are its own.
LEMMA OpFacts ==
  ASSUME NEW do \in Deeds, NEW val \in Vals, NEW insn \in Instructions
  PROVE  /\ I(do, val, insn) \in Ops /\ I(do, val, insn).do = do
         /\ I(do, val, insn).val = val /\ I(do, val, insn).insn = insn
  BY DEF I, Ops

\* An instruction that only takes time.
LEMMA PlainFacts ==
  ASSUME NEW insn \in Instructions
  PROVE  Plain(insn) \in Ops /\ Plain(insn).do = "none" /\ Loose(Plain(insn))
<1>1. "none" \in Deeds /\ 0 \in Vals BY DEF Deeds, Vals
<1>2. Plain(insn) \in Ops /\ Plain(insn).do = "none"
  BY <1>1, OpFacts DEF Plain
<1>3. Loose(Plain(insn)) BY <1>2, Zenon DEF Loose
<1>4. QED BY <1>2, <1>3

\* A function from 1 .. n is a sequence (the repeated blocks of CA_measure.c).
LEMMA Listed ==
  ASSUME NEW S, NEW n \in Nat, NEW f \in [1 .. n -> S]
  PROVE  f \in Seq(S) /\ Len(f) = n
  OBVIOUS

\* A block of instructions that only take time.
PlainBlock(p) == p \in Seq(Ops) /\ \A i \in 1 .. Len(p) : p[i].do = "none"

\* Such a block is a piece of firmware that only takes time.
LEMMA PlainPiece == ASSUME NEW p, PlainBlock(p) PROVE Piece(p, {"none"})
<1>1. p \in Seq(Ops) /\ \A i \in 1 .. Len(p) : p[i].do \in {"none"} \ Tied /\ Loose(p[i])
  BY Zenon DEF PlainBlock, Tied, Loose
<1>2. QED BY <1>1, LoosePiece, Zenon

\* Such a block, repeated (CA_REPEAT of CA_measure.c).
LEMMA RepeatPlain ==
  ASSUME NEW p, PlainBlock(p), p # <<>>, NEW n \in Nat
  PROVE  PlainBlock(Repeat(n, p))
<1> DEFINE m == n * Len(p)
           f == [i \in 1 .. m |-> p[1 + ((i - 1) % Len(p))]]
<1>1. Len(p) \in Nat \ {0} /\ m \in Nat
  <2>1. p \in Seq(Ops) BY DEF PlainBlock
  <2>2. Len(p) \in Nat \ {0} BY ONLY <2>1, p # <<>>
  <2>3. QED BY <2>2
<1>2. \A i \in 1 .. m : 1 + ((i - 1) % Len(p)) \in 1 .. Len(p)
  BY <1>1
<1>3. \A j \in 1 .. Len(p) : p[j] \in Ops /\ p[j].do = "none"
  <2>1. p \in Seq(Ops) BY DEF PlainBlock
  <2>2. \A j \in 1 .. Len(p) : p[j] \in Ops BY ONLY <2>1
  <2>3. QED BY <2>2, Zenon DEF PlainBlock
<1> HIDE DEF m
<1>4. f \in [1 .. m -> Ops] /\ \A i \in 1 .. m : f[i].do = "none"
  BY <1>2, <1>3, Zenon
<1>5. Repeat(n, p) = f BY DEF Repeat, m
<1> HIDE DEF f
<1>6. f \in Seq(Ops) /\ Len(f) = m BY <1>1, <1>4, Listed, Zenon
<1>7. QED BY <1>4, <1>5, <1>6, Zenon DEF PlainBlock

\* An instruction for each line of the walk, each followed by another one.
LEMMA WalkPlain ==
  ASSUME NEW step \in [1 .. Events -> Ops], \A i \in 1 .. Events : step[i].do = "none",
         NEW then \in Ops, then.do = "none"
  PROVE  PlainBlock(Walk(step, then))
<1> DEFINE m == 2 * Events
           f == [i \in 1 .. m |-> IF i % 2 = 1 THEN step[(i + 1) \div 2] ELSE then]
<1>1. Events \in Nat /\ m \in Nat BY SpikeAssumption DEF SpikeAssumption
<1>2. \A i \in 1 .. m : (i + 1) \div 2 \in 1 .. Events
  BY <1>1
<1> HIDE DEF m
<1>3. f \in [1 .. m -> Ops] /\ \A i \in 1 .. m : f[i].do = "none"
  BY <1>2, Zenon
<1>4. Walk(step, then) = f BY DEF Walk, m
<1> HIDE DEF f
<1>5. f \in Seq(Ops) /\ Len(f) = m BY <1>1, <1>3, Listed, Zenon
<1>6. QED BY <1>3, <1>4, <1>5, Zenon DEF PlainBlock

\* Blocks of one and of two instructions.
LEMMA ShortPlain ==
  ASSUME NEW a \in Ops, NEW b \in Ops, a.do = "none", b.do = "none"
  PROVE  PlainBlock(<<a>>) /\ PlainBlock(<<a, b>>) /\ PlainBlock(<<>>) /\ <<a>> # <<>> /\ <<a, b>> # <<>>
<1>1. <<a>> \in Seq(Ops) /\ Len(<<a>>) = 1 /\ <<a>>[1] = a /\ <<a>> # <<>> OBVIOUS
<1>2. <<a, b>> \in Seq(Ops) /\ Len(<<a, b>>) = 2 /\ <<a, b>>[1] = a /\ <<a, b>>[2] = b /\ <<a, b>> # <<>>
  OBVIOUS
<1>3. <<>> \in Seq(Ops) /\ \A i \in 1 .. Len(<<>>) : FALSE OBVIOUS
<1>4. (\A i \in 1 .. 1 : i = 1) /\ (\A i \in 1 .. 2 : i = 1 \/ i = 2) OBVIOUS
<1>5. PlainBlock(<<a>>) BY <1>1, <1>4, Zenon DEF PlainBlock
<1>6. PlainBlock(<<a, b>>) BY <1>2, <1>4, Zenon DEF PlainBlock
<1>7. PlainBlock(<<>>) BY <1>3, Zenon DEF PlainBlock
<1>8. QED BY <1>1, <1>2, <1>5, <1>6, <1>7, Zenon

\* The measured blocks of CA_measure.c do nothing else than take time.
LEMMA BlockPiece == ASSUME NEW name \in Blocks PROVE Piece(Block(name), {"none"})
<1>1. 7 \in Nat /\ 9 \in Nat /\ BufLine = 7 /\ SinkLine = 9 BY DEF BufLine, SinkLine
<1> DEFINE ld == Plain(Load(BufLine))
           st == Plain(Store(SinkLine))
           use == Plain(Insn("alu", 2, {1, 2}, "tcm", 0, 0))
           alu == Plain(Alu)
           walk == [i \in 1 .. Events |-> Plain(Load(WalkLine(i)))]
<1>2. /\ ld \in Ops /\ ld.do = "none" /\ st \in Ops /\ st.do = "none"
      /\ use \in Ops /\ use.do = "none" /\ alu \in Ops /\ alu.do = "none"
  BY <1>1, InsnFacts, PlainFacts, Zenon
<1>3. Events \in Nat /\ Sets \in Nat
  BY SpikeAssumption, TimingAssumption DEF SpikeAssumption, TimingAssumption
<1>4. \A i \in 1 .. Events : WalkLine(i) \in Nat BY <1>3 DEF WalkLine
<1>5. walk \in [1 .. Events -> Ops] /\ \A i \in 1 .. Events : walk[i].do = "none"
  BY <1>4, InsnFacts, PlainFacts, Zenon
<1> HIDE DEF ld, st, use, alu, walk
<1>6. /\ PlainBlock(<<ld, use>>) /\ PlainBlock(<<ld, alu>>) /\ PlainBlock(<<st>>) /\ PlainBlock(<<>>)
      /\ <<ld, use>> # <<>> /\ <<ld, alu>> # <<>>
  BY <1>2, ShortPlain, Zenon
<1>7. /\ Piece(Repeat(Events, <<ld, use>>), {"none"}) /\ Piece(Repeat(Events, <<ld, alu>>), {"none"})
      /\ Piece(Walk(walk, alu), {"none"}) /\ Piece(<<st>>, {"none"}) /\ Piece(<<>>, {"none"})
  BY <1>2, <1>3, <1>5, <1>6, RepeatPlain, WalkPlain, PlainPiece, Zenon
<1>8. Block(name) \in {<<>>, Repeat(Events, <<ld, use>>) \o <<st>>, Repeat(Events, <<ld, alu>>) \o <<st>>,
                       Walk(walk, alu) \o <<st>>}
  BY Zenon DEF Block, Blocks, ld, st, use, alu, walk
<1>9. QED BY <1>7, <1>8, JoinedPieces, Zenon

-----------------------------------------------------------------------------
(* The programs *)

\* Firmware that can run: it consists of pieces and ends in a loop.
Runnable(p, deeds) == Piece(p, deeds) /\ p # <<>> /\ p[Len(p)].do = "spin"

\* A piece of one or two instructions that do not read the counter.
LEMMA ShortPiece ==
  ASSUME NEW D, NEW a \in Ops, NEW b \in Ops, a.do \in D \ Tied, b.do \in D \ Tied, Loose(a), Loose(b)
  PROVE  Piece(<<a>>, D) /\ Piece(<<a, b>>, D)
<1>1. <<a>> \in Seq(Ops) /\ Len(<<a>>) = 1 /\ <<a>>[1] = a OBVIOUS
<1>2. <<a, b>> \in Seq(Ops) /\ Len(<<a, b>>) = 2 /\ <<a, b>>[1] = a /\ <<a, b>>[2] = b
  OBVIOUS
<1>3. (\A i \in 1 .. 1 : i = 1) /\ (\A i \in 1 .. 2 : i = 1 \/ i = 2) OBVIOUS
<1>4. \A i \in 1 .. Len(<<a>>) : <<a>>[i].do \in D \ Tied /\ Loose(<<a>>[i]) BY <1>1, <1>3, Zenon
<1>5. \A i \in 1 .. Len(<<a, b>>) : <<a, b>>[i].do \in D \ Tied /\ Loose(<<a, b>>[i]) BY <1>2, <1>3, Zenon
<1>6. QED BY <1>1, <1>2, <1>4, <1>5, LoosePiece, Zenon

\* What does not read the counter, alone or by two.
LEMMA SinglePiece ==
  ASSUME NEW D, NEW do \in Deeds \ Tied, do \in D, NEW insn \in Instructions,
         NEW val \in Vals,
         do = "bp" => val \in Breakpoints, do = "tohost lo" => val \in Nat, do = "tohost hi" => val = 0
  PROVE  Piece(<<I(do, val, insn)>>, D)
<1> DEFINE a == I(do, val, insn)
<1>1. a \in Ops /\ a.do = do /\ a.val = val
  <2>1. do \in Deeds OBVIOUS
  <2>2. QED BY ONLY <2>1, val \in Vals, insn \in Instructions, OpFacts
<1> HIDE DEF a
<1>2. a.do \in D \ Tied BY <1>1, Zenon
<1>3. Loose(a) BY <1>1, Zenon DEF Loose
<1>4. Piece(<<a>>, D) BY <1>1, <1>2, <1>3, ShortPiece, Zenon
<1>5. QED BY <1>4, Zenon DEF a

\* The lines of memory are numbers.
LEMMA LineFacts ==
  BpLine \in Nat /\ MirrorLine \in Nat /\ TableLine \in Nat /\ TohostLine \in Nat /\ BufLine \in Nat
  BY DEF BpLine, MirrorLine, TableLine, TohostLine, BufLine

\* One instruction that only takes time.
LEMMA PlainOne == ASSUME NEW insn \in Instructions PROVE Piece(<<Plain(insn)>>, {"none"})
<1>1. PlainBlock(<<Plain(insn)>>)
  BY PlainFacts, ShortPlain, Zenon
<1>2. QED BY <1>1, PlainPiece, Zenon

\* while (1) at the end of every program.
LEMMA SpinPiece == ASSUME NEW D, "spin" \in D PROVE Piece(Spin, D) /\ Spin # <<>> /\ Spin[Len(Spin)].do = "spin"
<1>1. "spin" \in Deeds \ Tied /\ 0 \in Vals BY DEF Deeds, Tied, Vals
<1>2. I("spin", 0, Jump).do = "spin" BY <1>1, InsnFacts, OpFacts
<1>3. \A a : <<a>> # <<>> /\ <<a>>[Len(<<a>>)] = a OBVIOUS
<1>4. Piece(Spin, D) BY <1>1, InsnFacts, SinglePiece, Zenon DEF Spin
<1>5. QED BY <1>2, <1>3, <1>4, Zenon DEF Spin

\* Whatever comes before it, a program that ends in a loop can run.
LEMMA EndsInLoop ==
  ASSUME NEW D, NEW p, Piece(p, D), NEW q, Runnable(q, D)
  PROVE  Runnable(p \o q, D)
<1>1. p \in Seq(Ops) /\ q \in Seq(Ops) /\ q # <<>> /\ q[Len(q)].do = "spin" BY DEF Piece, Runnable
<1>2. p \o q # <<>> /\ (p \o q)[Len(p \o q)] = q[Len(q)]
  <2>1. /\ Len(p \o q) = Len(p) + Len(q) /\ Len(p) \in Nat /\ Len(q) \in Nat /\ Len(q) # 0
        /\ \A i \in Len(p) + 1 .. Len(p) + Len(q) : (p \o q)[i] = q[i - Len(p)]
    BY ONLY <1>1, Joined
  <2>2. /\ Len(p) + Len(q) \in Len(p) + 1 .. Len(p) + Len(q) /\ (Len(p) + Len(q)) - Len(p) = Len(q)
        /\ Len(p) + Len(q) # 0
    BY <2>1
  <2>3. (p \o q)[Len(p \o q)] = q[Len(q)] BY <2>1, <2>2, Zenon
  <2>4. p \o q # <<>>
    <3>1. Len(p \o q) # 0 BY <2>1, <2>2, Zenon
    <3>2. Len(<<>>) = 0 OBVIOUS
    <3>3. QED BY <3>1, <3>2, Zenon
  <2>5. QED BY <2>3, <2>4
<1>3. QED BY <1>1, <1>2, JoinedPieces, Zenon DEF Runnable

\* dut_set_bp
LEMMA BpPiece == ASSUME NEW bp \in Breakpoints PROVE Piece(SetBp(bp), {"bp"})
<1>1. "bp" \in Deeds \ Tied /\ bp \in Vals BY DEF Deeds, Tied, Vals
<1>2. Store(BpLine) \in Instructions BY LineFacts, InsnFacts, Zenon
<1>3. QED BY <1>1, <1>2, SinglePiece, Zenon DEF SetBp

\* exit, whichever half of the word is stored first.
LEMMA ExitRuns ==
  ASSUME NEW code \in Nat, NEW order
  PROVE  Runnable(Exit(code, order), {"tohost lo", "tohost hi", "spin"})
<1> DEFINE D == {"tohost lo", "tohost hi", "spin"}
           lo == I("tohost lo", 2 * code + 1, Store(TohostLine))
           hi == I("tohost hi", 0, Store(TohostLine))
<1>1. /\ "tohost lo" \in Deeds \ Tied /\ "tohost hi" \in Deeds \ Tied
      /\ 0 \in Vals /\ 2 * code + 1 \in Nat /\ 2 * code + 1 \in Vals
  BY DEF Deeds, Tied, Vals
<1>2. Store(TohostLine) \in Instructions BY LineFacts, InsnFacts, Zenon
<1>3. /\ lo \in Ops /\ lo.do = "tohost lo" /\ lo.val = 2 * code + 1
      /\ hi \in Ops /\ hi.do = "tohost hi" /\ hi.val = 0
  <2>1. ASSUME NEW do \in Deeds, NEW v \in Vals
        PROVE  I(do, v, Store(TohostLine)) \in Ops /\ I(do, v, Store(TohostLine)).do = do
               /\ I(do, v, Store(TohostLine)).val = v
    BY ONLY <1>2, <2>1, OpFacts
  <2>2. "tohost lo" \in Deeds /\ "tohost hi" \in Deeds BY <1>1
  <2>3. QED BY <1>1, <2>1, <2>2, Zenon
<1> HIDE DEF lo, hi
<1>4. lo.do \in D \ Tied /\ hi.do \in D \ Tied BY <1>1, <1>3, Zenon
<1>5. Loose(lo) /\ Loose(hi)
  <2>1. lo.val \in Nat BY <1>1, <1>3, Zenon
  <2>2. QED BY <1>3, <2>1, Zenon DEF Loose
<1>6. Piece(<<lo, hi>>, D) /\ Piece(<<hi, lo>>, D) BY <1>3, <1>4, <1>5, ShortPiece, Zenon
<1>7. Runnable(Spin, D) BY SpinPiece, Zenon DEF Runnable
<1> HIDE DEF D
<1>8. Runnable(<<lo, hi>> \o Spin, D) /\ Runnable(<<hi, lo>> \o Spin, D)
  BY <1>6, <1>7, EndsInLoop, Zenon
<1>9. QED BY <1>8, Zenon DEF Exit, lo, hi, D

\* Four instructions in a row.
LEMMA Four ==
  ASSUME NEW a \in Ops, NEW b \in Ops, NEW c \in Ops, NEW d \in Ops
  PROVE  LET p == <<a, b, c, d>>
         IN  /\ p \in Seq(Ops) /\ Len(p) = 4 /\ p[1] = a /\ p[2] = b /\ p[3] = c /\ p[4] = d
             /\ \A i \in 1 .. 4 : i = 1 \/ i = 2 \/ i = 3 \/ i = 4
  OBVIOUS

\* The loop of verif_ca_get_cycle.
LEMMA GetCyclePiece == Piece(GetCycle, Reads \cup {"again"})
<1> DEFINE a == I("read hi", 0, Csr)
           b == I("read lo", 0, Csr)
           c == I("read hi2", 0, Csr)
           d == I("again", 0, Branch(0))
           p == <<a, b, c, d>>
<1>1. /\ a \in Ops /\ a.do = "read hi" /\ a.insn = Csr /\ b \in Ops /\ b.do = "read lo" /\ b.insn = Csr
      /\ c \in Ops /\ c.do = "read hi2" /\ c.insn = Csr /\ d \in Ops /\ d.do = "again"
  <2>1. ASSUME NEW do \in Deeds, NEW insn \in Instructions
        PROVE  I(do, 0, insn) \in Ops /\ I(do, 0, insn).do = do /\ I(do, 0, insn).insn = insn
    <3>1. 0 \in Vals BY DEF Vals
    <3>2. QED BY ONLY <2>1, <3>1, OpFacts
  <2>2. "read hi" \in Deeds /\ "read lo" \in Deeds /\ "read hi2" \in Deeds /\ "again" \in Deeds
    BY DEF Deeds
  <2>3. 0 \in {0, 1} /\ Csr \in Instructions /\ Branch(0) \in Instructions BY InsnFacts
  <2>4. QED BY <2>1, <2>2, <2>3, Zenon
<1> HIDE DEF a, b, c, d
<1>2. /\ p \in Seq(Ops) /\ Len(p) = 4 /\ p[1] = a /\ p[2] = b /\ p[3] = c /\ p[4] = d
      /\ \A i \in 1 .. 4 : i = 1 \/ i = 2 \/ i = 3 \/ i = 4
  BY <1>1, Four, Zenon
<1>3. GetCycle = p BY Zenon DEF GetCycle, a, b, c, d
<1> HIDE DEF p
<1>4. 3 - 1 = 2 /\ 3 - 2 = 1 /\ 4 - 1 = 3 /\ 3 > 2 /\ 4 > 3 /\ ~(4 > 4) OBVIOUS
<1>5. InPlace(p, 1) /\ InPlace(p, 2) BY <1>1, <1>2, Zenon DEF InPlace, Reads
<1>6. InPlace(p, 3) BY <1>1, <1>2, <1>4, Zenon DEF InPlace, Reads
<1>7. InPlace(p, 4) BY <1>1, <1>2, <1>4, Zenon DEF InPlace, Reads
<1>8. \A i \in 1 .. Len(p) : InPlace(p, i) /\ p[i].do \in Reads \cup {"again"}
  BY <1>1, <1>2, <1>5, <1>6, <1>7, Zenon DEF Reads
<1>9. p[Len(p)].do # "read lo" BY <1>1, <1>2, Zenon
<1>10. QED BY <1>2, <1>3, <1>8, <1>9, Zenon DEF Piece

\* The first half of verif_ca_mark_cycle: the cycles.
MarkCycle == <<I("read lo", 0, Csr), I("read hi", 0, Csr), I("mark hi", 0, Store(MirrorLine)),
               I("mark lo", 0, Store(MirrorLine))>>

\* It is a piece, and stores the low word last.
LEMMA MarkPiece ==
  /\ Piece(MarkCycle, {"read lo", "read hi", "mark hi", "mark lo"})
  /\ Len(MarkCycle) = 4 /\ MarkCycle[4].do = "mark lo"
<1> DEFINE a == I("read lo", 0, Csr)
           b == I("read hi", 0, Csr)
           c == I("mark hi", 0, Store(MirrorLine))
           d == I("mark lo", 0, Store(MirrorLine))
           p == <<a, b, c, d>>
<1>1. /\ a \in Ops /\ a.do = "read lo" /\ a.insn = Csr /\ b \in Ops /\ b.do = "read hi" /\ b.insn = Csr
      /\ c \in Ops /\ c.do = "mark hi" /\ d \in Ops /\ d.do = "mark lo"
  <2>1. ASSUME NEW do \in Deeds, NEW insn \in Instructions
        PROVE  I(do, 0, insn) \in Ops /\ I(do, 0, insn).do = do /\ I(do, 0, insn).insn = insn
    <3>1. 0 \in Vals BY DEF Vals
    <3>2. QED BY ONLY <2>1, <3>1, OpFacts
  <2>2. "read hi" \in Deeds /\ "read lo" \in Deeds /\ "mark hi" \in Deeds /\ "mark lo" \in Deeds
    BY DEF Deeds
  <2>3. Csr \in Instructions /\ Store(MirrorLine) \in Instructions BY LineFacts, InsnFacts
  <2>4. QED BY <2>1, <2>2, <2>3, Zenon
<1> HIDE DEF a, b, c, d
<1>2. /\ p \in Seq(Ops) /\ Len(p) = 4 /\ p[1] = a /\ p[2] = b /\ p[3] = c /\ p[4] = d
      /\ \A i \in 1 .. 4 : i = 1 \/ i = 2 \/ i = 3 \/ i = 4
  BY <1>1, Four, Zenon
<1>3. MarkCycle = p BY Zenon DEF MarkCycle, a, b, c, d
<1> HIDE DEF p
<1>4. 3 - 1 = 2 /\ 3 - 2 = 1 /\ 4 - 1 = 3 /\ 3 > 2 /\ 4 > 1 OBVIOUS
<1>5. InPlace(p, 1) /\ InPlace(p, 2) BY <1>1, <1>2, Zenon DEF InPlace, Reads
<1>6. InPlace(p, 3) BY <1>1, <1>2, <1>4, Zenon DEF InPlace, Reads
<1>7. InPlace(p, 4) BY <1>1, <1>2, <1>4, Zenon DEF InPlace, Reads
<1>8. \A i \in 1 .. Len(p) : InPlace(p, i) /\ p[i].do \in {"read lo", "read hi", "mark hi", "mark lo"}
  BY <1>1, <1>2, <1>5, <1>6, <1>7, Zenon
<1>9. p[Len(p)].do # "read lo" BY <1>1, <1>2, Zenon
<1>10. QED BY <1>1, <1>2, <1>3, <1>8, <1>9, Zenon DEF Piece

\* The reads of the instruction count take time and nothing else.
LEMMA InstretPieces == Piece(MarkInstret, {"none"}) /\ Piece(GetInstret, {"none"})
<1> DEFINE a == Plain(Csr)
           b == Plain(Store(MirrorLine))
           c == Plain(Branch(0))
<1>1. /\ a \in Ops /\ a.do = "none" /\ b \in Ops /\ b.do = "none" /\ c \in Ops /\ c.do = "none"
  <2>1. 0 \in {0, 1} OBVIOUS
  <2>2. Csr \in Instructions /\ Store(MirrorLine) \in Instructions /\ Branch(0) \in Instructions
    BY <2>1, LineFacts, InsnFacts
  <2>3. QED BY <2>2, PlainFacts, Zenon
<1> HIDE DEF a, b, c
<1>2. 2 \in Nat /\ 3 \in Nat OBVIOUS
<1>3. /\ PlainBlock(<<a, b>>) /\ <<a, b>> # <<>> /\ PlainBlock(<<a>>) /\ <<a>> # <<>> /\ PlainBlock(<<c>>)
  BY <1>1, ShortPlain, Zenon
<1>4. /\ Piece(Repeat(2, <<a, b>>), {"none"}) /\ Piece(Repeat(3, <<a>>), {"none"}) /\ Piece(<<c>>, {"none"})
  BY <1>2, <1>3, RepeatPlain, PlainPiece, Zenon
<1>5. QED BY <1>4, JoinedPieces, Zenon DEF MarkInstret, GetInstret, a, b, c

\* What firmware that neither opens interrupts nor measures may do.
Calm == Deeds \ {"mie", "table"}

\* The small programs: exit, the console, a loop, any instructions, the handshake.
LEMMA SmallPrograms ==
  /\ \A code \in Nat : \A order : Runnable(<<Plain(Alu)>> \o Exit(code, order), Calm)
  /\ Runnable(Console, Calm)
  /\ Runnable(Spin, Calm)
  /\ Runnable(<<I("any", 0, Alu)>> \o Exit(0, "lo"), Calm)
  /\ Runnable(Handshake, Calm)
<1> DEFINE out == {"tohost lo", "tohost hi", "spin"}
<1>1. {"none"} \subseteq Calm /\ out \subseteq Calm /\ {"bp"} \subseteq Calm /\ "spin" \in Calm
      /\ "any" \in Calm \ Tied /\ "poll" \in Calm \ Tied /\ "any" \in Deeds \ Tied /\ "poll" \in Deeds \ Tied
      /\ 0 \in Vals /\ MagicAddr \in Nat /\ MagicAddr \in Vals
  BY SpikeAssumption, TimingAssumption DEF SpikeAssumption, TimingAssumption, Calm, Deeds, Tied, Vals
<1>2. \A code \in Nat : \A order : Runnable(Exit(code, order), Calm)
  BY <1>1, ExitRuns, Widens, Zenon DEF Runnable
<1>3. Runnable(Spin, Calm) BY <1>1, SpinPiece, Zenon DEF Runnable
<1>4. \A insn \in Instructions : Piece(<<Plain(insn)>>, Calm)
  BY <1>1, PlainOne, Widens, Zenon
<1>5. \A bp \in Breakpoints : Piece(SetBp(bp), Calm)
  BY <1>1, BpPiece, Widens, Zenon
<1>6. /\ Alu \in Instructions /\ Store(BufLine) \in Instructions /\ Store(TohostLine) \in Instructions
      /\ Load(BpLine) \in Instructions /\ Store(BpLine) \in Instructions
  BY LineFacts, InsnFacts, Zenon
<1>7. 0 \in Nat OBVIOUS
<1>8. \A code \in Nat : \A order : Runnable(<<Plain(Alu)>> \o Exit(code, order), Calm)
  BY <1>2, <1>4, <1>6, EndsInLoop, Zenon
<1>9. Runnable(Console, Calm)
  <2> DEFINE a == Plain(Store(BufLine))
             b == I("tohost lo", MagicAddr, Store(TohostLine))
             c == I("tohost hi", 0, Store(TohostLine))
  <2>1. a \in Ops /\ a.do = "none" /\ Loose(a) BY <1>6, PlainFacts, Zenon
  <2>2. /\ b \in Ops /\ b.do = "tohost lo" /\ b.val = MagicAddr
        /\ c \in Ops /\ c.do = "tohost hi" /\ c.val = 0
    <3>1. ASSUME NEW do \in Deeds, NEW v \in Vals
          PROVE  I(do, v, Store(TohostLine)) \in Ops /\ I(do, v, Store(TohostLine)).do = do
                 /\ I(do, v, Store(TohostLine)).val = v
      BY ONLY <1>6, <3>1, OpFacts
    <3>2. "tohost lo" \in Deeds /\ "tohost hi" \in Deeds BY DEF Deeds
    <3>3. QED BY <1>1, <3>1, <3>2, Zenon
  <2> HIDE DEF a, b, c
  <2>3. Loose(b) /\ Loose(c)
    <3>1. b.val \in Nat BY <1>1, <2>2, Zenon
    <3>2. QED BY <2>2, <3>1, Zenon DEF Loose
  <2>4. a.do \in Calm \ Tied /\ b.do \in Calm \ Tied /\ c.do \in Calm \ Tied
    <3>1. "none" \in Calm \ Tied /\ "tohost lo" \in Calm \ Tied /\ "tohost hi" \in Calm \ Tied
      BY DEF Calm, Deeds, Tied
    <3>2. QED BY <2>1, <2>2, <3>1, Zenon
  <2>5. Piece(<<a, b, c>>, Calm)
    <3>1. /\ <<a, b, c>> \in Seq(Ops)
          /\ \A i \in 1 .. Len(<<a, b, c>>) :
                <<a, b, c>>[i] = a \/ <<a, b, c>>[i] = b \/ <<a, b, c>>[i] = c
      <4>1. a \in Ops /\ b \in Ops /\ c \in Ops BY <2>1, <2>2
      <4>2. QED BY ONLY <4>1
    <3>2. QED BY <2>1, <2>3, <2>4, <3>1, LoosePiece, Zenon
  <2>6. Runnable(<<a, b, c>> \o Spin, Calm) BY <1>3, <2>5, EndsInLoop, Zenon
  <2>7. QED BY <2>6, Zenon DEF Console, a, b, c
<1>10. Runnable(<<I("any", 0, Alu)>> \o Exit(0, "lo"), Calm)
  <2>1. Piece(<<I("any", 0, Alu)>>, Calm) BY <1>1, <1>6, SinglePiece
  <2>2. QED BY <1>2, <1>7, <2>1, EndsInLoop, Zenon
<1>11. Runnable(Handshake, Calm)
  <2> DEFINE p1 == SetBp("none")
             p2 == <<Plain(Store(BpLine)), Plain(Alu)>>
             p3 == SetBp("done")
             p4 == <<Plain(Alu)>>
             p5 == <<I("poll", 0, Load(BpLine))>>
  <2>1. "none" \in Breakpoints /\ "done" \in Breakpoints BY DEF Breakpoints
  <2>2. Piece(p1, Calm) /\ Piece(p3, Calm) /\ Piece(p4, Calm) BY <1>4, <1>5, <1>6, <2>1, Zenon
  <2>3. Piece(p2, Calm) BY <1>1, <1>6, PlainFacts, ShortPlain, PlainPiece, Widens, Zenon
  <2>4. Piece(p5, Calm) BY <1>1, <1>6, SinglePiece
  <2>5. Handshake = p1 \o p2 \o p3 \o p4 \o p5 \o Exit(0, "lo") BY Zenon DEF Handshake
  <2> HIDE DEF p1, p2, p3, p4, p5
  <2>6. QED BY <1>2, <1>7, <2>2, <2>3, <2>4, <2>5, JoinedPieces, EndsInLoop, Zenon
<1>12. QED BY <1>3, <1>8, <1>9, <1>10, <1>11

\* What comes first in a program stays first.
LEMMA FirstStays ==
  ASSUME NEW p \in Seq(Ops), NEW q \in Seq(Ops), p # <<>>
  PROVE  p \o q \in Seq(Ops) /\ p \o q # <<>> /\ (p \o q)[1] = p[1]
  OBVIOUS

\* The interrupt latency firmware: the handler follows the program, which never
\* runs into it.
LEMMA IrqProgram ==
  /\ Runnable(IrqMain \o IrqHandler, Deeds \ {"table"})
  /\ Len(IrqMain) + 1 \in 1 .. Len(IrqMain \o IrqHandler)
  /\ (IrqMain \o IrqHandler)[Len(IrqMain) + 1].do = "none"
<1> DEFINE D == Deeds \ {"table"}
           alu == Plain(Alu)
           csr == Plain(Csr)
           m1 == <<alu, alu, csr, alu, csr, alu, alu>>
           m2 == SetBp("begin")
           m3 == <<I("mie", 0, Csr)>>
           h1 == <<alu, alu>>
           h2 == SetBp("end")
           h3 == Repeat(3, <<alu>>)
           h4 == Exit(0, "lo")
<1>1. {"none"} \subseteq D /\ {"tohost lo", "tohost hi", "spin"} \subseteq D /\ {"bp"} \subseteq D /\ "spin" \in D
      /\ "mie" \in D /\ "mie" \in Deeds \ Tied /\ 0 \in Vals
  BY DEF Deeds, Tied, Vals
<1>2. alu \in Ops /\ alu.do = "none" /\ csr \in Ops /\ csr.do = "none" BY InsnFacts, PlainFacts, Zenon
<1>3. Piece(m3, D) BY <1>1, InsnFacts, SinglePiece
<1>4. Runnable(Spin, D) BY <1>1, SpinPiece, Zenon DEF Runnable
<1>5. Runnable(h4, D)
  <2>1. 0 \in Nat OBVIOUS
  <2>2. QED BY <1>1, <2>1, ExitRuns, Widens, Zenon DEF Runnable
<1>6. Piece(m2, D) /\ Piece(h2, D)
  <2>1. "begin" \in Breakpoints /\ "end" \in Breakpoints BY DEF Breakpoints
  <2>2. QED BY <1>1, <2>1, BpPiece, Widens, Zenon
<1>7. IrqMain = m1 \o m2 \o m3 \o Spin /\ IrqHandler = h1 \o h2 \o h3 \o h4
  BY Zenon DEF IrqMain, IrqHandler
<1> HIDE DEF alu, csr, m2, m3, h2, h4, D
<1>8. Piece(m1, D)
  <2>1. m1 \in Seq(Ops) /\ \A i \in 1 .. Len(m1) : m1[i] = alu \/ m1[i] = csr
    BY ONLY <1>2
  <2>2. PlainBlock(m1) BY <1>2, <2>1, Zenon DEF PlainBlock
  <2>3. Piece(m1, {"none"}) BY <2>2, PlainPiece, Zenon
  <2> HIDE DEF m1
  <2>4. QED BY <1>1, <2>3, Widens, Zenon
<1>9. Piece(h1, D) /\ Piece(h3, D) /\ h1 \in Seq(Ops) /\ h1 # <<>> /\ h1[1] = alu
  <2>1. PlainBlock(h1) /\ PlainBlock(<<alu>>) /\ <<alu>> # <<>> BY <1>2, ShortPlain, Zenon
  <2>2. 3 \in Nat OBVIOUS
  <2>3. PlainBlock(h3) BY <2>1, <2>2, RepeatPlain, Zenon
  <2>4. h1[1] = alu /\ h1 # <<>> /\ h1 \in Seq(Ops) BY ONLY <1>2
  <2>5. Piece(h1, {"none"}) /\ Piece(h3, {"none"}) BY <2>1, <2>3, PlainPiece, Zenon
  <2> HIDE DEF h1, h3
  <2>6. Piece(h1, D) /\ Piece(h3, D) BY <1>1, <2>5, Widens, Zenon
  <2>7. QED BY <2>4, <2>6, Zenon
<1> HIDE DEF m1, h1, h3
<1>10. Piece(IrqMain, D) BY <1>3, <1>4, <1>6, <1>7, <1>8, JoinedPieces, Zenon DEF Runnable
<1>11. Runnable(IrqHandler, D) BY <1>5, <1>6, <1>7, <1>9, JoinedPieces, EndsInLoop, Zenon
<1>12. Runnable(IrqMain \o IrqHandler, D) BY <1>10, <1>11, EndsInLoop, Zenon
<1>13. IrqHandler[1] = alu
  <2>1. h1 \o h2 \in Seq(Ops) /\ h1 \o h2 # <<>> /\ (h1 \o h2)[1] = alu
    BY <1>6, <1>9, FirstStays, Zenon DEF Piece
  <2>2. /\ h1 \o h2 \o h3 \in Seq(Ops) /\ h1 \o h2 \o h3 # <<>> /\ (h1 \o h2 \o h3)[1] = alu
    BY <1>9, <2>1, FirstStays, Zenon DEF Piece
  <2>3. QED BY <1>5, <1>7, <2>2, FirstStays, Zenon DEF Piece, Runnable
<1>14. IrqMain \in Seq(Ops) /\ IrqHandler \in Seq(Ops) /\ IrqHandler # <<>>
  BY <1>10, <1>11, Zenon DEF Piece, Runnable
<1>15. /\ Len(IrqMain \o IrqHandler) = Len(IrqMain) + Len(IrqHandler) /\ Len(IrqMain) \in Nat
       /\ Len(IrqHandler) \in Nat /\ Len(IrqHandler) # 0
       /\ \A i \in Len(IrqMain) + 1 .. Len(IrqMain) + Len(IrqHandler) :
             (IrqMain \o IrqHandler)[i] = IrqHandler[i - Len(IrqMain)]
  BY ONLY <1>14, Joined
<1>16. /\ Len(IrqMain) + 1 \in Len(IrqMain) + 1 .. Len(IrqMain) + Len(IrqHandler)
       /\ (Len(IrqMain) + 1) - Len(IrqMain) = 1
       /\ Len(IrqMain) + 1 \in 1 .. Len(IrqMain) + Len(IrqHandler)
  BY <1>15
<1>17. QED BY <1>2, <1>12, <1>13, <1>15, <1>16, Zenon DEF D

\* What CA_measure.c does while it measures a block, and while it marks the time.
Quiet == {"none", "c0", "again"} \cup Reads
Marking == Quiet \cup {"mark hi", "mark lo", "start"}

\* A piece of firmware of which only the last instruction is not one of these.
ButLast(p, deeds) ==
  /\ Piece(p, Deeds \ {"mie"}) /\ Len(p) \in Nat /\ Len(p) # 0
  /\ \A i \in 1 .. Len(p) : i # Len(p) => p[i].do \in deeds

\* A piece followed by one instruction.
LEMMA OneMore ==
  ASSUME NEW D, D \subseteq Deeds \ {"mie"}, NEW p, Piece(p, D), NEW op, Piece(<<op>>, Deeds \ {"mie"})
  PROVE  ButLast(p \o <<op>>, D) /\ (p \o <<op>>)[Len(p \o <<op>>)] = op
<1>1. p \in Seq(Ops) /\ <<op>> \in Seq(Ops) BY DEF Piece
<1>2. Len(<<op>>) = 1 /\ <<op>>[1] = op OBVIOUS
<1>3. /\ Len(p \o <<op>>) = Len(p) + 1 /\ Len(p) \in Nat
      /\ \A i \in 1 .. Len(p) : (p \o <<op>>)[i] = p[i]
      /\ \A i \in Len(p) + 1 .. Len(p) + 1 : (p \o <<op>>)[i] = <<op>>[i - Len(p)]
  BY ONLY <1>1, <1>2, Joined
<1>4. /\ Len(p) + 1 \in Len(p) + 1 .. Len(p) + 1 /\ (Len(p) + 1) - Len(p) = 1
      /\ Len(p) + 1 \in Nat /\ Len(p) + 1 # 0
      /\ \A i \in 1 .. Len(p) + 1 : i # Len(p) + 1 => i \in 1 .. Len(p)
  BY <1>3
<1>5. (p \o <<op>>)[Len(p) + 1] = op BY <1>2, <1>3, <1>4, Zenon
<1>6. Piece(p \o <<op>>, Deeds \ {"mie"}) BY Widens, JoinedPieces, Zenon
<1>7. \A i \in 1 .. Len(p) : p[i].do \in D BY Zenon DEF Piece
<1>8. QED BY <1>3, <1>4, <1>5, <1>6, <1>7, Zenon DEF ButLast

\* ca_run: measures, then records.
LEMMA RunShape ==
  ASSUME NEW name \in Blocks
  PROVE  ButLast(ca_run(name), Quiet) /\ ca_run(name)[Len(ca_run(name))].do = "record"
<1> DEFINE jump == <<Plain(Jump)>>
           call == jump \o Block(name) \o jump
           c0 == <<I("c0", 0, Alu)>>
           op == I("record", name, Store(TableLine))
           body == call \o GetCycle \o c0 \o GetInstret \o call \o GetInstret \o GetCycle
<1>1. /\ {"none"} \subseteq Quiet /\ Reads \cup {"again"} \subseteq Quiet /\ "c0" \in Quiet
      /\ "c0" \in Deeds \ Tied /\ "record" \in Deeds \ Tied /\ "record" \in Deeds \ {"mie"}
      /\ 0 \in Vals /\ name \in Vals /\ Quiet \subseteq Deeds \ {"mie"}
  BY DEF Quiet, Reads, Deeds, Tied, Vals
<1>2. Piece(c0, Quiet) BY <1>1, InsnFacts, SinglePiece
<1>3. Store(TableLine) \in Instructions BY LineFacts, InsnFacts, Zenon
<1>4. Piece(<<op>>, Deeds \ {"mie"}) /\ op.do = "record"
  <2>1. Piece(<<op>>, Deeds \ {"mie"}) BY <1>1, <1>3, SinglePiece, Zenon
  <2>2. "record" \in Deeds BY DEF Deeds
  <2>3. op.do = "record" BY ONLY <1>1, <1>3, <2>2, OpFacts
  <2>4. QED BY <2>1, <2>3
<1>5. Piece(jump, Quiet) BY <1>1, InsnFacts, PlainOne, Widens, Zenon
<1>6. Piece(Block(name), Quiet) BY <1>1, BlockPiece, Widens, Zenon
<1> HIDE DEF jump, c0, op
<1>7. Piece(call, Quiet) BY <1>5, <1>6, JoinedPieces, Zenon
<1>8. Piece(GetCycle, Quiet) /\ Piece(GetInstret, Quiet) BY <1>1, GetCyclePiece, InstretPieces, Widens, Zenon
<1>9. ca_run(name) = body \o <<op>> BY Zenon DEF ca_run, jump, c0, op
<1> HIDE DEF call
<1>10. Piece(body, Quiet) BY <1>2, <1>7, <1>8, JoinedPieces, Zenon
<1> HIDE DEF body
<1> DEFINE run == body \o <<op>>
<1>11. ButLast(run, Quiet) /\ run[Len(run)] = op BY <1>1, <1>4, <1>10, OneMore, Zenon
<1>12. ca_run(name) = run BY <1>9
<1> HIDE DEF run
<1>13. QED BY <1>4, <1>11, <1>12, Zenon

\* verif_ca_mark_cycle is a piece.
LEMMA MarksPiece == Piece(verif_ca_mark_cycle, Marking)
<1>1. /\ {"none"} \subseteq Marking /\ {"read lo", "read hi", "mark hi", "mark lo"} \subseteq Marking
  BY DEF Marking, Quiet, Reads
<1>2. Piece(MarkCycle, Marking) /\ Piece(MarkInstret, Marking) BY <1>1, MarkPiece, InstretPieces, Widens, Zenon
<1>3. verif_ca_mark_cycle = MarkCycle \o MarkInstret BY Zenon DEF verif_ca_mark_cycle, MarkCycle
<1>4. QED BY <1>2, <1>3, JoinedPieces, Zenon

\* After its place k a piece of firmware only takes time.
Still(p, k) == p \in Seq(Ops) /\ k <= Len(p) /\ \A i \in k + 1 .. Len(p) : p[i].do = "none"

\* More instructions that only take time change nothing in this.
LEMMA StillGoesOn ==
  ASSUME NEW k \in Nat \ {0}, NEW p, Still(p, k), NEW q, Piece(q, {"none"})
  PROVE  Still(p \o q, k) /\ (p \o q)[k] = p[k]
<1> DEFINE r == p \o q
<1>1. p \in Seq(Ops) /\ q \in Seq(Ops) BY DEF Still, Piece
<1>2. /\ r \in Seq(Ops) /\ Len(r) = Len(p) + Len(q) /\ Len(p) \in Nat /\ Len(q) \in Nat
      /\ \A i \in 1 .. Len(p) : r[i] = p[i]
      /\ \A i \in Len(p) + 1 .. Len(p) + Len(q) : r[i] = q[i - Len(p)]
  BY ONLY <1>1, Joined
<1> HIDE DEF r
<1>3. k <= Len(p) BY DEF Still
<1>4. /\ \A i \in k + 1 .. Len(r) : (i \in k + 1 .. Len(p) /\ i \in 1 .. Len(p))
                                  \/ (i \in Len(p) + 1 .. Len(p) + Len(q) /\ i - Len(p) \in 1 .. Len(q))
      /\ k \in 1 .. Len(p) /\ k <= Len(r)
  <2>1. k \in Nat \ {0} OBVIOUS
  <2>2. Len(p) \in Nat /\ Len(q) \in Nat /\ Len(r) = Len(p) + Len(q) BY <1>2
  <2>3. QED BY ONLY <1>3, <2>1, <2>2
<1>5. \A j \in 1 .. Len(q) : q[j].do = "none"
  <2>1. \A j \in 1 .. Len(q) : q[j].do \in {"none"} BY Zenon DEF Piece
  <2>2. QED BY <2>1, Zenon
<1>6. \A i \in k + 1 .. Len(r) : r[i].do = "none" BY <1>2, <1>4, <1>5, Zenon DEF Still
<1>7. QED BY <1>2, <1>4, <1>6, Zenon DEF Still, r

\* The end of main: marks the time, then tells the host.
LEMMA EndShape ==
  /\ ButLast(CaEnd, Marking) /\ CaEnd[Len(CaEnd)].do = "bp" /\ CaEnd[Len(CaEnd)].val = "end"
  /\ 4 < Len(CaEnd) /\ CaEnd[4].do = "mark lo"
  /\ \A i \in 5 .. Len(CaEnd) : i # Len(CaEnd) => CaEnd[i].do = "none"
<1> DEFINE op == I("bp", "end", Store(BpLine))
           p == verif_ca_mark_cycle \o <<Plain(Alu)>>
<1>1. /\ {"none"} \subseteq Marking /\ Marking \subseteq Deeds \ {"mie"} /\ {"bp"} \subseteq Deeds \ {"mie"}
      /\ "bp" \in Deeds /\ "end" \in Vals /\ "end" \in Breakpoints
  BY DEF Marking, Quiet, Reads, Deeds, Vals, Breakpoints
<1>2. Piece(<<Plain(Alu)>>, Marking) BY <1>1, InsnFacts, PlainOne, Widens, Zenon
<1>3. Piece(p, Marking) BY <1>2, MarksPiece, JoinedPieces, Zenon
<1>4. Store(BpLine) \in Instructions BY LineFacts, InsnFacts, Zenon
<1>5. op.do = "bp" /\ op.val = "end" BY ONLY <1>1, <1>4, OpFacts
<1>6. SetBp("end") = <<op>> BY Zenon DEF SetBp
<1>7. Piece(<<op>>, Deeds \ {"mie"}) BY <1>1, <1>6, BpPiece, Widens, Zenon
<1> HIDE DEF op
<1>8. CaEnd = p \o <<op>> BY <1>6, Zenon DEF CaEnd
<1>9. Still(p, 4) /\ p[4].do = "mark lo"
  <2>1. 4 \in Nat \ {0} /\ (\A i \in 4 + 1 .. 4 : FALSE) /\ 4 <= 4 OBVIOUS
  <2>2. Still(MarkCycle, 4) /\ MarkCycle[4].do = "mark lo"
    <3>1. Len(MarkCycle) = 4 /\ MarkCycle \in Seq(Ops) /\ MarkCycle[4].do = "mark lo"
      BY MarkPiece, Zenon DEF Piece
    <3>2. QED BY <2>1, <3>1, Zenon DEF Still
  <2>3. verif_ca_mark_cycle = MarkCycle \o MarkInstret BY Zenon DEF verif_ca_mark_cycle, MarkCycle
  <2>4. Still(verif_ca_mark_cycle, 4) /\ verif_ca_mark_cycle[4].do = "mark lo"
    BY <2>1, <2>2, <2>3, InstretPieces, StillGoesOn, Zenon
  <2>5. Piece(<<Plain(Alu)>>, {"none"}) BY InsnFacts, PlainOne, Zenon
  <2>6. QED BY <2>1, <2>4, <2>5, StillGoesOn, Zenon
<1> HIDE DEF p
<1>10. /\ Len(CaEnd) = Len(p) + 1 /\ 4 <= Len(p) /\ Len(p) \in Nat
       /\ \A i \in 1 .. Len(p) : CaEnd[i] = p[i]
  <2>1. p \in Seq(Ops) /\ <<op>> \in Seq(Ops) /\ 4 <= Len(p) BY <1>7, <1>9, Zenon DEF Piece, Still
  <2>2. Len(<<op>>) = 1 OBVIOUS
  <2>3. QED BY ONLY <1>8, <2>1, <2>2, Joined
<1>11. /\ 4 < Len(CaEnd) /\ 4 \in 1 .. Len(p)
       /\ \A i \in 5 .. Len(CaEnd) : i # Len(CaEnd) => i \in 4 + 1 .. Len(p) /\ i \in 1 .. Len(p)
  <2>1. Len(CaEnd) = Len(p) + 1 /\ 4 <= Len(p) /\ Len(p) \in Nat BY <1>10
  <2>2. QED BY ONLY <2>1
<1>12. /\ CaEnd[4].do = "mark lo"
       /\ \A i \in 5 .. Len(CaEnd) : i # Len(CaEnd) => CaEnd[i].do = "none"
  BY <1>9, <1>10, <1>11, Zenon DEF Still
<1>13. ButLast(CaEnd, Marking) /\ CaEnd[Len(CaEnd)].do = "bp" /\ CaEnd[Len(CaEnd)].val = "end"
  BY <1>1, <1>3, <1>5, <1>7, <1>8, OneMore, Zenon
<1>14. QED BY <1>11, <1>12, <1>13, Zenon

\* The places of CA_measure's three records, its last mark and its last breakpoint.
CaShape(p, m) ==
  /\ m.a \in 2 .. Len(p) /\ m.b \in 2 .. Len(p) /\ m.c \in 2 .. Len(p)
  /\ m.mark \in 2 .. Len(p) /\ m.end \in 2 .. Len(p)
  /\ m.a < m.b /\ m.b < m.c /\ m.c < m.mark /\ m.mark < m.end
  /\ \A i \in 1 .. Len(p) :
       /\ p[i].do = "record" <=> i \in {m.a, m.b, m.c}
       /\ p[i].do = "table" <=> i = 1
       /\ p[i].do = "bp" <=> i = m.end
       /\ i > m.mark /\ i < m.end => p[i].do = "none"
       /\ i > m.end => p[i].do \in {"tohost lo", "tohost hi", "spin"}
  /\ p[m.mark].do = "mark lo" /\ p[m.end].val = "end"

\* The same of a program that is not complete yet, with the records at R.
Begun(p, R) ==
  /\ Piece(p, Deeds \ {"mie"}) /\ Len(p) \in Nat \ {0} /\ R \subseteq 2 .. Len(p)
  /\ \A i \in 1 .. Len(p) :
       /\ p[i].do = "record" <=> i \in R
       /\ p[i].do = "table" <=> i = 1
       /\ p[i].do # "bp"

\* What neither records nor tells the host changes nothing in this.
LEMMA BegunGoesOn ==
  ASSUME NEW p, NEW R, Begun(p, R), NEW q, Piece(q, Marking)
  PROVE  Begun(p \o q, R)
<1> DEFINE r == p \o q
<1>1. p \in Seq(Ops) /\ q \in Seq(Ops) BY DEF Begun, Piece
<1>2. /\ Len(r) = Len(p) + Len(q) /\ Len(p) \in Nat \ {0} /\ Len(q) \in Nat
      /\ \A i \in 1 .. Len(p) : r[i] = p[i]
      /\ \A i \in Len(p) + 1 .. Len(p) + Len(q) : r[i] = q[i - Len(p)]
  <2>1. Len(p) \in Nat \ {0} BY DEF Begun
  <2>2. QED BY ONLY <1>1, <2>1, Joined
<1>3. Piece(r, Deeds \ {"mie"})
  <2>1. Marking \subseteq Deeds \ {"mie"} BY DEF Marking, Quiet, Reads, Deeds
  <2>2. QED BY <2>1, Widens, JoinedPieces, Zenon DEF Begun
<1> HIDE DEF r
<1>4. \A i \in 1 .. Len(p) : r[i].do = p[i].do BY <1>2, Zenon
<1>5. \A i \in Len(p) + 1 .. Len(r) : r[i].do \in Marking
  <2>1. \A i \in Len(p) + 1 .. Len(p) + Len(q) : i - Len(p) \in 1 .. Len(q) BY <1>2
  <2>2. \A j \in 1 .. Len(q) : q[j].do \in Marking BY Zenon DEF Piece
  <2>3. QED BY <1>2, <2>1, <2>2, Zenon
<1>6. "record" \notin Marking /\ "table" \notin Marking /\ "bp" \notin Marking
  BY DEF Marking, Quiet, Reads
<1>7. /\ \A i \in 1 .. Len(r) : i \in 1 .. Len(p) \/ (i \in Len(p) + 1 .. Len(r) /\ i \notin R /\ i # 1)
      /\ Len(r) \in Nat \ {0} /\ R \subseteq 2 .. Len(r) /\ 2 .. Len(p) \subseteq 2 .. Len(r)
      /\ 2 .. Len(p) \subseteq 1 .. Len(p)
  <2>1. Len(p) \in Nat \ {0} /\ Len(q) \in Nat /\ Len(r) = Len(p) + Len(q) BY <1>2
  <2>2. R \subseteq 2 .. Len(p) BY DEF Begun
  <2>3. QED BY ONLY <2>1, <2>2
<1>8. ASSUME NEW i \in 1 .. Len(r)
      PROVE  (r[i].do = "record" <=> i \in R) /\ (r[i].do = "table" <=> i = 1) /\ r[i].do # "bp"
  <2>1. CASE i \in 1 .. Len(p) BY <1>4, <2>1, Zenon DEF Begun
  <2>2. CASE i \in Len(p) + 1 .. Len(r) /\ i \notin R /\ i # 1 BY <1>5, <1>6, <2>2, Zenon
  <2>3. QED BY <1>7, <2>1, <2>2, Zenon
<1>9. QED BY <1>3, <1>7, <1>8, Zenon DEF Begun, r

\* A measurement that is recorded is one more place.
LEMMA BegunRecords ==
  ASSUME NEW p, NEW R, Begun(p, R), NEW q, ButLast(q, Quiet), q[Len(q)].do = "record"
  PROVE  /\ Begun(p \o q, R \cup {Len(p) + Len(q)}) /\ Len(p \o q) = Len(p) + Len(q)
         /\ Len(p) + Len(q) \in Nat /\ \A i \in R : i < Len(p) + Len(q)
<1> DEFINE r == p \o q
           n == Len(p) + Len(q)
<1>1. p \in Seq(Ops) /\ q \in Seq(Ops) BY DEF Begun, Piece, ButLast
<1>2. /\ Len(r) = n /\ Len(p) \in Nat \ {0} /\ Len(q) \in Nat \ {0}
      /\ \A i \in 1 .. Len(p) : r[i] = p[i]
      /\ \A i \in Len(p) + 1 .. n : r[i] = q[i - Len(p)]
  <2>1. Len(p) \in Nat \ {0} /\ Len(q) # 0 BY DEF Begun, ButLast
  <2>2. QED BY ONLY <1>1, <2>1, Joined
<1>3. Piece(r, Deeds \ {"mie"})
  BY JoinedPieces, Zenon DEF Begun, ButLast
<1> HIDE DEF r
<1>4. \A i \in 1 .. Len(p) : r[i].do = p[i].do BY <1>2, Zenon
<1>5. /\ \A i \in Len(p) + 1 .. n : i # n => r[i].do \in Quiet
      /\ r[n].do = "record"
  <2>1. /\ \A i \in Len(p) + 1 .. n : i - Len(p) \in 1 .. Len(q) /\ (i # n => i - Len(p) # Len(q))
        /\ n \in Len(p) + 1 .. n /\ n - Len(p) = Len(q)
    BY <1>2
  <2> HIDE DEF n
  <2>2. \A j \in 1 .. Len(q) : j # Len(q) => q[j].do \in Quiet BY Zenon DEF ButLast
  <2>3. QED BY <1>2, <2>1, <2>2, Zenon
<1>6. "record" \notin Quiet /\ "table" \notin Quiet /\ "bp" \notin Quiet
  BY DEF Quiet, Reads
<1>7. /\ \A i \in 1 .. n : (i \in 1 .. Len(p) /\ i # n) \/ (i \in Len(p) + 1 .. n /\ i \notin R /\ i # 1)
      /\ n \in Nat \ {0} /\ R \cup {n} \subseteq 2 .. n /\ 2 .. Len(p) \subseteq 2 .. n
      /\ 2 .. Len(p) \subseteq 1 .. Len(p) /\ \A i \in R : i < n
  <2>1. Len(p) \in Nat \ {0} /\ Len(q) \in Nat \ {0} /\ n = Len(p) + Len(q) BY <1>2
  <2>2. R \subseteq 2 .. Len(p) BY DEF Begun
  <2> HIDE DEF n
  <2>3. \A i \in R : i \in 2 .. Len(p) BY <2>2
  <2>4. \A i \in 1 .. n : (i \in 1 .. Len(p) /\ i # n) \/ (i \in Len(p) + 1 .. n /\ i \notin R /\ i # 1)
    <3>1. \A i \in 1 .. n : (i \in 1 .. Len(p) /\ i # n)
                           \/ (i \in Len(p) + 1 .. n /\ i \notin 2 .. Len(p) /\ i # 1)
      BY ONLY <2>1
    <3>2. QED BY <2>3, <3>1, Zenon
  <2>5. \A i \in R : i \in 2 .. n /\ i < n BY ONLY <2>1, <2>3
  <2>6. n \in 2 .. n /\ n \in Nat \ {0} BY ONLY <2>1
  <2>7. 2 .. Len(p) \subseteq 2 .. n /\ 2 .. Len(p) \subseteq 1 .. Len(p) BY ONLY <2>1
  <2>8. R \cup {n} \subseteq 2 .. n BY <2>5, <2>6, Zenon
  <2>9. QED BY <2>4, <2>5, <2>6, <2>7, <2>8, Zenon
<1> HIDE DEF n
<1>8. ASSUME NEW i \in 1 .. n
      PROVE  (r[i].do = "record" <=> i \in R \cup {n}) /\ (r[i].do = "table" <=> i = 1) /\ r[i].do # "bp"
  <2>1. CASE i \in 1 .. Len(p) /\ i # n BY <1>4, <2>1, Zenon DEF Begun
  <2>2. CASE i \in Len(p) + 1 .. n /\ i \notin R /\ i # 1 /\ i # n BY <1>5, <1>6, <2>2, Zenon
  <2>3. CASE i = n /\ i # 1 BY <1>5, <2>3, Zenon
  <2>4. QED BY <1>7, <2>1, <2>2, <2>3, Zenon
<1>9. Begun(r, R \cup {n}) BY <1>2, <1>3, <1>7, <1>8, Zenon DEF Begun
<1>10. QED BY <1>2, <1>7, <1>9, Zenon DEF r, n

\* CA_measure.c records three measurements, marks the time, tells the host and
\* exits, in this order.
LEMMA CaProgram ==
  ASSUME NEW pair, pair[1] \in Blocks, pair[2] \in Blocks
  PROVE  /\ Runnable(CA_measure(pair), Deeds \ {"mie"})
         /\ \E m \in [a : Nat, b : Nat, c : Nat, mark : Nat, end : Nat] : CaShape(CA_measure(pair), m)
<1> DEFINE D == Deeds \ {"mie"}
           op == I("table", 0, Store(TableLine))
           s1 == I("read lo", 0, Csr)
           s2 == I("start", 0, Store(TableLine))
           s3 == Plain(Csr)
           s4 == Plain(Store(TableLine))
           st == <<s1, s2, s3, s4>>
           out == Exit(0, "lo")
<1>1. /\ Marking \subseteq D /\ {"none"} \subseteq Marking /\ {"tohost lo", "tohost hi", "spin"} \subseteq D
      /\ "table" \in D /\ "table" \in Deeds \ Tied /\ 0 \in Vals /\ "table" \in Deeds /\ "start" \in Deeds
      /\ "read lo" \in Deeds /\ "OVERHEAD" \in Blocks
  BY DEF Marking, Quiet, Reads, Deeds, Tied, Vals, Blocks
<1>2. Store(TableLine) \in Instructions /\ Csr \in Instructions BY LineFacts, InsnFacts, Zenon
<1>3. Piece(<<op>>, D) /\ op.do = "table"
  <2>1. Piece(<<op>>, D) BY <1>1, <1>2, SinglePiece
  <2>2. op.do = "table"
    <3>1. "table" \in Deeds /\ 0 \in Vals /\ Store(TableLine) \in Instructions BY <1>1, <1>2
    <3>2. QED BY ONLY <3>1, OpFacts
  <2>3. QED BY <2>1, <2>2
<1>4. Piece(st, Marking)
  <2>1. s1 \in Ops /\ s1.do = "read lo" /\ s1.insn = Csr /\ s2 \in Ops /\ s2.do = "start"
    <3>1. ASSUME NEW do \in Deeds, NEW insn \in Instructions
          PROVE  I(do, 0, insn) \in Ops /\ I(do, 0, insn).do = do /\ I(do, 0, insn).insn = insn
      <4>1. 0 \in Vals BY DEF Vals
      <4>2. QED BY ONLY <3>1, <4>1, OpFacts
    <3>2. QED BY <1>1, <1>2, <3>1, Zenon
  <2>2. s3 \in Ops /\ s3.do = "none" /\ s4 \in Ops /\ s4.do = "none" BY <1>2, PlainFacts, Zenon
  <2> HIDE DEF s1, s2, s3, s4
  <2>3. /\ st \in Seq(Ops) /\ Len(st) = 4 /\ st[1] = s1 /\ st[2] = s2 /\ st[3] = s3 /\ st[4] = s4
        /\ \A i \in 1 .. 4 : i = 1 \/ i = 2 \/ i = 3 \/ i = 4
    BY <2>1, <2>2, Four, Zenon
  <2> HIDE DEF st
  <2>4. "read lo" \in Marking /\ "start" \in Marking /\ "none" \in Marking BY DEF Marking, Quiet, Reads
  <2>5. InPlace(st, 1) /\ InPlace(st, 2) /\ InPlace(st, 3) /\ InPlace(st, 4)
    BY <2>1, <2>2, <2>3, Zenon DEF InPlace, Reads
  <2>6. \A i \in 1 .. Len(st) : InPlace(st, i) /\ st[i].do \in Marking
    BY <2>1, <2>2, <2>3, <2>4, <2>5, Zenon
  <2>7. st[Len(st)].do # "read lo" BY <2>2, <2>3, Zenon
  <2>8. QED BY <2>3, <2>6, <2>7, Zenon DEF Piece
<1>5. Piece(ca_dmiss_init, Marking)
  <2> DEFINE walk == [i \in 1 .. Events |-> Plain(Store(WalkLine(i)))]
             then == Plain(Branch(1))
  <2>1. Events \in Nat /\ Sets \in Nat
    BY SpikeAssumption, TimingAssumption DEF SpikeAssumption, TimingAssumption
  <2>2. \A i \in 1 .. Events : WalkLine(i) \in Nat BY <2>1 DEF WalkLine
  <2>3. walk \in [1 .. Events -> Ops] /\ \A i \in 1 .. Events : walk[i].do = "none"
    BY <2>2, InsnFacts, PlainFacts, Zenon
  <2>4. then \in Ops /\ then.do = "none"
    <3>1. 1 \in {0, 1} OBVIOUS
    <3>2. Branch(1) \in Instructions BY <3>1, InsnFacts
    <3>3. QED BY <3>2, PlainFacts, Zenon
  <2> HIDE DEF walk, then
  <2>5. Piece(Walk(walk, then), {"none"}) BY <2>3, <2>4, WalkPlain, PlainPiece, Zenon
  <2>6. ca_dmiss_init = Walk(walk, then) BY Zenon DEF ca_dmiss_init, walk, then
  <2>7. QED BY <1>1, <2>5, <2>6, Widens, Zenon
<1>6. Runnable(out, {"tohost lo", "tohost hi", "spin"})
  <2>1. 0 \in Nat OBVIOUS
  <2>2. QED BY <2>1, ExitRuns, Zenon
<1> DEFINE p1 == <<op>> \o verif_ca_mark_cycle
           p2 == p1 \o st \o ca_dmiss_init
           q1 == ca_run("OVERHEAD")
           q2 == ca_run(pair[1])
           q3 == ca_run(pair[2])
           p3 == p2 \o q1
           p4 == p3 \o q2
           p5 == p4 \o q3
           p6 == p5 \o CaEnd
<1>7. CA_measure(pair) = p6 \o out BY Zenon DEF CA_measure
<1> HIDE DEF op, st, out
<1>8. Begun(p1, {})
  <2> DEFINE v == verif_ca_mark_cycle
  <2>1. /\ <<op>> \in Seq(Ops) /\ v \in Seq(Ops) BY <1>3, MarksPiece, Zenon DEF Piece
  <2>2. Len(<<op>>) = 1 /\ <<op>>[1] = op OBVIOUS
  <2>3. /\ Len(p1) = 1 + Len(v) /\ Len(v) \in Nat /\ p1[1] = op
        /\ \A i \in 2 .. 1 + Len(v) : p1[i] = v[i - 1]
    <3>1. /\ Len(<<op>> \o v) = Len(<<op>>) + Len(v) /\ Len(v) \in Nat
          /\ \A i \in 1 .. Len(<<op>>) : (<<op>> \o v)[i] = <<op>>[i]
          /\ \A i \in Len(<<op>>) + 1 .. Len(<<op>>) + Len(v) : (<<op>> \o v)[i] = v[i - Len(<<op>>)]
      BY ONLY <2>1, Joined
    <3>2. 1 \in 1 .. 1 /\ 1 + 1 = 2 OBVIOUS
    <3>3. QED BY <2>2, <3>1, <3>2, Zenon
  <2>4. Piece(p1, D) BY <1>1, <1>3, MarksPiece, Widens, JoinedPieces, Zenon
  <2>6. \A j \in 1 .. Len(v) : v[j].do \in Marking BY MarksPiece, Zenon DEF Piece
  <2> HIDE DEF v, p1
  <2>7. /\ \A i \in 1 .. Len(p1) : i = 1 \/ (i # 1 /\ i \in 2 .. 1 + Len(v) /\ i - 1 \in 1 .. Len(v))
        /\ Len(p1) \in Nat \ {0}
    <3>1. Len(v) \in Nat /\ Len(p1) = 1 + Len(v) BY <2>3
    <3>2. QED BY ONLY <3>1
  <2>8. "record" \notin Marking /\ "table" \notin Marking /\ "bp" \notin Marking BY DEF Marking, Quiet, Reads
  <2>9. ASSUME NEW i \in 1 .. Len(p1)
        PROVE  (p1[i].do = "record" <=> i \in {}) /\ (p1[i].do = "table" <=> i = 1) /\ p1[i].do # "bp"
    <3>1. CASE i = 1 BY <1>3, <2>3, <3>1, Zenon
    <3>2. CASE i # 1 /\ i \in 2 .. 1 + Len(v) /\ i - 1 \in 1 .. Len(v)
      <4>1. p1[i].do \in Marking BY <2>3, <2>6, <3>2, Zenon
      <4>2. QED BY <2>8, <3>2, <4>1, Zenon
    <3>3. QED BY <2>7, <3>1, <3>2, Zenon
  <2>10. QED BY <2>4, <2>7, <2>9, Zenon DEF Begun, D
<1>9. /\ Len(CaEnd) \in Nat \ {0} /\ ButLast(q1, Quiet) /\ q1[Len(q1)].do = "record"
      /\ ButLast(q2, Quiet) /\ q2[Len(q2)].do = "record" /\ ButLast(q3, Quiet) /\ q3[Len(q3)].do = "record"
  <2>1. /\ ButLast(q1, Quiet) /\ q1[Len(q1)].do = "record"
        /\ ButLast(q2, Quiet) /\ q2[Len(q2)].do = "record" /\ ButLast(q3, Quiet) /\ q3[Len(q3)].do = "record"
    BY <1>1, RunShape, Zenon
  <2>2. Len(CaEnd) \in Nat \ {0} BY EndShape DEF ButLast
  <2>3. QED BY <2>1, <2>2
<1> HIDE DEF p1, q1, q2, q3
<1>10. Begun(p2, {}) BY <1>4, <1>5, <1>8, BegunGoesOn, Zenon
<1> DEFINE a == Len(p2) + Len(q1)
           b == Len(p3) + Len(q2)
           c == Len(p4) + Len(q3)
           end == Len(p5) + Len(CaEnd)
<1> HIDE DEF p2
<1>11. Begun(p3, {} \cup {a}) /\ Len(p3) = a /\ a \in Nat BY <1>9, <1>10, BegunRecords, Zenon
<1> HIDE DEF p3, a
<1>12. Begun(p4, {} \cup {a} \cup {b}) /\ Len(p4) = b /\ b \in Nat /\ a < b
  <2>1. a \in {} \cup {a} OBVIOUS
  <2>2. QED BY <1>9, <1>11, <2>1, BegunRecords, Zenon
<1> HIDE DEF p4, b
<1>13. Begun(p5, {} \cup {a} \cup {b} \cup {c}) /\ Len(p5) = c /\ c \in Nat /\ b < c
  <2>1. b \in {} \cup {a} \cup {b} OBVIOUS
  <2>2. QED BY <1>9, <1>12, <2>1, BegunRecords, Zenon
<1> HIDE DEF p5, c
<1> DEFINE R == {} \cup {a} \cup {b} \cup {c}
           whole == p6 \o out
           m == [a |-> a, b |-> b, c |-> c, mark |-> c + 4, end |-> end]
<1>14. \A i : i \in R <=> i \in {a, b, c} OBVIOUS
<1>15. Piece(p6, D) /\ p6 \in Seq(Ops) /\ p5 \in Seq(Ops) /\ CaEnd \in Seq(Ops)
  <2>1. Piece(p5, D) BY <1>13, Zenon DEF Begun
  <2>2. Piece(CaEnd, D) BY EndShape, Zenon DEF ButLast
  <2>3. Piece(p6, D) BY <2>1, <2>2, JoinedPieces, Zenon
  <2>4. QED BY <2>1, <2>2, <2>3, Zenon DEF Piece
<1>16. Runnable(out, D) BY <1>1, <1>6, Widens, Zenon DEF Runnable
<1>17. Runnable(whole, D) BY <1>15, <1>16, EndsInLoop, Zenon
<1>18. /\ Len(p6) = end /\ end \in Nat /\ c < end /\ c + 1 <= end
       /\ \A i \in 1 .. c : p6[i] = p5[i]
       /\ \A i \in c + 1 .. end : p6[i] = CaEnd[i - c]
  <2>1. Len(CaEnd) \in Nat \ {0} /\ Len(p5) = c /\ c \in Nat BY <1>9, <1>13
  <2>2. /\ Len(p6) = Len(p5) + Len(CaEnd) /\ \A i \in 1 .. Len(p5) : p6[i] = p5[i]
        /\ \A i \in Len(p5) + 1 .. Len(p5) + Len(CaEnd) : p6[i] = CaEnd[i - Len(p5)]
    BY ONLY <1>15, Joined
  <2>3. end = Len(p5) + Len(CaEnd) BY DEF end
  <2>4. Len(p6) = end /\ end \in Nat /\ c < end /\ c + 1 <= end
    <3>1. Len(p6) = Len(p5) + Len(CaEnd) BY <2>2
    <3>2. QED BY ONLY <2>1, <2>3, <3>1
  <2>5. \A i \in 1 .. c : p6[i] = p5[i] BY <2>1, <2>2, Zenon
  <2>6. \A i \in c + 1 .. end : p6[i] = CaEnd[i - c] BY <2>1, <2>2, <2>3, Zenon
  <2>7. QED BY <2>4, <2>5, <2>6
<1>19. /\ Len(whole) = end + Len(out) /\ Len(out) \in Nat
       /\ \A i \in 1 .. end : whole[i] = p6[i]
       /\ \A i \in end + 1 .. end + Len(out) : whole[i] = out[i - end]
  <2>1. out \in Seq(Ops) BY <1>16, Zenon DEF Runnable, Piece
  <2>2. QED BY ONLY <1>15, <1>18, <2>1, Joined
<1> HIDE DEF p6, end, whole
<1>20. /\ \A i \in 1 .. c : whole[i] = p5[i]
       /\ \A i \in c + 1 .. end : whole[i] = CaEnd[i - c]
  <2>1. \A i \in 1 .. c : i \in 1 .. end BY <1>13, <1>18
  <2>2. \A i \in c + 1 .. end : i \in 1 .. end BY <1>13, <1>18
  <2>3. QED BY <1>18, <1>19, <2>1, <2>2, Zenon
<1>21. CaShape(whole, m)
  <2>1. /\ ButLast(CaEnd, Marking) /\ CaEnd[Len(CaEnd)].do = "bp" /\ CaEnd[Len(CaEnd)].val = "end"
    BY EndShape
  <2>2. Len(CaEnd) = end - c
    <3>1. end = Len(p5) + Len(CaEnd) BY DEF end
    <3>2. QED BY <1>9, <1>13, <3>1
  <2>3. whole[end].do = "bp" /\ whole[end].val = "end"
    <3>1. end \in c + 1 .. end BY <1>13, <1>18
    <3>2. QED BY <1>20, <2>1, <2>2, <3>1, Zenon
  <2>4. \A i \in c + 1 .. end : i # end => whole[i].do \in Marking
    <3>1. \A i \in c + 1 .. end : i - c \in 1 .. Len(CaEnd) /\ (i # end => i - c # Len(CaEnd))
      BY <1>13, <1>18, <2>2
    <3>2. \A j \in 1 .. Len(CaEnd) : j # Len(CaEnd) => CaEnd[j].do \in Marking BY <2>1, Zenon DEF ButLast
    <3>3. QED BY <1>20, <3>1, <3>2, Zenon
  <2>5. \A i \in end + 1 .. end + Len(out) : whole[i].do \in {"tohost lo", "tohost hi", "spin"}
    <3>1. \A i \in end + 1 .. end + Len(out) : i - end \in 1 .. Len(out) BY <1>18, <1>19
    <3>2. \A j \in 1 .. Len(out) : out[j].do \in {"tohost lo", "tohost hi", "spin"}
      BY <1>6, Zenon DEF Runnable, Piece
    <3>3. QED BY <1>19, <3>1, <3>2, Zenon
  <2>6. /\ \A i \in 1 .. c : whole[i].do = "record" <=> i \in R
        /\ \A i \in 1 .. c : whole[i].do = "table" <=> i = 1
        /\ \A i \in 1 .. c : whole[i].do # "bp"
        /\ R \subseteq 2 .. c
    <3>1. /\ \A i \in 1 .. c : (p5[i].do = "record" <=> i \in R) /\ (p5[i].do = "table" <=> i = 1) /\ p5[i].do # "bp"
          /\ R \subseteq 2 .. c
      BY <1>13, Zenon DEF Begun
    <3>2. QED BY <1>20, <3>1, Zenon
  <2>7. /\ a \in 2 .. c /\ b \in 2 .. c /\ c \in 2 .. c
    <3>1. a \in R /\ b \in R /\ c \in R OBVIOUS
    <3>2. QED BY <2>6, <3>1, Zenon
  <2>8. "record" \notin Marking /\ "table" \notin Marking /\ "bp" \notin Marking BY DEF Marking, Quiet, Reads
  <2>9. /\ \A i \in 1 .. Len(whole) : \/ (i \in 1 .. c /\ i # end /\ ~(i > end))
                                      \/ (i \in c + 1 .. end /\ i # end /\ i \notin 2 .. c /\ i # 1 /\ ~(i > end))
                                      \/ (i = end /\ i \notin 2 .. c /\ i # 1 /\ ~(i > end))
                                      \/ (i \in end + 1 .. end + Len(out) /\ i # end /\ i \notin 2 .. c /\ i # 1)
        /\ 2 .. c \subseteq 2 .. Len(whole) /\ 2 .. c \subseteq 1 .. c /\ 2 .. c \subseteq 2 .. end
        /\ end \in 2 .. Len(whole)
    <3>1. c >= 2 BY <2>7
    <3>2. QED BY ONLY <1>13, <1>18, <1>19, <3>1
  <2>10. ASSUME NEW i \in 1 .. Len(whole)
         PROVE  /\ whole[i].do = "record" <=> i \in R
                /\ whole[i].do = "table" <=> i = 1
                /\ whole[i].do = "bp" <=> i = end
                /\ i > end => whole[i].do \in {"tohost lo", "tohost hi", "spin"}
    <3>1. CASE i \in 1 .. c /\ i # end /\ ~(i > end) BY <2>6, <3>1, Zenon
    <3>2. CASE i \in c + 1 .. end /\ i # end /\ i \notin 2 .. c /\ i # 1 /\ ~(i > end)
      <4>1. whole[i].do \in Marking BY <2>4, <3>2, Zenon
      <4>2. QED BY <2>6, <2>8, <3>2, <4>1, Zenon
    <3>3. CASE i = end /\ i \notin 2 .. c /\ i # 1 /\ ~(i > end) BY <2>3, <2>6, <3>3, Zenon
    <3>4. CASE i \in end + 1 .. end + Len(out) /\ i # end /\ i \notin 2 .. c /\ i # 1
      BY <2>5, <2>6, <3>4, Zenon
    <3>5. QED BY <2>9, <3>1, <3>2, <3>3, <3>4, Zenon
  <2>11. /\ whole[c + 4].do = "mark lo" /\ c < c + 4 /\ c + 4 < end /\ c + 4 \in 2 .. Len(whole)
         /\ \A i \in 1 .. Len(whole) : i > c + 4 /\ i < end => whole[i].do = "none"
    <3>1. 4 < Len(CaEnd) /\ CaEnd[4].do = "mark lo"
          /\ \A i \in 5 .. Len(CaEnd) : i # Len(CaEnd) => CaEnd[i].do = "none"
      BY EndShape
    <3>2. c \in Nat /\ end \in Nat /\ 4 < Len(CaEnd) /\ Len(CaEnd) = end - c /\ Len(whole) = end + Len(out)
          /\ Len(out) \in Nat
      BY <1>13, <1>18, <1>19, <2>2, <3>1
    <3>3. /\ c + 4 \in c + 1 .. end /\ (c + 4) - c = 4 /\ c < c + 4 /\ c + 4 < end /\ c + 4 \in 2 .. Len(whole)
          /\ \A i \in 1 .. Len(whole) : i > c + 4 /\ i < end =>
                i \in c + 1 .. end /\ i - c \in 5 .. Len(CaEnd) /\ i - c # Len(CaEnd)
      BY ONLY <3>2
    <3>4. whole[c + 4].do = "mark lo"
      <4>1. whole[c + 4] = CaEnd[(c + 4) - c] BY <1>20, <3>3, Zenon
      <4>2. CaEnd[(c + 4) - c] = CaEnd[4] BY <3>3, Zenon
      <4>3. QED BY <3>1, <4>1, <4>2, Zenon
    <3>5. ASSUME NEW i \in 1 .. Len(whole), i > c + 4 /\ i < end PROVE whole[i].do = "none"
      <4>1. i \in c + 1 .. end /\ i - c \in 5 .. Len(CaEnd) /\ i - c # Len(CaEnd) BY <3>3, <3>5, Zenon
      <4>2. whole[i] = CaEnd[i - c] BY <1>20, <4>1, Zenon
      <4>3. QED BY <3>1, <4>1, <4>2, Zenon
    <3>6. QED BY <3>3, <3>4, <3>5, Zenon
  <2>12. m.a = a /\ m.b = b /\ m.c = c /\ m.mark = c + 4 /\ m.end = end OBVIOUS
  <2> HIDE DEF R, m
  <2>13. /\ m.a \in 2 .. Len(whole) /\ m.b \in 2 .. Len(whole) /\ m.c \in 2 .. Len(whole)
         /\ m.mark \in 2 .. Len(whole) /\ m.end \in 2 .. Len(whole)
         /\ m.a < m.b /\ m.b < m.c /\ m.c < m.mark /\ m.mark < m.end
    BY <1>12, <1>13, <2>7, <2>9, <2>11, <2>12, Zenon
  <2>14. \A i : i \in R <=> i \in {m.a, m.b, m.c} BY <1>14, <2>12, Zenon
  <2>15. QED BY <2>3, <2>10, <2>11, <2>12, <2>13, <2>14, Zenon DEF CaShape
<1>22. m \in [a : Nat, b : Nat, c : Nat, mark : Nat, end : Nat] BY <1>11, <1>12, <1>13, <1>18
<1> HIDE DEF m
<1>23. CA_measure(pair) = whole BY <1>7 DEF whole
<1>24. QED BY <1>17, <1>21, <1>22, <1>23, Zenon DEF D

\* Whatever a program does, it stays in it, and only the interrupt firmware
\* opens interrupts, only CA_measure.c writes a table.
FirmwareShape(s, p) ==
  /\ Runnable(p, Deeds)
  /\ s.fw # "irq" => Runnable(p, Deeds \ {"mie"})
  /\ s.fw # "ca" => Runnable(p, Deeds \ {"table"})
  /\ s.fw = "irq" => Len(IrqMain) + 1 \in 1 .. Len(p) /\ p[Len(IrqMain) + 1].do = "none"
  /\ s.fw = "ca" => \E m \in [a : Nat, b : Nat, c : Nat, mark : Nat, end : Nat] : CaShape(p, m)

\* That of every firmware the driver can load.
LEMMA EveryFirmware == ASSUME NEW s \in Scenarios PROVE FirmwareShape(s, Firmware[s])
<1> DEFINE p == Program(s)
<1>1. Firmware[s] = p BY Zenon DEF Firmware
<1>2. s.fw \in Firmwares /\ s.pair[1] \in Blocks /\ s.pair[2] \in Blocks /\ s.code \in Nat
  BY SpikeAssumption, Zenon DEF SpikeAssumption
<1>3. /\ Calm \subseteq Deeds /\ Calm \subseteq Deeds \ {"mie"} /\ Calm \subseteq Deeds \ {"table"}
      /\ Deeds \ {"mie"} \subseteq Deeds /\ Deeds \ {"table"} \subseteq Deeds
  BY DEF Calm
<1>4. ASSUME Runnable(p, Calm), s.fw # "irq", s.fw # "ca" PROVE FirmwareShape(s, p)
  <2> HIDE DEF p
  <2>1. Runnable(p, Deeds) /\ Runnable(p, Deeds \ {"mie"}) /\ Runnable(p, Deeds \ {"table"})
    BY <1>3, <1>4, Widens, Zenon DEF Runnable
  <2>2. QED BY <1>4, <2>1, Zenon DEF FirmwareShape
<1>5. CASE s.fw = "exit"
  <2>1. p = <<Plain(Alu)>> \o Exit(s.code, s.order) BY <1>5, Zenon DEF Program
  <2> HIDE DEF p
  <2>2. Runnable(p, Calm) BY <1>2, <2>1, SmallPrograms, Zenon
  <2>3. QED BY <1>1, <1>4, <1>5, <2>2, Zenon
<1>6. CASE s.fw = "console"
  <2>1. p = Console BY <1>6, Zenon DEF Program
  <2> HIDE DEF p
  <2>2. QED BY <1>1, <1>4, <1>6, <2>1, SmallPrograms, Zenon
<1>7. CASE s.fw = "silent"
  <2>1. p = Spin BY <1>7, Zenon DEF Program
  <2> HIDE DEF p
  <2>2. QED BY <1>1, <1>4, <1>7, <2>1, SmallPrograms, Zenon
<1>8. CASE s.fw = "any"
  <2>1. p = <<I("any", 0, Alu)>> \o Exit(0, "lo") BY <1>8, Zenon DEF Program
  <2> HIDE DEF p
  <2>2. QED BY <1>1, <1>4, <1>8, <2>1, SmallPrograms, Zenon
<1>9. CASE s.fw = "handshake"
  <2>1. p = Handshake BY <1>9, Zenon DEF Program
  <2> HIDE DEF p
  <2>2. QED BY <1>1, <1>4, <1>9, <2>1, SmallPrograms, Zenon
<1>10. CASE s.fw = "irq"
  <2>1. p = IrqMain \o IrqHandler BY <1>10, Zenon DEF Program
  <2> HIDE DEF p
  <2>2. Runnable(p, Deeds \ {"table"}) BY <2>1, IrqProgram, Zenon
  <2>3. Runnable(p, Deeds) BY <1>3, <2>2, Widens, Zenon DEF Runnable
  <2>4. Len(IrqMain) + 1 \in 1 .. Len(p) /\ p[Len(IrqMain) + 1].do = "none" BY <2>1, IrqProgram, Zenon
  <2>5. QED BY <1>1, <1>10, <2>2, <2>3, <2>4, Zenon DEF FirmwareShape
<1>11. CASE s.fw = "ca"
  <2>1. p = CA_measure(s.pair) BY <1>11, Zenon DEF Program
  <2> HIDE DEF p
  <2>2. /\ Runnable(p, Deeds \ {"mie"})
        /\ \E m \in [a : Nat, b : Nat, c : Nat, mark : Nat, end : Nat] : CaShape(p, m)
    BY <1>2, <2>1, CaProgram, Zenon
  <2>3. Runnable(p, Deeds) BY <1>3, <2>2, Widens, Zenon DEF Runnable
  <2>4. QED BY <1>1, <1>11, <2>2, <2>3, Zenon DEF FirmwareShape
<1>12. QED BY <1>2, <1>5, <1>6, <1>7, <1>8, <1>9, <1>10, <1>11, Zenon DEF Firmwares

-----------------------------------------------------------------------------
(* The timing model *)

\* A cost is the cycles of it and the cache after it.
LEMMA CyclesOf == ASSUME NEW x, NEW y PROVE [cyc |-> x, cache |-> y].cyc = x
  OBVIOUS

\* What an instruction costs is a number of cycles.
LEMMA CostIsNat ==
  ASSUME NEW m, NEW i \in Instructions
  PROVE  cost(m, i).cyc \in Nat
<1>1. /\ Pen.base \in Nat /\ Pen.load_use \in Nat /\ Pen.br_taken \in Nat /\ Pen.muldiv_use \in Nat
      /\ Pen.amo \in Nat /\ Pen.dram_hit \in Nat /\ Pen.dram_miss \in Nat
      /\ \A c \in {"jump", "div", "mul", "system", "clint", "sram", "periph", "tcm"} : Pen[c] \in Nat
  BY TimingAssumption DEF TimingAssumption, Prices
<1>2. i.class \in Classes /\ i.region \in Regions BY DEF Instructions
<1>3. CASE m.phase = 1
  <2>1. cost_phase1(i) \in Nat BY <1>1, <1>2 DEF cost_phase1, Classes
  <2>2. cost(m, i) = [cyc |-> cost_phase1(i), cache |-> m.cache] BY <1>3, Zenon DEF cost
  <2>3. QED BY <2>1, <2>2
<1>4. CASE m.phase # 1
  <2> DEFINE mc == mem_cost(m, i)
             own == CASE i.class \in Memory -> mc.cyc + (IF i.class = "amo" THEN Pen.amo ELSE 0)
                      [] i.class = "branch" -> IF i.taken = 1 THEN Pen.br_taken ELSE 0
                      [] i.class \in {"jump", "div", "mul", "system"} -> Pen[i.class]
                      [] i.class = "alu" -> 0
             rest == IF i.class \in Memory THEN mc.cache ELSE m.cache
  <2>1. mc.cyc \in Nat
    <3>1. CASE i.region = "dram"
      <4> DEFINE r == access(m.cache, i.line)
      <4>1. mc = [cyc |-> IF r.hit = 1 THEN Pen.dram_hit ELSE Pen.dram_miss, cache |-> r.cache]
        BY <3>1, Zenon DEF mem_cost
      <4> HIDE DEF r, mc
      <4>2. mc.cyc = IF r.hit = 1 THEN Pen.dram_hit ELSE Pen.dram_miss BY <4>1
      <4>3. QED BY <1>1, <4>2
    <3>2. CASE i.region # "dram"
      <4>1. mc = [cyc |-> Pen[i.region], cache |-> m.cache] BY <3>2, Zenon DEF mem_cost
      <4> HIDE DEF mc
      <4>2. mc.cyc = Pen[i.region] BY <4>1
      <4>3. i.region \in {"jump", "div", "mul", "system", "clint", "sram", "periph", "tcm"}
        BY <1>2, <3>2 DEF Regions
      <4>4. QED BY <1>1, <4>2, <4>3, Zenon
    <3>3. QED BY <3>1, <3>2
  <2> HIDE DEF mc
  <2>2. own \in Nat
    <3>1. CASE i.class \in Memory BY <1>1, <2>1, <3>1
    <3>2. CASE i.class = "branch" BY <1>1, <3>2 DEF Memory
    <3>3. CASE i.class \in {"jump", "div", "mul", "system"}
      <4>1. own = Pen[i.class] BY <3>3 DEF Memory
      <4>2. i.class \in {"jump", "div", "mul", "system", "clint", "sram", "periph", "tcm"} BY <3>3
      <4> HIDE DEF own
      <4>3. QED BY <1>1, <4>1, <4>2, Zenon
    <3>4. CASE i.class = "alu" BY <3>4 DEF Memory
    <3>5. QED BY <1>2, <3>1, <3>2, <3>3, <3>4 DEF Classes, Memory
  <2>3. Stall(m, i) \in Nat
    <3>1. /\ (IF m.prev.valid = 1 /\ m.prev.load = 1 /\ uses_reg(i, m.prev.rd) THEN Pen.load_use ELSE 0) \in Nat
          /\ (IF m.prev.valid = 1 /\ m.prev.muldiv = 1 /\ uses_reg(i, m.prev.rd) THEN Pen.muldiv_use ELSE 0) \in Nat
      BY <1>1
    <3>2. QED BY <3>1 DEF Stall
  <2>4. cost(m, i) = [cyc |-> Pen.base + Stall(m, i) + own, cache |-> rest]
    BY <1>4, Zenon DEF cost, mc
  <2> HIDE DEF own, rest
  <2>5. cost(m, i).cyc = Pen.base + Stall(m, i) + own
    <3>1. [cyc |-> Pen.base + Stall(m, i) + own, cache |-> rest].cyc = Pen.base + Stall(m, i) + own
      BY ONLY CyclesOf
    <3>2. QED BY <2>4, <3>1, Zenon
  <2>6. QED BY <1>1, <2>2, <2>3, <2>5
<1>5. QED BY <1>3, <1>4

\* A read of a CSR uses no register: it takes no longer than Gap.
LEMMA CsrIsShort == ASSUME NEW m PROVE cost(m, Csr).cyc \in 0 .. Gap
<1>1. Pen.base \in Nat /\ Pen.system \in Nat BY TimingAssumption DEF TimingAssumption, Prices
<1>2. Csr.class = "system" /\ Csr.src = {} BY DEF Csr, Insn
<1>3. CASE m.phase = 1
  <2>1. cost_phase1(Csr) = Pen.base + 1 BY <1>2 DEF cost_phase1
  <2>2. cost(m, Csr) = [cyc |-> cost_phase1(Csr), cache |-> m.cache] BY <1>3, Zenon DEF cost
  <2>3. QED BY <1>1, <2>1, <2>2 DEF Gap
<1>4. CASE m.phase # 1
  <2>1. Stall(m, Csr) = 0 BY <1>2 DEF Stall, uses_reg
  <2> DEFINE own == CASE Csr.class \in Memory -> mem_cost(m, Csr).cyc + (IF Csr.class = "amo" THEN Pen.amo ELSE 0)
                      [] Csr.class = "branch" -> IF Csr.taken = 1 THEN Pen.br_taken ELSE 0
                      [] Csr.class \in {"jump", "div", "mul", "system"} -> Pen[Csr.class]
                      [] Csr.class = "alu" -> 0
             rest == IF Csr.class \in Memory THEN mem_cost(m, Csr).cache ELSE m.cache
  <2>2. own = Pen.system BY <1>2 DEF Memory
  <2>3. cost(m, Csr) = [cyc |-> Pen.base + Stall(m, Csr) + own, cache |-> rest]
    BY <1>4, Zenon DEF cost
  <2> HIDE DEF own, rest
  <2>4. cost(m, Csr).cyc = Pen.base + Stall(m, Csr) + own
    <3>1. [cyc |-> Pen.base + Stall(m, Csr) + own, cache |-> rest].cyc = Pen.base + Stall(m, Csr) + own
      BY ONLY CyclesOf
    <3>2. QED BY <2>3, <3>1, Zenon
  <2>5. QED BY <1>1, <2>1, <2>2, <2>4 DEF Gap
<1>5. QED BY <1>3, <1>4

\* The state of timing_model_t, of which the proofs use the count.
TmOK(m) == "total" \in DOMAIN m /\ m.total \in 0 .. CycleMod - 1

\* account and account_trap count on, and the count goes around.
LEMMA Accounts ==
  ASSUME NEW m, TmOK(m), NEW i \in Instructions
  PROVE  /\ TmOK(account(m, i)) /\ account(m, i).total = (m.total + cost(m, i).cyc) % CycleMod
         /\ TmOK(account_trap(m))
<1>1. cost(m, i).cyc \in Nat /\ Pen.trap \in Nat
  BY CostIsNat, TimingAssumption DEF TimingAssumption, Prices
<1>2. CycleMod \in Nat /\ CycleMod > 0 BY GapIsShort
<1>3. m.total \in Nat /\ "total" \in DOMAIN m BY <1>2 DEF TmOK
<1>4. \A n \in Nat : (m.total + n) % CycleMod \in 0 .. CycleMod - 1
  <2>1. ASSUME NEW y \in Nat PROVE y % CycleMod \in 0 .. CycleMod - 1 BY ONLY <1>2, <2>1
  <2>2. QED BY <1>3, <2>1
<1>5. account(m, i).total = (m.total + cost(m, i).cyc) % CycleMod /\ TmOK(account(m, i))
  <2> DEFINE n == (m.total + cost(m, i).cyc) % CycleMod
             v == cost(m, i).cache
             w == [valid |-> 1, rd |-> i.rd, load |-> IF i.class = "load" THEN 1 ELSE 0,
                   muldiv |-> IF i.class \in {"mul", "div"} THEN 1 ELSE 0]
             q == [m EXCEPT !.total = n, !.cache = v, !.prev = w]
  <2>1. account(m, i) = q BY Zenon DEF account
  <2>2. n \in 0 .. CycleMod - 1 BY <1>1, <1>4
  <2> HIDE DEF n, v, w
  <2>3. "total" \in DOMAIN q /\ q.total = n BY <1>3
  <2> HIDE DEF q
  <2>4. TmOK(q) BY <2>2, <2>3, Zenon DEF TmOK
  <2>5. QED BY <2>1, <2>3, <2>4 DEF n
<1>6. TmOK(account_trap(m))
  <2> DEFINE n == (m.total + Pen.trap) % CycleMod
             q == [m EXCEPT !.total = n]
             q2 == [q EXCEPT !.prev.valid = 0]
  <2>1. account_trap(m) = q2 BY DEF account_trap
  <2>2. n \in 0 .. CycleMod - 1 BY <1>1, <1>4
  <2> HIDE DEF n
  <2>3. "total" \in DOMAIN q2 /\ q2.total = n BY <1>3
  <2> HIDE DEF q, q2
  <2>4. TmOK(q2) BY <2>2, <2>3, Zenon DEF TmOK
  <2>5. QED BY <2>1, <2>4
<1>7. QED BY <1>5, <1>6
-----------------------------------------------------------------------------
(* The inductive invariant *)

\* The program that is loaded, and what it did just before.
F == Firmware[scen]
Before(do) == dut.pc > 1 /\ F[dut.pc - 1].do = do

Cycles == 0 .. CycleMod - 1
Places == {"loop", "idle", "guard", "ca_wait_bp", "read", "exited", "wait begin", "wait end"}

Duts == [pc : Nat, mie : {0, 1}, mip : {0, 1}, hi : Nat, hi2 : Nat, lo : Nat, value : Nat, c0 : Nat, guard : Nat]
DutOK ==
  /\ dut \in Duts
  /\ dut.pc \in 1 .. Len(F) /\ (dut.mie = 1 => scen.fw = "irq")
Mems == [bp : Breakpoints, tohost : [lo : Nat, hi : {0}], cycle : [lo : Nat, hi : Nat], magic : {0, 1},
         cyc0 : Nat, table : Seq(Nat)]
MemOK == mem \in Mems
Hosts == [pc : Places, left : Nat, ran : {0, 1}, guard : 0 .. GuardMax, polls : 0 .. MaxPolls, start : Cycles,
          measured : Int, run : Int, rows : Seq(Int), said : {"none", "PASS", "FAIL"}, exit : {-1, 0, 1, 3}]
HostOK == host \in Hosts
TruthOK ==
  /\ DOMAIN truth = {"at", "start", "mark", "again", "exit", "recent"}
  /\ truth.at \in Cycles /\ truth.start \in Cycles /\ truth.mark \in -1 .. CycleMod - 1

\* Every variable has the shape the code gives it; tohost's high word stays 0,
\* and only the interrupt firmware opens interrupts.
TypeInv == scen \in Scenarios /\ TmOK(tm) /\ DutOK /\ MemOK /\ HostOK /\ TruthOK

\* y is at most Gap cycles after x.
After(x, y) == \E d \in 0 .. Gap : y = (x + d) % CycleMod
\* h was the high word at most Gap before y; and is it at most Gap after y.
HighWas(h, y) == \E x \in Cycles : h = x \div WordMod /\ After(x, y)
HighIs(h, y) == \E x \in Cycles : h = x \div WordMod /\ After(y, x)

\* What the registers hold of the counter, from one read to its last use.
ReadInv ==
  /\ dut.lo = truth.at % WordMod /\ mem.cyc0 = truth.start % WordMod
  /\ Here.do = "read lo" /\ Before("read hi") => HighWas(dut.hi, tm.total)
  /\ Here.do = "read hi2" => HighWas(dut.hi, truth.at) /\ After(truth.at, tm.total)
  /\ Here.do = "again" => HighWas(dut.hi, truth.at) /\ HighIs(dut.hi2, truth.at)
  /\ Here.do = "read hi" /\ Before("read lo") => After(truth.at, tm.total)
  /\ Here.do = "mark hi" => HighIs(dut.hi, truth.at)
  /\ Here.do = "mark lo" => HighIs(mem.cycle.hi, truth.at)

\* What the drivers conclude from tohost.
PassInv ==
  /\ host.exit # -1 => host.pc = "exited"
  /\ host.pc \in {"exited", "read"} => host.left = 0
  /\ scen.driver = "verif_spike_run" => host.pc \notin {"wait begin", "wait end"}
  /\ mem.tohost.lo = 1 => truth.exit = 0
  /\ PassIsExitZero

\* Where CA_measure.c records, marks and tells the host.
PlanOf(p) == CHOOSE m \in [a : Nat, b : Nat, c : Nat, mark : Nat, end : Nat] : CaShape(p, m)
Plan == PlanOf(F)
Recorded(m, i) == (IF m.a < i THEN 1 ELSE 0) + (IF m.b < i THEN 1 ELSE 0) + (IF m.c < i THEN 1 ELSE 0)

\* How far its table, mirror and breakpoint are, and what the host made of them.
CaInv ==
  /\ mem.magic = 1 => scen.fw = "ca"
  /\ scen.fw = "ca" =>
       /\ mem.bp = IF Plan.end < dut.pc THEN "end" ELSE "none"
       /\ Plan.mark < dut.pc => truth.mark >= 0
       /\ 1 < dut.pc => Len(mem.table) = Recorded(Plan, dut.pc)
  /\ host.pc = "read" => mem.bp = "end"
  /\ host.run >= 0 => scen.fw = "ca" /\ Plan.end < dut.pc

SpikeInv == TypeInv /\ ReadInv /\ MirrorIsNeverBehind /\ PassInv /\ CaInv /\ HostSeesTheRun

\* The shape of the program that is loaded.
LEMMA Loaded == ASSUME TypeInv PROVE FirmwareShape(scen, F) /\ F = Firmware[scen]
  BY EveryFirmware, Zenon DEF TypeInv, F

\* The instruction the hart is at.
LEMMA HereFacts ==
  ASSUME TypeInv
  PROVE  /\ Here = F[dut.pc] /\ Here.do \in Deeds /\ Here.insn \in Instructions /\ InPlace(F, dut.pc)
         /\ dut.pc \in 1 .. Len(F) /\ Len(F) \in Nat /\ Runnable(F, Deeds)
         /\ (Here.do # "spin" => dut.pc + 1 \in 1 .. Len(F))
         /\ (Here.do = "mie" => scen.fw = "irq") /\ (Here.do = "table" => scen.fw = "ca")
         /\ scen \in Scenarios
<1>1. scen \in Scenarios /\ dut.pc \in 1 .. Len(F) BY Zenon DEF TypeInv, DutOK
<1>2. FirmwareShape(scen, F) BY Loaded
<1>3. Runnable(F, Deeds) BY <1>2, Zenon DEF FirmwareShape
<1>4. Here = F[dut.pc] BY Zenon DEF Here, F
<1>5. F \in Seq(Ops) /\ F # <<>> /\ F[Len(F)].do = "spin" BY <1>3, Zenon DEF Runnable, Piece
<1> HIDE DEF F
<1>6. F[dut.pc] \in Ops /\ Len(F) \in Nat /\ (dut.pc # Len(F) => dut.pc + 1 \in 1 .. Len(F))
  BY ONLY <1>1, <1>5
<1>7. InPlace(F, dut.pc) BY <1>1, <1>3, Zenon DEF Runnable, Piece
<1>8. Here.do \in Deeds /\ Here.insn \in Instructions
  <2>1. ASSUME NEW o \in Ops PROVE o.do \in Deeds /\ o.insn \in Instructions BY ONLY <2>1 DEF Ops
  <2>2. QED BY <1>4, <1>6, <2>1, Zenon
<1>9. (Here.do # "spin" => dut.pc + 1 \in 1 .. Len(F)) BY <1>4, <1>5, <1>6, Zenon
<1>10. (Here.do = "mie" => scen.fw = "irq") /\ (Here.do = "table" => scen.fw = "ca")
  <2>1. /\ (scen.fw # "irq" => F[dut.pc].do \in Deeds \ {"mie"})
        /\ (scen.fw # "ca" => F[dut.pc].do \in Deeds \ {"table"})
    BY <1>1, <1>2, Zenon DEF FirmwareShape, Runnable, Piece
  <2>2. QED BY <1>4, <2>1, Zenon
<1>11. QED BY <1>1, <1>3, <1>4, <1>6, <1>7, <1>8, <1>9, <1>10

\* What an instruction that uses a word of the counter says of the two before it.
Uses(p, i) ==
  /\ p[i + 1].do = "read hi2" => p[i].do = "read lo" /\ i > 1 /\ p[i - 1].do = "read hi"
  /\ p[i + 1].do = "again" => p[i].do = "read hi2"
  /\ p[i + 1].do = "mark hi" => p[i].do = "read hi" /\ i > 1 /\ p[i - 1].do = "read lo"
  /\ p[i + 1].do = "mark lo" => p[i].do = "mark hi"

\* What the place of an instruction says of the one after it.
LEMMA NextPlace ==
  ASSUME NEW p, Piece(p, Deeds), NEW i \in Nat \ {0}, i + 1 \in 1 .. Len(p)
  PROVE  Uses(p, i)
<1> DEFINE j == i + 1
<1>1. j - 1 = i /\ j - 2 = i - 1 /\ (j > 2 => i > 1) OBVIOUS
<1>2. InPlace(p, j) BY Zenon DEF Piece
<1> HIDE DEF j
<1>3. /\ p[j].do = "read hi2" => p[i].do = "read lo" /\ i > 1 /\ p[i - 1].do = "read hi"
      /\ p[j].do = "again" => p[i].do = "read hi2"
      /\ p[j].do = "mark hi" => p[i].do = "read hi" /\ i > 1 /\ p[i - 1].do = "read lo"
      /\ p[j].do = "mark lo" => p[i].do = "mark hi"
  BY <1>1, <1>2, Zenon DEF InPlace
<1>4. QED BY <1>3, Zenon DEF j, Uses

\* The three reads before the comparison in verif_ca_get_cycle.
Reread(p, i) ==
  /\ i - 3 \in 1 .. Len(p) /\ i - 2 \in 1 .. Len(p) /\ i - 1 \in 1 .. Len(p)
  /\ p[i - 3].do = "read hi" /\ p[i - 2].do = "read lo" /\ p[i - 1].do = "read hi2"
  /\ (i - 3 > 1 => p[(i - 3) - 1].do # "read lo")

\* Where the loop of verif_ca_get_cycle goes back to.
LEMMA BackPlace ==
  ASSUME NEW p, Piece(p, Deeds), NEW i \in 1 .. Len(p), p[i].do = "again"
  PROVE  Reread(p, i)
<1> DEFINE j == i - 1
<1>1. InPlace(p, i) /\ p \in Seq(Ops) BY Zenon DEF Piece
<1>2. i > 3 /\ p[i - 1].do = "read hi2" /\ (i > 4 => p[i - 4].do # "read lo")
  BY <1>1, Zenon DEF InPlace
<1>3. /\ i - 3 \in 1 .. Len(p) /\ i - 2 \in 1 .. Len(p) /\ j \in 1 .. Len(p)
      /\ j - 1 = i - 2 /\ j - 2 = i - 3 /\ (i - 3 > 1 => i > 4) /\ (i - 3) - 1 = i - 4
  <2>1. Len(p) \in Nat BY ONLY <1>1
  <2>2. i > 3 BY <1>2
  <2>3. QED BY <2>1, <2>2
<1>4. InPlace(p, j) BY <1>3, Zenon DEF Piece
<1>5. p[j].do = "read hi2" BY <1>2
<1> HIDE DEF j
<1>6. p[i - 2].do = "read lo" /\ p[i - 3].do = "read hi" BY <1>3, <1>4, <1>5, Zenon DEF InPlace
<1>7. QED BY <1>2, <1>3, <1>6, Zenon DEF j, Reread

-----------------------------------------------------------------------------
(* The steps, field by field *)

HostRuns ==
  /\ host.left > 0 /\ host'.pc = host.pc /\ host'.run = host.run /\ host'.rows = host.rows
  /\ host'.exit = host.exit
Ahead == dut'.pc = dut.pc + 1 /\ Here.do # "spin"
HighsKept == dut'.hi = dut.hi /\ dut'.hi2 = dut.hi2
RegsKept == HighsKept /\ dut'.lo = dut.lo
MarksKept ==
  /\ mem'.cycle = mem.cycle /\ mem'.cyc0 = mem.cyc0
  /\ truth'.at = truth.at /\ truth'.start = truth.start /\ truth'.mark = truth.mark
TableKept == mem'.table = mem.table /\ mem'.magic = mem.magic
BpKept == mem'.bp = mem.bp
TohostKept == mem'.tohost = mem.tohost /\ truth'.exit = truth.exit

\* tick: the instruction commits, and its cost is counted.
LEMMA CommitStep ==
  ASSUME TypeInv, host.left > 0, NEW insn \in Instructions, Commits(insn)
  PROVE  /\ scen' = scen /\ HostRuns /\ HostOK' /\ TmOK(tm)'
         /\ tm'.total = (tm.total + cost(tm, insn).cyc) % CycleMod
<1>1. scen' = scen /\ tm' = account(tm, insn) /\ host' = [host EXCEPT !.left = @ - 1] BY DEF Commits
<1>2. TmOK(tm) /\ HostOK BY DEF TypeInv
<1>3. HostOK' /\ HostRuns
  <2> DEFINE n == host.left - 1
  <2>1. host \in Hosts BY <1>2 DEF HostOK
  <2>2. n \in Nat
    <3>1. host.left \in Nat /\ host.left > 0 BY <2>1 DEF Hosts
    <3>2. QED BY ONLY <3>1
  <2>3. host' = [host EXCEPT !.left = n] /\ host.left > 0 BY <1>1
  <2> HIDE DEF n
  <2>4. QED BY ONLY <2>1, <2>2, <2>3 DEF HostOK, Hosts, HostRuns
<1>4. TmOK(tm') /\ tm'.total = (tm.total + cost(tm, insn).cyc) % CycleMod
  BY <1>1, <1>2, Accounts, Zenon
<1>5. QED BY <1>1, <1>3, <1>4 DEF TmOK

\* Only the lines of the cache are noted.
LEMMA Noted ==
  ASSUME TypeInv, NEW x, truth' = [truth EXCEPT !.recent = x]
  PROVE  /\ TruthOK' /\ truth'.at = truth.at /\ truth'.start = truth.start /\ truth'.mark = truth.mark
         /\ truth'.exit = truth.exit
  BY DEF TypeInv, TruthOK

\* The hart goes on to the next instruction.
LEMMA OnwardStep ==
  ASSUME TypeInv, Here.do # "spin", scen' = scen
  PROVE  /\ dut.pc + 1 \in 1 .. Len(F) /\ F' = F
         /\ Onward \in Duts /\ Onward.pc = dut.pc + 1 /\ Onward.mie = dut.mie /\ Onward.hi = dut.hi
         /\ Onward.hi2 = dut.hi2 /\ Onward.lo = dut.lo /\ Onward.value = dut.value
         /\ (dut' = Onward => DutOK' /\ Ahead /\ RegsKept /\ dut'.value = dut.value)
<1>1. dut.pc + 1 \in 1 .. Len(F) BY HereFacts, Zenon
<1>2. F' = F BY DEF F
<1>3. dut \in Duts /\ dut.pc + 1 \in Nat /\ (dut.mie = 1 => scen.fw = "irq") BY DEF TypeInv, DutOK, Duts
<1>4. /\ Onward \in Duts /\ Onward.pc = dut.pc + 1 /\ Onward.mie = dut.mie /\ Onward.hi = dut.hi
      /\ Onward.hi2 = dut.hi2 /\ Onward.lo = dut.lo /\ Onward.value = dut.value
  BY <1>3 DEF Onward, Duts
<1>5. dut' = Onward => DutOK' /\ Ahead /\ RegsKept /\ dut'.value = dut.value
  BY <1>1, <1>2, <1>3, <1>4, Zenon DEF DutOK, Ahead, RegsKept, HighsKept
<1>6. QED BY <1>1, <1>2, <1>4, <1>5

\* Nothing in memory changes, or only what is said to.
LEMMA MemStep ==
  ASSUME TypeInv, mem' = mem
  PROVE  /\ MemOK' /\ mem'.cycle = mem.cycle /\ mem'.cyc0 = mem.cyc0 /\ TableKept /\ BpKept
         /\ mem'.tohost = mem.tohost
  BY Zenon DEF TypeInv, MemOK, TableKept, BpKept

\* The hart stays where it is.
LEMMA Stays ==
  ASSUME TypeInv, scen' = scen, dut' = dut
  PROVE  DutOK' /\ RegsKept /\ dut'.value = dut.value /\ dut'.pc = dut.pc
<1>1. F' = F BY DEF F
<1>2. QED BY <1>1, Zenon DEF TypeInv, DutOK, RegsKept, HighsKept

\* A step of the firmware, and one that only takes time.
FwStep == scen' = scen /\ HostRuns /\ TypeInv'
PlainStep ==
  /\ FwStep /\ RegsKept /\ dut'.value = dut.value /\ MarksKept /\ TableKept /\ BpKept /\ TohostKept
  /\ \/ Ahead /\ Here.do \in {"none", "mie", "poll", "c0", "any"}
     \/ dut'.pc = dut.pc /\ Here.do \in {"spin", "poll", "any"}
     \/ scen.fw = "irq" /\ dut'.pc = Len(IrqMain) + 1

\* What such a step comes to.
LEMMA PlainFrom ==
  ASSUME TypeInv, host.left > 0, NEW insn \in Instructions, Goes(insn), mem' = mem,
         DutOK', RegsKept, dut'.value = dut.value
  PROVE  FwStep /\ RegsKept /\ dut'.value = dut.value /\ MarksKept /\ TableKept /\ BpKept /\ TohostKept
<1>1. scen' = scen /\ HostRuns /\ HostOK' /\ TmOK(tm)'
  <2>1. Commits(insn) BY DEF Goes
  <2>2. QED BY <2>1, CommitStep
<1>2. /\ TruthOK' /\ truth'.at = truth.at /\ truth'.start = truth.start /\ truth'.mark = truth.mark
      /\ truth'.exit = truth.exit
  <2>1. truth' = [truth EXCEPT !.recent = Touched(insn)] BY DEF Goes
  <2>2. QED BY <2>1, Noted, Zenon
<1>3. /\ MemOK' /\ mem'.cycle = mem.cycle /\ mem'.cyc0 = mem.cyc0 /\ TableKept /\ BpKept
      /\ mem'.tohost = mem.tohost
  BY MemStep
<1>4. scen' \in Scenarios BY <1>1 DEF TypeInv
<1>5. QED BY <1>1, <1>2, <1>3, <1>4, Zenon DEF FwStep, TypeInv, MarksKept, TohostKept

\* The same, with where the hart goes.
LEMMA PlainMoves ==
  ASSUME TypeInv, host.left > 0, NEW insn \in Instructions, Goes(insn), mem' = mem,
         NEW d \in Duts, dut' = d, d.hi = dut.hi, d.hi2 = dut.hi2, d.lo = dut.lo, d.value = dut.value,
         d.pc \in 1 .. Len(F), d.mie = 1 => scen.fw = "irq",
         \/ d.pc = dut.pc + 1 /\ Here.do \in {"none", "mie", "poll", "c0", "any"}
         \/ d.pc = dut.pc /\ Here.do \in {"spin", "poll", "any"}
  PROVE  PlainStep
<1>1. scen' = scen BY DEF Goes, Commits
<1>2. F' = F BY <1>1 DEF F
<1>3. DutOK' /\ RegsKept /\ dut'.value = dut.value BY <1>1, <1>2, Zenon DEF DutOK, RegsKept, HighsKept
<1>4. FwStep /\ RegsKept /\ dut'.value = dut.value /\ MarksKept /\ TableKept /\ BpKept /\ TohostKept
  BY <1>3, PlainFrom
<1>5. QED BY <1>4, Zenon DEF PlainStep, Ahead

\* Instructions that take time, or open interrupts, and those of the loops.
LEMMA PlainSteps ==
  ASSUME TypeInv, Computes \/ Spins \/ EnablesInterrupts \/ PollsBp \/ KeepsStart \/ RunsAny
  PROVE  PlainStep
<1>1. Here.insn \in Instructions /\ (Here.do = "mie" => scen.fw = "irq") BY HereFacts
<1>2. /\ dut \in Duts /\ dut.pc \in 1 .. Len(F) /\ (dut.mie = 1 => scen.fw = "irq")
  BY DEF TypeInv, DutOK
<1>3. ASSUME scen' = scen, Here.do # "spin"
      PROVE  /\ dut.pc + 1 \in 1 .. Len(F) /\ Onward \in Duts /\ Onward.pc = dut.pc + 1
             /\ Onward.mie = dut.mie /\ Onward.hi = dut.hi
             /\ Onward.hi2 = dut.hi2 /\ Onward.lo = dut.lo /\ Onward.value = dut.value
  BY <1>3, OnwardStep
<1>4. \A insn : Goes(insn) => scen' = scen BY DEF Goes, Commits
<1>5. CASE Computes
  <2>1. host.left > 0 /\ Here.do = "none" /\ Goes(Here.insn) /\ dut' = Onward /\ mem' = mem
    BY <1>5, Zenon DEF Computes, Runs
  <2>2. QED BY <1>1, <1>2, <1>3, <1>4, <2>1, PlainMoves, Zenon
<1>6. CASE Spins
  <2>1. host.left > 0 /\ Here.do = "spin" /\ Goes(Here.insn) /\ dut' = dut /\ mem' = mem
    BY <1>6, Zenon DEF Spins, Runs
  <2>2. QED BY <1>1, <1>2, <2>1, PlainMoves, Zenon
<1>7. CASE EnablesInterrupts
  <2> DEFINE d == [Onward EXCEPT !.mie = 1]
  <2>1. host.left > 0 /\ Here.do = "mie" /\ Goes(Here.insn) /\ dut' = d /\ mem' = mem
    BY <1>7, Zenon DEF EnablesInterrupts, Runs
  <2>2. scen' = scen /\ scen.fw = "irq" BY <1>1, <1>4, <2>1
  <2>3. /\ dut.pc + 1 \in 1 .. Len(F) /\ Onward \in Duts /\ Onward.pc = dut.pc + 1 /\ Onward.hi = dut.hi
        /\ Onward.hi2 = dut.hi2 /\ Onward.lo = dut.lo /\ Onward.value = dut.value
    BY <1>3, <2>1, <2>2
  <2>4. d \in Duts /\ d.pc = Onward.pc /\ d.hi = Onward.hi /\ d.hi2 = Onward.hi2 /\ d.lo = Onward.lo
        /\ d.value = Onward.value
    BY <2>3 DEF Duts
  <2> HIDE DEF d
  <2>5. /\ d.pc = dut.pc + 1 /\ d.pc \in 1 .. Len(F) /\ d.hi = dut.hi
        /\ d.hi2 = dut.hi2 /\ d.lo = dut.lo /\ d.value = dut.value
    BY <2>3, <2>4, Zenon
  <2>6. QED BY <1>1, <2>1, <2>2, <2>4, <2>5, PlainMoves, Zenon
<1>8. CASE PollsBp
  <2> DEFINE d == [dut EXCEPT !.guard = @ + 1]
  <2>1. /\ host.left > 0 /\ Here.do = "poll" /\ Goes(Here.insn) /\ mem' = mem
        /\ dut' = Onward \/ dut' = d
    BY <1>8, Zenon DEF PollsBp, Runs
  <2>2. /\ d \in Duts /\ d.pc = dut.pc /\ d.hi = dut.hi /\ d.hi2 = dut.hi2 /\ d.lo = dut.lo
        /\ d.value = dut.value /\ d.mie = dut.mie
    BY <1>2 DEF Duts
  <2> HIDE DEF d
  <2>3. CASE dut' = Onward BY <1>1, <1>2, <1>3, <1>4, <2>1, <2>3, PlainMoves, Zenon
  <2>4. CASE dut' = d BY <1>1, <1>2, <2>1, <2>2, <2>4, PlainMoves, Zenon
  <2>5. QED BY <2>1, <2>3, <2>4
<1>9. CASE KeepsStart
  <2> DEFINE d == [Onward EXCEPT !.c0 = dut.value]
  <2>1. host.left > 0 /\ Here.do = "c0" /\ Goes(Here.insn) /\ dut' = d /\ mem' = mem
    BY <1>9, Zenon DEF KeepsStart, Runs
  <2>2. scen' = scen BY <1>4, <2>1
  <2>3. /\ dut.pc + 1 \in 1 .. Len(F) /\ Onward \in Duts /\ Onward.pc = dut.pc + 1 /\ Onward.hi = dut.hi
        /\ Onward.hi2 = dut.hi2 /\ Onward.lo = dut.lo /\ Onward.value = dut.value /\ Onward.mie = dut.mie
    BY <1>3, <2>1, <2>2
  <2>4. d \in Duts /\ d.pc = Onward.pc /\ d.hi = Onward.hi /\ d.hi2 = Onward.hi2 /\ d.lo = Onward.lo
        /\ d.value = Onward.value /\ d.mie = Onward.mie
    <3>1. dut.value \in Nat BY <1>2 DEF Duts
    <3>2. QED BY <2>3, <3>1 DEF Duts
  <2> HIDE DEF d
  <2>5. /\ d.pc = dut.pc + 1 /\ d.pc \in 1 .. Len(F) /\ d.hi = dut.hi /\ (d.mie = 1 => scen.fw = "irq")
        /\ d.hi2 = dut.hi2 /\ d.lo = dut.lo /\ d.value = dut.value
    BY <1>2, <2>3, <2>4, Zenon
  <2>6. QED BY <1>1, <2>1, <2>4, <2>5, PlainMoves, Zenon
<1>10. CASE RunsAny
  <2> DEFINE d == [dut EXCEPT !.guard = @ + 1]
  <2>1. /\ host.left > 0 /\ Here.do = "any" /\ mem' = mem
        /\ \/ Goes(Here.insn) /\ dut' = Onward
           \/ \E insn \in Insns : Goes(insn) /\ dut' = d
    BY <1>10, Zenon DEF RunsAny, Runs
  <2>2. /\ d \in Duts /\ d.pc = dut.pc /\ d.hi = dut.hi /\ d.hi2 = dut.hi2 /\ d.lo = dut.lo
        /\ d.value = dut.value /\ d.mie = dut.mie
    BY <1>2 DEF Duts
  <2> HIDE DEF d
  <2>3. CASE Goes(Here.insn) /\ dut' = Onward BY <1>1, <1>2, <1>3, <1>4, <2>1, <2>3, PlainMoves, Zenon
  <2>4. CASE \E insn \in Insns : Goes(insn) /\ dut' = d
    <3>1. PICK insn \in Insns : Goes(insn) /\ dut' = d BY <2>4
    <3>2. insn \in Instructions BY SpikeAssumption DEF SpikeAssumption
    <3>3. QED BY <1>2, <2>1, <2>2, <3>1, <3>2, PlainMoves, Zenon
  <2>5. QED BY <2>1, <2>3, <2>4
<1>11. QED BY <1>5, <1>6, <1>7, <1>8, <1>9, <1>10

\* Traps: the handler of the firmware, or one that comes back.
LEMMA TrapSteps == ASSUME TypeInv, TrapsAny \/ TakesInterrupt PROVE PlainStep
<1>1. /\ host.left > 0 /\ tm' = account_trap(tm) /\ host' = [host EXCEPT !.left = @ - 1]
      /\ scen' = scen /\ mem' = mem /\ truth' = truth
  BY DEF TrapsAny, TakesInterrupt, Runs
<1>2. TmOK(tm) /\ HostOK /\ TruthOK /\ scen \in Scenarios BY DEF TypeInv
<1>3. HostOK' /\ HostRuns
  <2> DEFINE n == host.left - 1
  <2>1. host \in Hosts BY <1>2 DEF HostOK
  <2>2. n \in Nat
    <3>1. host.left \in Nat /\ host.left > 0 BY <1>1, <2>1 DEF Hosts
    <3>2. QED BY ONLY <3>1
  <2>3. host' = [host EXCEPT !.left = n] /\ host.left > 0 BY <1>1
  <2> HIDE DEF n
  <2>4. QED BY ONLY <2>1, <2>2, <2>3 DEF HostOK, Hosts, HostRuns
<1>4. TmOK(tm)'
  <2>1. \E i : i \in Instructions BY InsnFacts
  <2>2. TmOK(tm') BY <1>1, <1>2, <2>1, Accounts, Zenon
  <2>3. QED BY <2>2 DEF TmOK
<1>5. TruthOK' /\ truth'.at = truth.at /\ truth'.start = truth.start /\ truth'.mark = truth.mark /\ truth'.exit = truth.exit
  BY <1>1, <1>2 DEF TruthOK
<1>6. /\ MemOK' /\ mem'.cycle = mem.cycle /\ mem'.cyc0 = mem.cyc0 /\ TableKept /\ BpKept
      /\ mem'.tohost = mem.tohost
  BY <1>1, MemStep
<1>7. F' = F BY <1>1 DEF F
<1>8. dut \in Duts /\ dut.pc \in 1 .. Len(F) /\ (dut.mie = 1 => scen.fw = "irq") BY DEF TypeInv, DutOK
<1>9. /\ DutOK' /\ RegsKept /\ dut'.value = dut.value
      /\ \/ dut'.pc = dut.pc /\ Here.do = "any"
         \/ scen.fw = "irq" /\ dut'.pc = Len(IrqMain) + 1
  <2>1. CASE TrapsAny
    <3>1. dut' = [dut EXCEPT !.guard = @ + 1] /\ Here.do = "any" BY <2>1, Zenon DEF TrapsAny, Runs
    <3>2. /\ dut' \in Duts /\ dut'.pc = dut.pc /\ dut'.hi = dut.hi /\ dut'.hi2 = dut.hi2 /\ dut'.lo = dut.lo
          /\ dut'.value = dut.value /\ dut'.mie = dut.mie
      BY <1>8, <3>1 DEF Duts
    <3>3. QED BY <1>1, <1>7, <1>8, <3>1, <3>2, Zenon DEF DutOK, RegsKept, HighsKept
  <2>2. CASE TakesInterrupt
    <3>1. dut' = [dut EXCEPT !.mie = 0, !.pc = Len(IrqMain) + 1] /\ dut.mie = 1
      BY <2>2, Zenon DEF TakesInterrupt, Interrupted
    <3>2. scen.fw = "irq" BY <1>8, <3>1
    <3>3. Len(IrqMain) + 1 \in 1 .. Len(F) BY <3>2, Loaded, Zenon DEF FirmwareShape
    <3> DEFINE n == Len(IrqMain) + 1
    <3>4. n \in Nat
      <4>1. Len(F) \in Nat BY HereFacts
      <4>2. QED BY <3>3, <4>1
    <3> HIDE DEF n
    <3>5. dut' = [dut EXCEPT !.mie = 0, !.pc = n] BY <3>1 DEF n
    <3>6. /\ dut' \in Duts /\ dut'.pc = n /\ dut'.hi = dut.hi /\ dut'.hi2 = dut.hi2 /\ dut'.lo = dut.lo
          /\ dut'.value = dut.value
      BY <1>8, <3>4, <3>5 DEF Duts
    <3>7. QED BY <1>1, <1>7, <3>2, <3>3, <3>6, Zenon DEF DutOK, RegsKept, HighsKept, n
  <2>3. QED BY <2>1, <2>2
<1>10. FwStep BY <1>1, <1>2, <1>3, <1>4, <1>5, <1>6, <1>9, Zenon DEF FwStep, TypeInv
<1>11. QED BY <1>5, <1>6, <1>9, <1>10, Zenon DEF PlainStep, MarksKept, TohostKept

\* What the steps that write memory have in common.
Writes(deeds) ==
  FwStep /\ RegsKept /\ dut'.value = dut.value /\ Ahead /\ Here.do \in deeds

\* A store commits, the hart goes on, and only memory and what was noted change.
LEMMA WritesFrom ==
  ASSUME TypeInv, NEW D, host.left > 0, Here.do \in D, Here.do # "spin", Commits(Here.insn), dut' = Onward,
         MemOK', TruthOK'
  PROVE  Writes(D)
<1>1. Here.insn \in Instructions BY HereFacts
<1>2. scen' = scen /\ HostRuns /\ HostOK' /\ TmOK(tm)' BY <1>1, CommitStep
<1>3. DutOK' /\ Ahead /\ RegsKept /\ dut'.value = dut.value BY <1>2, OnwardStep, Zenon
<1>4. scen' \in Scenarios BY <1>2 DEF TypeInv
<1>5. QED BY <1>2, <1>3, <1>4, Zenon DEF Writes, FwStep, TypeInv

\* dut_set_bp
LEMMA SetsBpStep ==
  ASSUME TypeInv, SetsBp
  PROVE  Writes({"bp"}) /\ mem'.bp = Here.val /\ MarksKept /\ TableKept /\ TohostKept
<1>1. /\ host.left > 0 /\ Here.do = "bp" /\ Goes(Here.insn) /\ dut' = Onward
      /\ mem' = [mem EXCEPT !.bp = Here.val]
  BY Zenon DEF SetsBp, Runs
<1>2. Commits(Here.insn) /\ truth' = [truth EXCEPT !.recent = Touched(Here.insn)] BY <1>1 DEF Goes
<1>3. /\ TruthOK' /\ truth'.at = truth.at /\ truth'.start = truth.start /\ truth'.mark = truth.mark
      /\ truth'.exit = truth.exit
  BY <1>2, Noted, Zenon
<1>4. Here.val \in Breakpoints
  <2>1. Here = F[dut.pc] /\ InPlace(F, dut.pc) BY HereFacts
  <2>2. QED BY <1>1, <2>1, Zenon DEF InPlace
<1>5. /\ MemOK' /\ mem'.bp = Here.val /\ mem'.cycle = mem.cycle /\ mem'.cyc0 = mem.cyc0
      /\ mem'.table = mem.table /\ mem'.magic = mem.magic /\ mem'.tohost = mem.tohost
  <2>1. mem \in Mems BY DEF TypeInv, MemOK
  <2>2. QED BY ONLY <1>1, <1>4, <2>1 DEF Mems, MemOK
<1>6. Writes({"bp"})
  <2>1. Here.do \in {"bp"} /\ Here.do # "spin" BY <1>1
  <2>2. QED BY <1>1, <1>2, <1>3, <1>5, <2>1, WritesFrom
<1>7. QED BY <1>3, <1>5, <1>6, Zenon DEF MarksKept, TableKept, TohostKept

\* exit, or a request to the console: the low word 1 is exit(0).
LEMMA WritesTohostStep ==
  ASSUME TypeInv, mem.tohost.lo = 1 => truth.exit = 0, WritesTohost
  PROVE  /\ Writes({"tohost lo", "tohost hi"}) /\ MarksKept /\ TableKept /\ BpKept
         /\ (mem'.tohost.lo = 1 => truth'.exit = 0)
<1>1. /\ host.left > 0 /\ Here.do \in {"tohost lo", "tohost hi"} /\ Commits(Here.insn) /\ dut' = Onward
      /\ Here.do # "spin"
  BY Zenon DEF WritesTohost, Runs
<1>2. (Here.do = "tohost lo" => Here.val \in Nat) /\ (Here.do = "tohost hi" => Here.val = 0)
  <2>1. Here = F[dut.pc] /\ InPlace(F, dut.pc) BY HereFacts
  <2>2. QED BY <2>1, Zenon DEF InPlace
<1>3. mem \in Mems /\ TruthOK BY DEF TypeInv, MemOK
<1> DEFINE x == Touched(Here.insn)
           e == IF Here.do = "tohost lo" /\ Here.val # MagicAddr THEN (Here.val - 1) \div 2 ELSE truth.exit
<1>4. truth' = [truth EXCEPT !.recent = x, !.exit = e] BY DEF WritesTohost
<1> HIDE DEF x, e
<1>5. /\ TruthOK' /\ truth'.at = truth.at /\ truth'.start = truth.start /\ truth'.mark = truth.mark
      /\ truth'.exit = e
  BY ONLY <1>3, <1>4 DEF TruthOK
<1>6. /\ MemOK' /\ mem'.cycle = mem.cycle /\ mem'.cyc0 = mem.cyc0
      /\ mem'.table = mem.table /\ mem'.magic = mem.magic /\ mem'.bp = mem.bp
      /\ (mem'.tohost.lo = 1 => truth'.exit = 0)
  <2>1. CASE Here.do = "tohost lo"
    <3>1. mem' = [mem EXCEPT !.tohost.lo = Here.val] BY <2>1 DEF WritesTohost
    <3>2. Here.val \in Nat BY <1>2, <2>1
    <3>3. /\ mem' \in Mems /\ mem'.cycle = mem.cycle /\ mem'.cyc0 = mem.cyc0
          /\ mem'.table = mem.table /\ mem'.magic = mem.magic /\ mem'.bp = mem.bp
          /\ mem'.tohost.lo = Here.val
      BY ONLY <1>3, <3>1, <3>2 DEF Mems
    <3>4. Here.val = 1 => e = 0
      <4>1. MagicAddr > 1 BY SpikeAssumption DEF SpikeAssumption
      <4>2. Here.val = 1 => Here.val # MagicAddr BY <4>1
      <4>3. (1 - 1) \div 2 = 0 OBVIOUS
      <4>4. Here.val = 1 => e = (1 - 1) \div 2 BY <2>1, <4>2, Zenon DEF e
      <4>5. QED BY <4>3, <4>4
    <3>5. QED BY <1>5, <3>3, <3>4, Zenon DEF MemOK
  <2>2. CASE Here.do = "tohost hi"
    <3>1. mem' = [mem EXCEPT !.tohost.hi = 0] BY <1>2, <2>2 DEF WritesTohost
    <3>2. /\ mem' \in Mems /\ mem'.cycle = mem.cycle /\ mem'.cyc0 = mem.cyc0
          /\ mem'.table = mem.table /\ mem'.magic = mem.magic /\ mem'.bp = mem.bp
          /\ mem'.tohost.lo = mem.tohost.lo
      BY ONLY <1>3, <3>1 DEF Mems
    <3>3. e = truth.exit BY <2>2 DEF e
    <3>4. QED BY <1>5, <3>2, <3>3, Zenon DEF MemOK
  <2>3. QED BY <1>1, <2>1, <2>2
<1>7. Writes({"tohost lo", "tohost hi"}) BY <1>1, <1>5, <1>6, WritesFrom
<1>8. QED BY <1>5, <1>6, <1>7, Zenon DEF MarksKept, TableKept, BpKept

\* ca_table_init
LEMMA InitsTableStep ==
  ASSUME TypeInv, InitsTable
  PROVE  /\ Writes({"table"}) /\ scen.fw = "ca" /\ mem'.table = <<>> /\ MarksKept /\ BpKept /\ TohostKept
<1>1. /\ host.left > 0 /\ Here.do = "table" /\ Goes(Here.insn) /\ dut' = Onward
      /\ mem' = [mem EXCEPT !.magic = 1, !.table = <<>>]
  BY Zenon DEF InitsTable, Runs
<1>2. Commits(Here.insn) /\ truth' = [truth EXCEPT !.recent = Touched(Here.insn)] BY <1>1 DEF Goes
<1>3. /\ TruthOK' /\ truth'.at = truth.at /\ truth'.start = truth.start /\ truth'.mark = truth.mark
      /\ truth'.exit = truth.exit
  BY <1>2, Noted, Zenon
<1>4. scen.fw = "ca" BY <1>1, HereFacts
<1>5. /\ MemOK' /\ mem'.bp = mem.bp /\ mem'.cycle = mem.cycle /\ mem'.cyc0 = mem.cyc0
      /\ mem'.table = <<>> /\ mem'.tohost = mem.tohost
  <2>1. mem \in Mems BY DEF TypeInv, MemOK
  <2>0. <<>> \in Seq(Nat) BY ONLY TRUE
  <2>2. PICK t \in Seq(Nat) : t = <<>> BY <2>0, Zenon
  <2>3. mem' = [mem EXCEPT !.magic = 1, !.table = t] BY <1>1, <2>2
  <2>4. /\ mem' \in Mems /\ mem'.bp = mem.bp /\ mem'.cycle = mem.cycle /\ mem'.cyc0 = mem.cyc0
        /\ mem'.table = t /\ mem'.tohost = mem.tohost
    BY ONLY <2>1, <2>3 DEF Mems
  <2>5. QED BY <2>2, <2>4, Zenon DEF MemOK
<1>6. Writes({"table"})
  <2>1. Here.do \in {"table"} /\ Here.do # "spin" BY <1>1
  <2>2. QED BY <1>1, <1>2, <1>3, <1>5, <2>1, WritesFrom
<1>7. QED BY <1>3, <1>4, <1>5, <1>6, Zenon DEF MarksKept, BpKept, TohostKept

\* ca_record
LEMMA RecordsStep ==
  ASSUME TypeInv, Records
  PROVE  /\ Writes({"record"}) /\ Len(mem'.table) = Len(mem.table) + 1 /\ mem'.magic = mem.magic
         /\ MarksKept /\ BpKept /\ TohostKept
<1> DEFINE v == (dut.value - dut.c0) % WordMod
<1>1. /\ host.left > 0 /\ Here.do = "record" /\ Goes(Here.insn) /\ dut' = Onward
      /\ mem' = [mem EXCEPT !.table = Append(@, v)]
  BY Zenon DEF Records, Runs
<1>2. Commits(Here.insn) /\ truth' = [truth EXCEPT !.recent = Touched(Here.insn)] BY <1>1 DEF Goes
<1>3. /\ TruthOK' /\ truth'.at = truth.at /\ truth'.start = truth.start /\ truth'.mark = truth.mark
      /\ truth'.exit = truth.exit
  BY <1>2, Noted, Zenon
<1>4. v \in Nat
  <2>1. dut.value \in Nat /\ dut.c0 \in Nat BY DEF TypeInv, DutOK, Duts
  <2>2. WordMod \in Nat /\ WordMod > 0 BY GapIsShort
  <2>3. ASSUME NEW a \in Int PROVE a % WordMod \in Nat BY ONLY <2>2, <2>3
  <2>4. QED BY <2>1, <2>3
<1> HIDE DEF v
<1>5. /\ MemOK' /\ mem'.bp = mem.bp /\ mem'.cycle = mem.cycle /\ mem'.cyc0 = mem.cyc0
      /\ Len(mem'.table) = Len(mem.table) + 1 /\ mem'.magic = mem.magic /\ mem'.tohost = mem.tohost
  <2>1. mem \in Mems BY DEF TypeInv, MemOK
  <2>2. mem.table \in Seq(Nat) BY <2>1 DEF Mems
  <2> DEFINE t == Append(mem.table, v)
  <2>3. t \in Seq(Nat) /\ Len(t) = Len(mem.table) + 1 BY ONLY <1>4, <2>2
  <2>4. mem' = [mem EXCEPT !.table = t] BY <1>1
  <2> HIDE DEF t
  <2>5. /\ mem' \in Mems /\ mem'.bp = mem.bp /\ mem'.cycle = mem.cycle /\ mem'.cyc0 = mem.cyc0
        /\ mem'.table = t /\ mem'.magic = mem.magic /\ mem'.tohost = mem.tohost
    BY ONLY <2>1, <2>3, <2>4 DEF Mems
  <2>6. QED BY <2>3, <2>5, Zenon DEF MemOK
<1>6. Writes({"record"})
  <2>1. Here.do \in {"record"} /\ Here.do # "spin" BY <1>1
  <2>2. QED BY <1>1, <1>2, <1>3, <1>5, <2>1, WritesFrom
<1>7. QED BY <1>3, <1>5, <1>6, Zenon DEF MarksKept, BpKept, TohostKept

\* The start of the run, as the table has it.
LEMMA RecordsStartStep ==
  ASSUME TypeInv, RecordsStart
  PROVE  /\ Writes({"start"}) /\ mem'.cyc0 = dut.lo /\ truth'.start = truth.at
         /\ mem'.cycle = mem.cycle /\ truth'.at = truth.at /\ truth'.mark = truth.mark
         /\ TableKept /\ BpKept /\ TohostKept
<1> DEFINE x == Touched(Here.insn)
<1>1. /\ host.left > 0 /\ Here.do = "start" /\ Commits(Here.insn) /\ dut' = Onward
      /\ mem' = [mem EXCEPT !.cyc0 = dut.lo]
      /\ truth' = [truth EXCEPT !.recent = x, !.start = truth.at]
  BY Zenon DEF RecordsStart, Runs
<1> HIDE DEF x
<1>2. /\ TruthOK' /\ truth'.at = truth.at /\ truth'.start = truth.at /\ truth'.mark = truth.mark
      /\ truth'.exit = truth.exit
  <2>1. TruthOK BY DEF TypeInv
  <2>2. QED BY ONLY <1>1, <2>1 DEF TruthOK
<1>3. /\ MemOK' /\ mem'.bp = mem.bp /\ mem'.cycle = mem.cycle /\ mem'.cyc0 = dut.lo
      /\ mem'.table = mem.table /\ mem'.magic = mem.magic /\ mem'.tohost = mem.tohost
  <2>1. mem \in Mems /\ dut.lo \in Nat BY DEF TypeInv, MemOK, DutOK, Duts
  <2>2. QED BY ONLY <1>1, <2>1 DEF Mems, MemOK
<1>4. Writes({"start"})
  <2>1. Here.do \in {"start"} /\ Here.do # "spin" BY <1>1
  <2>2. QED BY <1>1, <1>2, <1>3, <2>1, WritesFrom
<1>5. QED BY <1>2, <1>3, <1>4, Zenon DEF TableKept, BpKept, TohostKept

\* verif_ca_mark_cycle stores the high word, then the low one.
LEMMA MarksStep ==
  ASSUME TypeInv, Marks
  PROVE  /\ Writes({"mark hi", "mark lo"})
         /\ (Here.do = "mark hi" => mem'.cycle.hi = dut.hi /\ truth'.mark = -1)
         /\ (Here.do = "mark lo" => mem'.cycle.hi = mem.cycle.hi /\ mem'.cycle.lo = dut.lo /\ truth'.mark = truth.at)
         /\ mem'.cyc0 = mem.cyc0 /\ truth'.at = truth.at /\ truth'.start = truth.start
         /\ TableKept /\ BpKept /\ TohostKept
<1> DEFINE x == Touched(Here.insn)
<1>1. /\ host.left > 0 /\ Here.do \in {"mark hi", "mark lo"} /\ Here.do # "spin" /\ Commits(Here.insn)
      /\ dut' = Onward
      /\ mem' = IF Here.do = "mark hi" THEN [mem EXCEPT !.cycle.hi = dut.hi] ELSE [mem EXCEPT !.cycle.lo = dut.lo]
      /\ truth' = [truth EXCEPT !.recent = x, !.mark = IF Here.do = "mark hi" THEN -1 ELSE truth.at]
  BY Zenon DEF Marks, Runs
<1> HIDE DEF x
<1>2. /\ TruthOK' /\ truth'.at = truth.at /\ truth'.start = truth.start /\ truth'.exit = truth.exit
      /\ truth'.mark = IF Here.do = "mark hi" THEN -1 ELSE truth.at
  <2>1. TruthOK /\ CycleMod \in Nat /\ CycleMod > 0 BY GapIsShort DEF TypeInv
  <2> DEFINE v == IF Here.do = "mark hi" THEN -1 ELSE truth.at
  <2>2. v \in -1 .. CycleMod - 1
    <3>1. truth.at \in 0 .. CycleMod - 1 /\ CycleMod \in Nat /\ CycleMod > 0 BY <2>1 DEF TruthOK, Cycles
    <3>2. truth.at \in -1 .. CycleMod - 1 /\ -1 \in -1 .. CycleMod - 1 BY ONLY <3>1
    <3>3. QED BY <3>2, Zenon
  <2>3. truth' = [truth EXCEPT !.recent = x, !.mark = v] BY <1>1
  <2> HIDE DEF v
  <2>4. TruthOK' /\ truth'.at = truth.at /\ truth'.start = truth.start /\ truth'.exit = truth.exit /\ truth'.mark = v
    BY ONLY <2>1, <2>2, <2>3 DEF TruthOK
  <2>5. QED BY <2>4 DEF v
<1>3. mem \in Mems /\ dut.lo \in Nat /\ dut.hi \in Nat BY DEF TypeInv, MemOK, DutOK, Duts
<1>4. /\ MemOK' /\ mem'.bp = mem.bp /\ mem'.cyc0 = mem.cyc0
      /\ mem'.table = mem.table /\ mem'.magic = mem.magic /\ mem'.tohost = mem.tohost
      /\ (Here.do = "mark hi" => mem'.cycle.hi = dut.hi)
      /\ (Here.do = "mark lo" => mem'.cycle.hi = mem.cycle.hi /\ mem'.cycle.lo = dut.lo)
  <2>1. CASE Here.do = "mark hi"
    <3>1. mem' = [mem EXCEPT !.cycle.hi = dut.hi] BY <1>1, <2>1
    <3>2. /\ mem' \in Mems /\ mem'.bp = mem.bp /\ mem'.cyc0 = mem.cyc0
          /\ mem'.table = mem.table /\ mem'.magic = mem.magic /\ mem'.tohost = mem.tohost /\ mem'.cycle.hi = dut.hi
      BY ONLY <1>3, <3>1 DEF Mems
    <3>3. Here.do # "mark lo" BY <2>1
    <3>4. QED BY <3>2, <3>3, Zenon DEF MemOK
  <2>2. CASE Here.do = "mark lo"
    <3>1. mem' = [mem EXCEPT !.cycle.lo = dut.lo] BY <1>1, <2>2
    <3>2. /\ mem' \in Mems /\ mem'.bp = mem.bp /\ mem'.cyc0 = mem.cyc0
          /\ mem'.table = mem.table /\ mem'.magic = mem.magic /\ mem'.tohost = mem.tohost
          /\ mem'.cycle.hi = mem.cycle.hi /\ mem'.cycle.lo = dut.lo
      BY ONLY <1>3, <3>1 DEF Mems
    <3>3. Here.do # "mark hi" BY <2>2
    <3>4. QED BY <3>2, <3>3, Zenon DEF MemOK
  <2>3. QED BY <1>1, <2>1, <2>2
<1>5. Writes({"mark hi", "mark lo"}) BY <1>1, <1>2, <1>4, WritesFrom
<1>6. (Here.do = "mark hi" => truth'.mark = -1) /\ (Here.do = "mark lo" => truth'.mark = truth.at)
  BY <1>2
<1>7. QED BY <1>2, <1>4, <1>5, <1>6, Zenon DEF TableKept, BpKept, TohostKept

\* A read of one word of the counter, which takes at most Gap cycles.
LEMMA ReadsCycleStep ==
  ASSUME TypeInv, ReadsCycle
  PROVE  /\ FwStep /\ Ahead /\ Here.do \in Reads /\ dut'.value = dut.value
         /\ mem'.cycle = mem.cycle /\ mem'.cyc0 = mem.cyc0 /\ truth'.start = truth.start /\ truth'.mark = truth.mark
         /\ TableKept /\ BpKept /\ TohostKept /\ tm.total \in Cycles /\ After(tm.total, tm'.total)
         /\ Here.do = "read hi" =>
              dut'.hi = tm.total \div WordMod /\ dut'.lo = dut.lo /\ truth'.at = truth.at
         /\ Here.do = "read hi2" =>
              /\ dut'.hi2 = tm.total \div WordMod /\ dut'.hi = dut.hi /\ dut'.lo = dut.lo
              /\ truth'.at = truth.at
         /\ Here.do = "read lo" =>
              dut'.lo = tm.total % WordMod /\ dut'.hi = dut.hi /\ truth'.at = tm.total
<1>1. /\ host.left > 0 /\ Here.do \in Reads /\ Here.do # "spin" /\ Commits(Here.insn) /\ mem' = mem
  BY Zenon DEF ReadsCycle, Runs, Reads
<1>2. Here.insn \in Instructions /\ Here.insn = Csr
  <2>1. Here = F[dut.pc] /\ InPlace(F, dut.pc) /\ Here.insn \in Instructions BY HereFacts
  <2>2. QED BY <1>1, <2>1, Zenon DEF InPlace
<1>3. /\ scen' = scen /\ HostRuns /\ HostOK' /\ TmOK(tm)'
      /\ tm'.total = (tm.total + cost(tm, Here.insn).cyc) % CycleMod
  BY <1>1, <1>2, CommitStep
<1>4. After(tm.total, tm'.total)
  <2>1. tm'.total = (tm.total + cost(tm, Csr).cyc) % CycleMod BY <1>2, <1>3
  <2>2. cost(tm, Csr).cyc \in 0 .. Gap BY CsrIsShort
  <2>3. QED BY <2>1, <2>2, Zenon DEF After
<1>5. tm.total \in Cycles BY DEF TypeInv, TmOK, Cycles
<1>6. /\ MemOK' /\ mem'.cycle = mem.cycle /\ mem'.cyc0 = mem.cyc0 /\ TableKept /\ BpKept
      /\ mem'.tohost = mem.tohost
  BY <1>1, MemStep
<1>7. mcycle.hi = tm.total \div WordMod /\ mcycle.lo = tm.total % WordMod BY DEF mcycle
<1>8. tm.total \div WordMod \in Nat /\ tm.total % WordMod \in Nat
  <2>1. tm.total \div WordMod \in 0 .. HighMod - 1 /\ tm.total % WordMod \in 0 .. WordMod - 1
    BY <1>5, Words DEF Cycles
  <2>2. \A x, y : x \in 0 .. y => x \in Nat OBVIOUS
  <2>3. QED BY <2>1, <2>2, Zenon
<1>9. /\ dut.pc + 1 \in 1 .. Len(F) /\ F' = F
      /\ Onward \in Duts /\ Onward.pc = dut.pc + 1 /\ Onward.mie = dut.mie /\ Onward.hi = dut.hi
      /\ Onward.hi2 = dut.hi2 /\ Onward.lo = dut.lo /\ Onward.value = dut.value
  BY <1>1, <1>3, OnwardStep
<1>10. /\ TruthOK' /\ truth'.start = truth.start /\ truth'.mark = truth.mark /\ truth'.exit = truth.exit
       /\ (Here.do = "read lo" => truth'.at = tm.total) /\ (Here.do # "read lo" => truth'.at = truth.at)
  <2>1. truth' = IF Here.do = "read lo" THEN [truth EXCEPT !.at = tm.total] ELSE truth BY DEF ReadsCycle
  <2>2. TruthOK BY DEF TypeInv
  <2>3. QED BY ONLY <1>5, <2>1, <2>2 DEF TruthOK
<1>11. dut.mie = 1 => scen.fw = "irq" BY DEF TypeInv, DutOK
<1>12. CASE Here.do = "read hi"
  <2>1. dut' = [Onward EXCEPT !.hi = tm.total \div WordMod] BY <1>7, <1>12 DEF ReadsCycle
  <2> DEFINE h == tm.total \div WordMod
  <2>2. h \in Nat /\ dut' = [Onward EXCEPT !.hi = h] BY <1>8, <2>1
  <2> HIDE DEF h
  <2>3. /\ dut' \in Duts /\ dut'.pc = Onward.pc /\ dut'.mie = Onward.mie /\ dut'.hi = h
        /\ dut'.lo = Onward.lo /\ dut'.value = Onward.value
    BY ONLY <1>9, <2>2 DEF Duts
  <2>4. DutOK' /\ Ahead /\ dut'.value = dut.value /\ dut'.lo = dut.lo
    BY <1>1, <1>3, <1>9, <1>11, <2>3, Zenon DEF DutOK, Ahead
  <2>5. FwStep BY <1>3, <1>6, <1>10, <2>4, Zenon DEF FwStep, TypeInv
  <2>6. "read hi" # "read lo" /\ "read hi" # "read hi2" OBVIOUS
  <2>7. QED BY <1>1, <1>4, <1>5, <1>6, <1>10, <1>12, <2>3, <2>4, <2>5, <2>6, Zenon DEF h, TohostKept
<1>13. CASE Here.do = "read hi2"
  <2>1. dut' = [Onward EXCEPT !.hi2 = tm.total \div WordMod] BY <1>7, <1>13 DEF ReadsCycle
  <2> DEFINE h == tm.total \div WordMod
  <2>2. h \in Nat /\ dut' = [Onward EXCEPT !.hi2 = h] BY <1>8, <2>1
  <2> HIDE DEF h
  <2>3. /\ dut' \in Duts /\ dut'.pc = Onward.pc /\ dut'.mie = Onward.mie /\ dut'.hi2 = h
        /\ dut'.hi = Onward.hi /\ dut'.lo = Onward.lo /\ dut'.value = Onward.value
    BY ONLY <1>9, <2>2 DEF Duts
  <2>4. DutOK' /\ Ahead /\ dut'.value = dut.value /\ dut'.lo = dut.lo /\ dut'.hi = dut.hi
    BY <1>1, <1>3, <1>9, <1>11, <2>3, Zenon DEF DutOK, Ahead
  <2>5. FwStep BY <1>3, <1>6, <1>10, <2>4, Zenon DEF FwStep, TypeInv
  <2>6. "read hi2" # "read lo" /\ "read hi" # "read hi2" OBVIOUS
  <2>7. QED BY <1>1, <1>4, <1>5, <1>6, <1>10, <1>13, <2>3, <2>4, <2>5, <2>6, Zenon DEF h, TohostKept
<1>14. CASE Here.do = "read lo"
  <2>1. dut' = [Onward EXCEPT !.lo = tm.total % WordMod] BY <1>7, <1>14 DEF ReadsCycle
  <2> DEFINE h == tm.total % WordMod
  <2>2. h \in Nat /\ dut' = [Onward EXCEPT !.lo = h] BY <1>8, <2>1
  <2> HIDE DEF h
  <2>3. /\ dut' \in Duts /\ dut'.pc = Onward.pc /\ dut'.mie = Onward.mie /\ dut'.lo = h
        /\ dut'.hi = Onward.hi /\ dut'.value = Onward.value
    BY ONLY <1>9, <2>2 DEF Duts
  <2>4. DutOK' /\ Ahead /\ dut'.value = dut.value /\ dut'.hi = dut.hi
    BY <1>1, <1>3, <1>9, <1>11, <2>3, Zenon DEF DutOK, Ahead
  <2>5. FwStep BY <1>3, <1>6, <1>10, <2>4, Zenon DEF FwStep, TypeInv
  <2>6. "read hi2" # "read lo" /\ "read hi" # "read lo" OBVIOUS
  <2>7. QED BY <1>1, <1>4, <1>5, <1>6, <1>10, <1>14, <2>3, <2>4, <2>5, <2>6, Zenon DEF h, TohostKept
<1>15. QED BY <1>1, <1>12, <1>13, <1>14, Zenon DEF Reads

\* while (hi != hi2): again, or the value is returned.
LEMMA ComparesHighStep ==
  ASSUME TypeInv, ComparesHigh
  PROVE  /\ FwStep /\ Here.do = "again" /\ RegsKept /\ MarksKept /\ TableKept /\ BpKept /\ TohostKept
         /\ \/ dut'.pc = dut.pc - 3 /\ dut'.value = dut.value
            \/ Ahead /\ dut.hi = dut.hi2 /\ dut'.value = dut.hi * WordMod + dut.lo
<1>1. host.left > 0 /\ Here.do = "again" /\ Here.do # "spin" /\ mem' = mem
  BY Zenon DEF ComparesHigh, Runs
<1>2. Here.insn \in Instructions /\ dut.pc \in 1 .. Len(F) /\ Here = F[dut.pc] /\ Piece(F, Deeds)
  BY HereFacts, Zenon DEF Runnable
<1>3. [Here.insn EXCEPT !.taken = 1] \in Instructions
  <2>1. ASSUME NEW i \in Instructions PROVE [i EXCEPT !.taken = 1] \in Instructions
    BY ONLY <2>1 DEF Instructions
  <2>2. QED BY <1>2, <2>1
<1>4. \E insn \in Instructions : Commits(insn) BY <1>2, <1>3, Zenon DEF ComparesHigh
<1>5. scen' = scen /\ HostRuns /\ HostOK' /\ TmOK(tm)' BY <1>1, <1>4, CommitStep, Zenon
<1>6. /\ MemOK' /\ mem'.cycle = mem.cycle /\ mem'.cyc0 = mem.cyc0 /\ TableKept /\ BpKept
      /\ mem'.tohost = mem.tohost
  BY <1>1, MemStep
<1>7. /\ TruthOK' /\ truth'.at = truth.at /\ truth'.start = truth.start /\ truth'.mark = truth.mark
      /\ truth'.exit = truth.exit
  <2>1. truth' = truth \/ truth' = [truth EXCEPT !.again = 1] BY DEF ComparesHigh
  <2>2. TruthOK BY DEF TypeInv
  <2>3. QED BY ONLY <2>1, <2>2 DEF TruthOK
<1>8. dut \in Duts /\ (dut.mie = 1 => scen.fw = "irq") BY DEF TypeInv, DutOK
<1>9. F' = F BY <1>5 DEF F
<1>10. CASE dut.hi # dut.hi2
  <2> DEFINE n == dut.pc - 3
  <2>1. n \in 1 .. Len(F)
    <3>1. F[dut.pc].do = "again" BY <1>1, <1>2
    <3>2. Reread(F, dut.pc) BY <1>2, <3>1, BackPlace, Zenon
    <3>3. QED BY <3>2, Zenon DEF Reread
  <2>2. dut' = [dut EXCEPT !.pc = n] BY <1>10 DEF ComparesHigh
  <2>3. n \in Nat
    <3>1. Len(F) \in Nat BY HereFacts
    <3>2. QED BY <2>1, <3>1
  <2> HIDE DEF n
  <2>4. /\ dut' \in Duts /\ dut'.pc = n /\ dut'.mie = dut.mie /\ dut'.hi = dut.hi /\ dut'.hi2 = dut.hi2
        /\ dut'.lo = dut.lo /\ dut'.value = dut.value
    BY ONLY <1>8, <2>2, <2>3 DEF Duts
  <2>5. DutOK' /\ RegsKept BY <1>5, <1>8, <1>9, <2>1, <2>4, Zenon DEF DutOK, RegsKept, HighsKept
  <2>6. FwStep BY <1>5, <1>6, <1>7, <2>5, Zenon DEF FwStep, TypeInv
  <2>7. QED BY <1>1, <1>6, <1>7, <2>4, <2>5, <2>6, Zenon DEF MarksKept, TohostKept, n
<1>11. CASE dut.hi = dut.hi2
  <2> DEFINE v == dut.hi * WordMod + dut.lo
  <2>1. v \in Nat
    <3>1. dut.hi \in Nat /\ dut.lo \in Nat BY <1>8 DEF Duts
    <3>2. WordMod \in Nat BY GapIsShort
    <3>3. QED BY ONLY <3>1, <3>2
  <2>2. dut' = [Onward EXCEPT !.value = v] BY <1>11 DEF ComparesHigh
  <2>3. /\ dut.pc + 1 \in 1 .. Len(F)
        /\ Onward \in Duts /\ Onward.pc = dut.pc + 1 /\ Onward.mie = dut.mie /\ Onward.hi = dut.hi
        /\ Onward.hi2 = dut.hi2 /\ Onward.lo = dut.lo
    BY <1>1, <1>5, OnwardStep
  <2> HIDE DEF v
  <2>4. /\ dut' \in Duts /\ dut'.pc = Onward.pc /\ dut'.mie = Onward.mie /\ dut'.hi = Onward.hi
        /\ dut'.hi2 = Onward.hi2 /\ dut'.lo = Onward.lo /\ dut'.value = v
    BY ONLY <2>1, <2>2, <2>3 DEF Duts
  <2>5. DutOK' /\ RegsKept /\ Ahead
    BY <1>1, <1>5, <1>8, <1>9, <2>3, <2>4, Zenon DEF DutOK, RegsKept, HighsKept, Ahead
  <2>6. FwStep BY <1>5, <1>6, <1>7, <2>5, Zenon DEF FwStep, TypeInv
  <2>7. QED BY <1>1, <1>6, <1>7, <1>11, <2>4, <2>5, <2>6, Zenon DEF MarksKept, TohostKept, v
<1>12. QED BY <1>10, <1>11

\* A step of the driver leaves the firmware and its memory alone.
HostStep ==
  /\ scen' = scen /\ tm' = tm /\ mem' = mem /\ truth' = truth /\ dut'.pc = dut.pc /\ RegsKept
  /\ dut'.value = dut.value /\ TypeInv'

\* A step of the driver, which may raise the interrupt (trigger_irq).
LEMMA HostFrom ==
  ASSUME TypeInv, HostOnly, dut' = dut \/ dut' = [dut EXCEPT !.mip = 1], host' \in Hosts
  PROVE  HostStep
<1>1. scen' = scen /\ tm' = tm /\ mem' = mem /\ truth' = truth BY DEF HostOnly
<1>2. F' = F BY <1>1 DEF F
<1>3. dut \in Duts /\ dut.pc \in 1 .. Len(F) /\ (dut.mie = 1 => scen.fw = "irq") BY DEF TypeInv, DutOK
<1>4. /\ dut' \in Duts /\ dut'.pc = dut.pc /\ dut'.mie = dut.mie /\ dut'.hi = dut.hi /\ dut'.hi2 = dut.hi2
      /\ dut'.lo = dut.lo /\ dut'.value = dut.value
  BY ONLY <1>3, dut' = dut \/ dut' = [dut EXCEPT !.mip = 1] DEF Duts
<1>5. DutOK' /\ RegsKept BY <1>1, <1>2, <1>3, <1>4, Zenon DEF DutOK, RegsKept, HighsKept
<1>6. MemOK' BY <1>1 DEF TypeInv, MemOK
<1>7. TruthOK' /\ TmOK(tm)' /\ scen' \in Scenarios BY <1>1 DEF TypeInv, TruthOK, TmOK
<1>8. QED BY <1>1, <1>4, <1>5, <1>6, <1>7, Zenon DEF HostStep, TypeInv, HostOK

\* What a step of the driver does to the verdict: it is given when the driver
\* ends, and "read" is reached only when the firmware has told it to.
HostMoves ==
  /\ HostStep
  /\ host'.exit # -1 => host'.pc = "exited"
  /\ host'.pc \in {"exited", "read"} => host'.left = 0
  /\ host'.pc = "read" => mem.bp = "end"
  /\ scen.driver = "verif_spike_run" => host'.pc \notin {"wait begin", "wait end"}
  /\ scen.driver = "verif_spike_run" /\ host'.exit = 0 => truth.exit = 0
RunKept == host'.run = host.run /\ host'.rows = host.rows

\* tohost is 1 when main ends with PASS: its high word is never written.
LEMMA ExitCodeZero ==
  ASSUME TypeInv, Tohost # 0, exit_code = 0
  PROVE  mem.tohost.lo = 1
<1>1. mem.tohost.lo \in Nat /\ mem.tohost.hi = 0 BY DEF TypeInv, MemOK, Mems
<1>2. WordMod \in Nat BY GapIsShort
<1>3. Tohost = mem.tohost.lo BY <1>1, <1>2 DEF Tohost
<1> DEFINE t == mem.tohost.lo
<1>4. t \in Nat /\ t # 0 /\ t \div 2 = 0 BY <1>1, <1>3 DEF exit_code
<1>5. t = 1 BY ONLY <1>4
<1>6. QED BY <1>5

\* The driver's main loop and its sequences.
LEMMA HostSteps ==
  ASSUME TypeInv, PassInv, host.pc = "read" => mem.bp = "end",
         MainLoop \/ Idle \/ ca_wait_bp \/ Guard \/ WaitsBegin \/ TriggersIrq \/ WaitsEnd \/ Judges
  PROVE  HostMoves /\ RunKept
<1>1. host \in Hosts BY DEF TypeInv, HostOK
<1>2. /\ scen.chunk \in Nat /\ GuardMax \in Nat /\ MaxPolls \in Nat
  <2>1. scen \in Scenarios BY DEF TypeInv
  <2>2. QED BY <2>1, SpikeAssumption, Zenon DEF SpikeAssumption
<1>3. /\ host.exit # -1 => host.pc = "exited"
      /\ scen.driver = "verif_spike_run" => host.pc \notin {"wait begin", "wait end"}
      /\ (mem.tohost.lo = 1 => truth.exit = 0)
  BY Zenon DEF PassInv
<1>4. "exited" \in Places /\ "idle" \in Places /\ "guard" \in Places /\ "ca_wait_bp" \in Places
      /\ "read" \in Places /\ "loop" \in Places /\ "wait end" \in Places
  BY DEF Places
<1>5. ASSUME HostOnly, dut' = dut \/ dut' = [dut EXCEPT !.mip = 1], host' \in Hosts, RunKept,
             host'.pc # "exited", host'.exit = host.exit, host.pc # "exited",
             host'.pc = "read" => host'.left = 0 /\ mem.bp = "end",
             scen.driver = "verif_spike_run" => host'.pc \notin {"wait begin", "wait end"}
      PROVE  HostMoves /\ RunKept
  <2>1. HostStep BY <1>5, HostFrom
  <2>2. host.exit = -1 /\ "read" # "exited" BY <1>3, <1>5
  <2>3. -1 # 0 OBVIOUS
  <2>4. QED BY <1>5, <2>1, <2>2, <2>3, Zenon DEF HostMoves
<1>6. ASSUME HostOnly, dut' = dut, host' \in Hosts, RunKept, host'.pc = "exited", host'.left = 0,
             scen.driver = "verif_spike_run" /\ host'.exit = 0 => truth.exit = 0
      PROVE  HostMoves /\ RunKept
  <2>1. HostStep BY <1>6, HostFrom
  <2>2. "read" # "exited" /\ "wait begin" # "exited" /\ "wait end" # "exited" OBVIOUS
  <2>3. QED BY <1>6, <2>1, <2>2, Zenon DEF HostMoves
<1>7. CASE MainLoop
  <2>1. HostOnly /\ dut' = dut /\ host.pc = "loop" /\ host.left = 0 BY <1>7 DEF MainLoop, At
  <2>2. CASE Tohost # 0
    <3> DEFINE e == IF exit_code = 0 THEN 0 ELSE 1
    <3>1. host' = [host EXCEPT !.pc = "exited", !.exit = e] BY <1>7, <2>2 DEF MainLoop
    <3>2. e \in {-1, 0, 1, 3} OBVIOUS
    <3>3. e = 0 => truth.exit = 0
      <4>1. e = 0 => exit_code = 0 OBVIOUS
      <4>2. QED BY <1>3, <2>2, <4>1, ExitCodeZero, Zenon
    <3> HIDE DEF e
    <3>4. host' \in Hosts /\ RunKept /\ host'.pc = "exited" /\ host'.left = host.left /\ host'.exit = e
      BY ONLY <1>1, <1>4, <3>1, <3>2 DEF Hosts, RunKept
    <3>5. QED BY <1>6, <2>1, <3>3, <3>4, Zenon
  <2>3. CASE Tohost = 0
    <3>1. host' = [host EXCEPT !.left = scen.chunk, !.pc = "idle"] BY <1>7, <2>3 DEF MainLoop, Ticks
    <3>2. host' \in Hosts /\ RunKept /\ host'.pc = "idle" /\ host'.exit = host.exit
      BY ONLY <1>1, <1>2, <1>4, <3>1 DEF Hosts, RunKept
    <3>3. host'.pc \notin {"exited", "read", "wait begin", "wait end"} /\ host.pc # "exited" BY <2>1, <3>2
    <3>4. QED BY <1>5, <2>1, <3>2, <3>3, Zenon
  <2>4. QED BY <2>2, <2>3
<1>8. CASE Idle
  <2>1. HostOnly /\ dut' = dut /\ host.pc = "idle" /\ host.left = 0 BY <1>8 DEF Idle, At
  <2>2. \/ host' = [host EXCEPT !.ran = 1, !.pc = "guard"]
        \/ host' = [host EXCEPT !.ran = 1, !.pc = "ca_wait_bp"]
        \/ host' = [host EXCEPT !.ran = 1, !.pc = "guard", !.said = "FAIL"]
    BY <1>8 DEF Idle
  <2>3. host' \in Hosts /\ RunKept /\ host'.pc \in {"guard", "ca_wait_bp"} /\ host'.exit = host.exit
    BY ONLY <1>1, <1>4, <2>2 DEF Hosts, RunKept
  <2>4. host'.pc \notin {"exited", "read", "wait begin", "wait end"} /\ host.pc # "exited" BY <2>1, <2>3
  <2>5. QED BY <1>5, <2>1, <2>3, <2>4, Zenon
<1>9. CASE ca_wait_bp
  <2>1. HostOnly /\ dut' = dut /\ host.pc = "ca_wait_bp" /\ host.left = 0 BY <1>9 DEF ca_wait_bp, At
  <2>2. \/ host' = [host EXCEPT !.pc = "guard", !.said = "FAIL"]
        \/ mem.bp = "end" /\ host' = [host EXCEPT !.pc = "read"]
        \/ host.polls # MaxPolls /\ host' = [host EXCEPT !.left = 1, !.polls = @ + 1]
    BY <1>9 DEF ca_wait_bp
  <2>3. /\ host' \in Hosts /\ RunKept /\ host'.pc \in {"guard", "ca_wait_bp", "read"} /\ host'.exit = host.exit
        /\ (host'.pc = "read" => host'.left = 0 /\ mem.bp = "end")
    <3>1. CASE host' = [host EXCEPT !.pc = "guard", !.said = "FAIL"]
      BY ONLY <1>1, <1>4, <3>1 DEF Hosts, RunKept
    <3>2. CASE mem.bp = "end" /\ host' = [host EXCEPT !.pc = "read"]
      BY ONLY <1>1, <1>4, <2>1, <3>2 DEF Hosts, RunKept
    <3>3. CASE host.polls # MaxPolls /\ host' = [host EXCEPT !.left = 1, !.polls = @ + 1]
      <4> DEFINE n == host.polls + 1
      <4>1. host.polls \in 0 .. MaxPolls /\ host.polls # MaxPolls BY <1>1, <3>3 DEF Hosts
      <4>2. n \in 0 .. MaxPolls BY ONLY <1>2, <4>1
      <4>3. host' = [host EXCEPT !.left = 1, !.polls = n] BY <3>3
      <4> HIDE DEF n
      <4>4. host' \in Hosts /\ RunKept /\ host'.pc = host.pc /\ host'.exit = host.exit
        BY ONLY <1>1, <4>2, <4>3 DEF Hosts, RunKept
      <4>5. host.pc \in {"ca_wait_bp"} /\ host.pc # "read" BY <2>1
      <4>6. QED BY <4>4, <4>5, Zenon
    <3>4. QED BY <2>2, <3>1, <3>2, <3>3
  <2>4. host'.pc \notin {"exited", "wait begin", "wait end"} /\ host.pc # "exited" BY <2>1, <2>3
  <2>5. QED BY <1>5, <2>1, <2>3, <2>4, Zenon
<1>10. CASE Guard
  <2>1. HostOnly /\ dut' = dut /\ host.pc = "guard" /\ host.left = 0 BY <1>10 DEF Guard, At
  <2>2. CASE host.guard = GuardMax
    <3>1. host' = [host EXCEPT !.pc = "exited", !.exit = 3] BY <1>10, <2>2 DEF Guard
    <3>2. host' \in Hosts /\ RunKept /\ host'.pc = "exited" /\ host'.left = host.left /\ host'.exit = 3
      BY ONLY <1>1, <1>4, <3>1 DEF Hosts, RunKept
    <3>3. host'.exit # 0 BY <3>2
    <3>4. QED BY <1>6, <2>1, <3>2, <3>3, Zenon
  <2>3. CASE host.guard # GuardMax
    <3>1. host' = [host EXCEPT !.pc = "loop", !.guard = @ + 1] BY <1>10, <2>3 DEF Guard
    <3> DEFINE n == host.guard + 1
    <3>2. host.guard \in 0 .. GuardMax /\ host.guard # GuardMax BY <1>1, <2>3 DEF Hosts
    <3>3. n \in 0 .. GuardMax BY ONLY <1>2, <3>2
    <3>4. host' = [host EXCEPT !.pc = "loop", !.guard = n] BY <3>1
    <3> HIDE DEF n
    <3>5. host' \in Hosts /\ RunKept /\ host'.pc = "loop" /\ host'.exit = host.exit
      BY ONLY <1>1, <1>4, <3>3, <3>4 DEF Hosts, RunKept
    <3>6. host'.pc \notin {"exited", "read", "wait begin", "wait end"} /\ host.pc # "exited" BY <2>1, <3>5
    <3>7. QED BY <1>5, <2>1, <3>5, <3>6, Zenon
  <2>4. QED BY <2>2, <2>3
<1>11. CASE WaitsBegin \/ WaitsEnd
  <2>1. /\ HostOnly /\ dut' = dut /\ host.pc \in {"wait begin", "wait end"} /\ host.left = 0
        /\ \/ host' = [host EXCEPT !.left = 1]
           \/ host' = [host EXCEPT !.pc = "exited", !.exit = 1]
    BY <1>11 DEF WaitsBegin, WaitsEnd, host_wait_bp, At
  <2>2. CASE host' = [host EXCEPT !.left = 1]
    <3>1. host' \in Hosts /\ RunKept /\ host'.pc = host.pc /\ host'.exit = host.exit
      BY ONLY <1>1, <2>2 DEF Hosts, RunKept
    <3>2. host'.pc # "exited" /\ host'.pc # "read" /\ host.pc # "exited" BY <2>1, <3>1
    <3>3. QED BY <1>3, <1>5, <2>1, <3>1, <3>2, Zenon
  <2>3. CASE host' = [host EXCEPT !.pc = "exited", !.exit = 1]
    <3>1. host' \in Hosts /\ RunKept /\ host'.pc = "exited" /\ host'.left = host.left /\ host'.exit = 1
      BY ONLY <1>1, <1>4, <2>3 DEF Hosts, RunKept
    <3>2. host'.exit # 0 BY <3>1
    <3>3. QED BY <1>6, <2>1, <3>1, <3>2, Zenon
  <2>4. QED BY <2>1, <2>2, <2>3
<1>12. CASE TriggersIrq
  <2>1. /\ HostOnly /\ dut' = [dut EXCEPT !.mip = 1] /\ host.pc = "wait begin"
        /\ host' = [host EXCEPT !.pc = "wait end", !.start = tm.total]
    BY <1>12 DEF TriggersIrq, At
  <2>2. tm.total \in Cycles BY DEF TypeInv, TmOK, Cycles
  <2>3. host' \in Hosts /\ RunKept /\ host'.pc = "wait end" /\ host'.exit = host.exit
    BY ONLY <1>1, <1>4, <2>1, <2>2 DEF Hosts, RunKept
  <2>4. host'.pc # "exited" /\ host'.pc # "read" /\ host.pc # "exited" BY <2>1, <2>3
  <2>5. scen.driver # "verif_spike_run" BY <1>3, <2>1
  <2>6. QED BY <1>5, <2>1, <2>3, <2>4, <2>5, Zenon
<1>13. CASE Judges
  <2> DEFINE d == (tm.total - host.start) % CycleMod
             e == IF ca_pass(d) THEN 0 ELSE 1
  <2>1. /\ HostOnly /\ dut' = dut /\ host.pc = "wait end" /\ host.left = 0
        /\ host' = [host EXCEPT !.pc = "exited", !.measured = d, !.exit = e]
    BY <1>13, Zenon DEF Judges, At
  <2>2. d \in Int
    <3>1. tm.total \in Int /\ host.start \in Int /\ CycleMod \in Nat /\ CycleMod > 0
      BY <1>1, GapIsShort DEF TypeInv, TmOK, Hosts, Cycles
    <3>2. tm.total - host.start \in Int BY <3>1
    <3>3. ASSUME NEW a \in Int PROVE a % CycleMod \in Int BY ONLY <3>1, <3>3
    <3>4. QED BY <3>2, <3>3
  <2>3. e \in {-1, 0, 1, 3} OBVIOUS
  <2> HIDE DEF d, e
  <2>4. host' \in Hosts /\ RunKept /\ host'.pc = "exited" /\ host'.left = host.left
    BY ONLY <1>1, <1>4, <2>1, <2>2, <2>3 DEF Hosts, RunKept
  <2>5. scen.driver # "verif_spike_run" BY <1>3, <2>1
  <2>6. QED BY <1>6, <2>1, <2>4, <2>5, Zenon
<1>14. QED BY <1>7, <1>8, <1>9, <1>10, <1>11, <1>12, <1>13

-----------------------------------------------------------------------------
(* The invariant is kept *)

\* CA_measure has its places.
LEMMA Planned ==
  ASSUME TypeInv, scen.fw = "ca"
  PROVE  /\ CaShape(F, Plan) /\ Plan.a \in Nat /\ Plan.b \in Nat /\ Plan.c \in Nat /\ Plan.mark \in Nat /\ Plan.end \in Nat
         /\ Plan.a > 1 /\ Plan.b > 1 /\ Plan.c > 1 /\ Plan.a < Plan.b /\ Plan.b < Plan.c
         /\ Plan.c < Plan.mark /\ Plan.mark < Plan.end
         /\ F[Plan.mark].do = "mark lo" /\ F[Plan.end].val = "end" /\ F[Plan.end].do = "bp"
<1>1. \E m \in [a : Nat, b : Nat, c : Nat, mark : Nat, end : Nat] : CaShape(F, m)
  BY Loaded, Zenon DEF FirmwareShape
<1>2. Plan \in [a : Nat, b : Nat, c : Nat, mark : Nat, end : Nat] /\ CaShape(F, Plan)
  BY <1>1, Zenon DEF Plan, PlanOf
<1>3. Plan.a \in Nat /\ Plan.b \in Nat /\ Plan.c \in Nat /\ Plan.mark \in Nat /\ Plan.end \in Nat
  BY <1>2
<1>4. /\ Plan.a \in 2 .. Len(F) /\ Plan.b \in 2 .. Len(F) /\ Plan.c \in 2 .. Len(F) /\ Plan.end \in 2 .. Len(F)
      /\ Plan.a < Plan.b /\ Plan.b < Plan.c /\ Plan.c < Plan.mark /\ Plan.mark < Plan.end
      /\ F[Plan.mark].do = "mark lo" /\ F[Plan.end].val = "end"
  BY <1>2, Zenon DEF CaShape
<1>5. Len(F) \in Nat BY HereFacts
<1>6. Plan.a > 1 /\ Plan.b > 1 /\ Plan.c > 1 /\ Plan.end \in 1 .. Len(F)
  <2>1. \A n \in Nat : \A i \in 2 .. n : i > 1 /\ i \in 1 .. n BY ONLY TRUE
  <2>2. QED BY <1>4, <1>5, <2>1, Zenon
<1>7. F[Plan.end].do = "bp" BY <1>2, <1>6, Zenon DEF CaShape
<1>8. QED BY <1>2, <1>3, <1>4, <1>6, <1>7

\* What CA_measure does where.
LEMMA PlannedHere ==
  ASSUME TypeInv, scen.fw = "ca"
  PROVE  /\ Here.do = "record" <=> dut.pc \in {Plan.a, Plan.b, Plan.c}
         /\ Here.do = "table" <=> dut.pc = 1
         /\ Here.do = "bp" <=> dut.pc = Plan.end
         /\ dut.pc > Plan.mark /\ dut.pc < Plan.end => Here.do = "none"
         /\ dut.pc > Plan.end => Here.do \in {"tohost lo", "tohost hi", "spin"}
         /\ dut.pc = Plan.mark => Here.do = "mark lo"
         /\ dut.pc = Plan.end => Here.val = "end"
<1>1. CaShape(F, Plan) /\ F[Plan.mark].do = "mark lo" /\ F[Plan.end].val = "end" BY Planned
<1>2. Here = F[dut.pc] /\ dut.pc \in 1 .. Len(F) BY HereFacts
<1>3. QED BY <1>1, <1>2, Zenon DEF CaShape

\* How many of three ordered places are behind the hart.
LEMMA Counting ==
  ASSUME NEW m, m.a \in Nat, m.b \in Nat, m.c \in Nat, m.a < m.b, m.b < m.c, NEW i \in Nat
  PROVE  /\ i \in {m.a, m.b, m.c} => Recorded(m, i + 1) = Recorded(m, i) + 1
         /\ i \notin {m.a, m.b, m.c} => Recorded(m, i + 1) = Recorded(m, i)
         /\ m.c < i => Recorded(m, i) = 3
         /\ i <= m.a => Recorded(m, i) = 0
  BY DEF Recorded

\* Where the hart is after a step of the firmware, and what it did there.
Kept == mem'.bp = mem.bp /\ mem'.table = mem.table /\ truth'.start = truth.start /\ truth'.mark = truth.mark
GoesAhead ==
  /\ Ahead
  /\ mem'.bp = IF Here.do = "bp" THEN Here.val ELSE mem.bp
  /\ Here.do = "mark lo" => truth'.mark >= 0
  /\ Here.do \notin {"mark lo", "mark hi"} => truth'.mark = truth.mark
  /\ Here.do \notin {"mark lo", "mark hi", "start"} => truth'.start = truth.start
  /\ Here.do = "table" => Len(mem'.table) = 0
  /\ Here.do = "record" => Len(mem'.table) = Len(mem.table) + 1
  /\ Here.do \notin {"table", "record"} => mem'.table = mem.table
StaysThere == dut'.pc = dut.pc /\ Kept
GoesBack == dut'.pc = dut.pc - 3 /\ Here.do = "again" /\ Kept
Paced == (mem'.magic = 1 => scen.fw = "ca") /\ (GoesAhead \/ StaysThere \/ GoesBack \/ scen.fw = "irq")

\* The firmware keeps table, mirror and breakpoint in step with its place.
LEMMA CaKept ==
  ASSUME TypeInv, PassInv, CaInv, HostSeesTheRun, FwStep, Paced
  PROVE  CaInv' /\ HostSeesTheRun'
<1>1. scen' = scen /\ HostRuns BY DEF FwStep
<1>2. F' = F BY <1>1 DEF F
<1>3. Plan' = Plan BY <1>2 DEF Plan
<1>4. host'.pc # "read"
  <2>1. host.left \in Nat /\ host.left > 0 /\ host'.pc = host.pc BY <1>1 DEF TypeInv, HostOK, Hosts, HostRuns
  <2>2. host.pc = "read" => host.left = 0 BY DEF PassInv
  <2>3. QED BY <2>1, <2>2
<1>5. host'.run = host.run /\ host'.rows = host.rows BY <1>1 DEF HostRuns
<1>6. mem'.magic = 1 => scen'.fw = "ca" BY <1>1 DEF Paced
<1>7. CASE scen.fw # "ca"
  <2>1. ~(host.run >= 0) BY <1>7 DEF CaInv
  <2>2. CaInv' BY <1>1, <1>4, <1>5, <1>6, <1>7, <2>1, Zenon DEF CaInv
  <2>3. QED BY <1>5, <2>1, <2>2, Zenon DEF HostSeesTheRun
<1>8. CASE scen.fw = "ca"
  <2> DEFINE m == Plan
             now == dut.pc
  <2>1. /\ m.a \in Nat /\ m.b \in Nat /\ m.c \in Nat /\ m.mark \in Nat /\ m.end \in Nat
        /\ m.a > 1 /\ m.b > 1 /\ m.c > 1 /\ m.a < m.b /\ m.b < m.c /\ m.c < m.mark /\ m.mark < m.end
    BY <1>8, Planned
  <2>2. /\ Here.do = "record" <=> now \in {m.a, m.b, m.c}
        /\ Here.do = "table" <=> now = 1
        /\ Here.do = "bp" <=> now = m.end
        /\ now > m.mark /\ now < m.end => Here.do = "none"
        /\ now > m.end => Here.do \in {"tohost lo", "tohost hi", "spin"}
        /\ now = m.mark => Here.do = "mark lo"
        /\ now = m.end => Here.val = "end"
    BY <1>8, PlannedHere
  <2>3. now \in Nat /\ now >= 1 BY DEF TypeInv, DutOK, Duts
  <2>4. /\ mem.bp = IF m.end < now THEN "end" ELSE "none"
        /\ m.mark < now => truth.mark >= 0
        /\ 1 < now => Len(mem.table) = Recorded(m, now)
        /\ host.run >= 0 => m.end < now
    BY <1>8, Zenon DEF CaInv
  <2>5. GoesAhead \/ StaysThere \/ GoesBack BY <1>8 DEF Paced
  <2>6. SUFFICES /\ mem'.bp = IF m.end < dut'.pc THEN "end" ELSE "none"
                 /\ m.mark < dut'.pc => truth'.mark >= 0
                 /\ 1 < dut'.pc => Len(mem'.table) = Recorded(m, dut'.pc)
                 /\ host'.run >= 0 => m.end < dut'.pc /\ truth'.start = truth.start /\ truth'.mark = truth.mark
    <3>1. /\ mem'.bp = IF m'.end < dut'.pc THEN "end" ELSE "none"
          /\ m'.mark < dut'.pc => truth'.mark >= 0
          /\ 1 < dut'.pc => Len(mem'.table) = Recorded(m', dut'.pc)
          /\ host'.run >= 0 => m'.end < dut'.pc
      BY <1>3, <2>6
    <3>2. CaInv' BY <1>1, <1>4, <1>6, <1>8, <3>1, Zenon DEF CaInv, Recorded
    <3>3. HostSeesTheRun' BY <1>5, <2>6, Zenon DEF HostSeesTheRun
    <3>4. QED BY <3>2, <3>3
  <2> HIDE DEF m, now
  <2>7. CASE GoesAhead
    <3>1. /\ dut'.pc = now + 1 /\ Here.do # "spin"
          /\ mem'.bp = IF Here.do = "bp" THEN Here.val ELSE mem.bp
          /\ Here.do = "mark lo" => truth'.mark >= 0
          /\ Here.do \notin {"mark lo", "mark hi"} => truth'.mark = truth.mark
          /\ Here.do \notin {"mark lo", "mark hi", "start"} => truth'.start = truth.start
          /\ Here.do = "table" => Len(mem'.table) = 0
          /\ Here.do = "record" => Len(mem'.table) = Len(mem.table) + 1
          /\ Here.do \notin {"table", "record"} => mem'.table = mem.table
      BY <2>7 DEF GoesAhead, Ahead, now
    <3>2. mem'.bp = IF m.end < now + 1 THEN "end" ELSE "none"
      <4>1. m.end < now + 1 <=> m.end < now \/ now = m.end BY <2>1, <2>3
      <4>2. now = m.end => ~(m.end < now) BY <2>1, <2>3
      <4>3. QED BY <2>2, <2>4, <3>1, <4>1, <4>2
    <3>3. m.mark < now => Here.do \in {"none", "bp", "tohost lo", "tohost hi"}
      <4>1. m.mark < now => (now > m.mark /\ now < m.end) \/ now = m.end \/ now > m.end BY <2>1, <2>3
      <4>2. QED BY <2>2, <3>1, <4>1
    <3>4. m.mark < now + 1 => truth'.mark >= 0
      <4>1. m.mark < now + 1 => m.mark < now \/ now = m.mark BY <2>1, <2>3
      <4>2. QED BY <2>2, <2>4, <3>1, <3>3, <4>1
    <3>5. Len(mem'.table) = Recorded(m, now + 1)
      <4>1. /\ now \in {m.a, m.b, m.c} => Recorded(m, now + 1) = Recorded(m, now) + 1
            /\ now \notin {m.a, m.b, m.c} => Recorded(m, now + 1) = Recorded(m, now)
            /\ now <= m.a => Recorded(m, now) = 0
        BY <2>1, <2>3, Counting
      <4>2. CASE now = 1
        <5>1. now <= m.a /\ now \notin {m.a, m.b, m.c} BY <2>1, <4>2
        <5>2. Len(mem'.table) = 0 BY <2>2, <3>1, <4>2
        <5>3. QED BY <4>1, <5>1, <5>2, Zenon
      <4>3. CASE now # 1
        <5>1. Len(mem.table) = Recorded(m, now) BY <2>3, <2>4, <4>3
        <5>2. Here.do # "table" BY <2>2, <4>3
        <5>3. QED BY <2>2, <3>1, <4>1, <5>1, <5>2, Zenon
      <4>4. QED BY <4>2, <4>3
    <3>6. host'.run >= 0 => m.end < now + 1 /\ truth'.start = truth.start /\ truth'.mark = truth.mark
      <4>1. host'.run >= 0 => m.end < now BY <1>5, <2>4
      <4>2. m.end < now => m.end < now + 1 /\ m.mark < now BY <2>1, <2>3
      <4>3. QED BY <3>1, <3>3, <4>1, <4>2
    <3>7. QED BY <3>1, <3>2, <3>4, <3>5, <3>6, Zenon
  <2>8. CASE StaysThere
    <3>1. /\ dut'.pc = now /\ mem'.bp = mem.bp /\ mem'.table = mem.table /\ truth'.start = truth.start
          /\ truth'.mark = truth.mark
      BY <2>8 DEF StaysThere, Kept, now
    <3>2. QED BY <1>5, <2>4, <3>1, Zenon
  <2>9. CASE GoesBack
    <3>1. /\ dut'.pc = now - 3 /\ Here.do = "again" /\ mem'.bp = mem.bp /\ mem'.table = mem.table
          /\ truth'.start = truth.start /\ truth'.mark = truth.mark
      BY <2>9 DEF GoesBack, Kept, now
    <3>2. ~(m.end < now) /\ ~(m.end < now - 3)
      <4>1. ~(m.end < now) BY <2>1, <2>2, <2>3, <3>1
      <4>2. QED BY <2>1, <2>3, <4>1
    <3>3. m.mark < now - 3 => m.mark < now BY <2>1, <2>3
    <3>4. Recorded(m, now - 3) = Recorded(m, now) /\ (1 < now - 3 => 1 < now)
      <4>1. /\ now - 3 \in 1 .. Len(F) /\ now - 2 \in 1 .. Len(F) /\ now - 1 \in 1 .. Len(F)
            /\ F[now - 3].do = "read hi" /\ F[now - 2].do = "read lo" /\ F[now - 1].do = "read hi2"
        <5>1. Piece(F, Deeds) /\ Here = F[now] /\ now \in 1 .. Len(F) BY HereFacts, Zenon DEF Runnable, now
        <5>2. F[now].do = "again" BY <3>1, <5>1
        <5>3. ASSUME NEW i \in 1 .. Len(F), F[i].do = "again"
              PROVE  /\ i - 3 \in 1 .. Len(F) /\ i - 2 \in 1 .. Len(F) /\ i - 1 \in 1 .. Len(F)
                     /\ F[i - 3].do = "read hi" /\ F[i - 2].do = "read lo" /\ F[i - 1].do = "read hi2"
          <6>1. Piece(F, Deeds) /\ F[i].do = "again" BY <5>1, <5>3
          <6>2. Reread(F, i) BY <6>1, BackPlace, Zenon
          <6>3. QED BY <6>2, Zenon DEF Reread
        <5>4. QED BY <5>1, <5>2, <5>3, Zenon
      <4>2. \A i \in 1 .. Len(F) : F[i].do = "record" <=> i \in {m.a, m.b, m.c}
        BY <1>8, Planned, Zenon DEF CaShape, m
      <4>3. now - 3 \notin {m.a, m.b, m.c} /\ now - 2 \notin {m.a, m.b, m.c} /\ now - 1 \notin {m.a, m.b, m.c}
        <5>1. "record" # "read hi" /\ "record" # "read lo" /\ "record" # "read hi2" OBVIOUS
        <5>2. QED BY <4>1, <4>2, <5>1, Zenon
      <4>4. now - 3 \in Nat /\ now - 2 \in Nat /\ now - 1 \in Nat
        <5>1. \A x, n : x \in 1 .. n => x \in Nat OBVIOUS
        <5>2. QED BY <4>1, <5>1, Zenon
      <4>5. /\ Recorded(m, (now - 3) + 1) = Recorded(m, now - 3)
            /\ Recorded(m, (now - 2) + 1) = Recorded(m, now - 2)
            /\ Recorded(m, (now - 1) + 1) = Recorded(m, now - 1)
        BY <2>1, <4>3, <4>4, Counting
      <4>6. (now - 3) + 1 = now - 2 /\ (now - 2) + 1 = now - 1 /\ (now - 1) + 1 = now /\ (1 < now - 3 => 1 < now) BY <2>3
      <4>7. QED BY <4>5, <4>6
    <3>5. QED BY <1>5, <2>4, <3>1, <3>2, <3>3, <3>4, Zenon
  <2>10. QED BY <2>5, <2>7, <2>8, <2>9
<1>9. QED BY <1>7, <1>8

\* After an instruction that goes on to the next one: what that one may use.
LEMMA AheadPlace ==
  ASSUME TypeInv, FwStep, Ahead
  PROVE  /\ \A do : Before(do)' <=> Here.do = do
         /\ Here'.do = "read hi2" => Here.do = "read lo" /\ Before("read hi")
         /\ Here'.do = "again" => Here.do = "read hi2"
         /\ Here'.do = "mark hi" => Here.do = "read hi" /\ Before("read lo")
         /\ Here'.do = "mark lo" => Here.do = "mark hi"
<1>1. /\ Here = F[dut.pc] /\ dut.pc \in 1 .. Len(F) /\ Len(F) \in Nat /\ Piece(F, Deeds)
      /\ dut.pc + 1 \in 1 .. Len(F)
  BY HereFacts, Zenon DEF Runnable, Ahead
<1>2. F' = F BY DEF F, FwStep
<1>3. dut'.pc = dut.pc + 1 BY DEF Ahead
<1>4. Here' = F[dut.pc + 1] BY <1>2, <1>3, Zenon DEF Here, F
<1>5. dut.pc \in Nat \ {0} /\ (dut.pc + 1) - 1 = dut.pc /\ dut.pc + 1 > 1 BY <1>1
<1>6. Uses(F, dut.pc) BY <1>1, <1>5, NextPlace, Zenon
<1>7. ASSUME NEW do PROVE Before(do)' <=> Here.do = do
  BY <1>1, <1>2, <1>3, <1>5, Zenon DEF Before
<1>8. QED BY <1>1, <1>4, <1>6, <1>7, Zenon DEF Uses, Before

\* Where nothing of the counter is in use there is nothing to keep.
LEMMA Untied ==
  ASSUME dut'.lo = truth'.at % WordMod, mem'.cyc0 = truth'.start % WordMod,
         Here'.do \notin {"read hi2", "again", "mark hi", "mark lo"},
         ~(Here'.do = "read lo" /\ Before("read hi")'), ~(Here'.do = "read hi" /\ Before("read lo")')
  PROVE  ReadInv'
  BY Zenon DEF ReadInv

\* An instruction that neither reads the counter nor stores its high word.
LEMMA UntiedAhead ==
  ASSUME TypeInv, FwStep, Ahead, Here.do \notin {"read hi", "read lo", "read hi2", "mark hi"},
         dut'.lo = truth'.at % WordMod, mem'.cyc0 = truth'.start % WordMod
  PROVE  ReadInv'
<1>1. /\ \A do : Before(do)' <=> Here.do = do
      /\ Here'.do = "read hi2" => Here.do = "read lo"
      /\ Here'.do = "again" => Here.do = "read hi2"
      /\ Here'.do = "mark hi" => Here.do = "read hi"
      /\ Here'.do = "mark lo" => Here.do = "mark hi"
  BY AheadPlace, Zenon
<1>2. /\ Here'.do \notin {"read hi2", "again", "mark hi", "mark lo"}
      /\ ~Before("read hi")' /\ ~Before("read lo")'
  BY <1>1, Zenon
<1>3. QED BY <1>2, Untied, Zenon

\* What a step of the firmware owes to the invariant.
Fine ==
  /\ FwStep /\ ReadInv' /\ MirrorIsNeverBehind' /\ (mem'.tohost.lo = 1 => truth'.exit = 0) /\ Paced
  /\ dut'.value # dut.value => dut'.value = truth.at

\* Instructions that only take time, and traps.
LEMMA PlainIsFine ==
  ASSUME SpikeInv, PlainStep
  PROVE  Fine
<1>1. TypeInv /\ ReadInv /\ MirrorIsNeverBehind /\ PassInv /\ CaInv BY DEF SpikeInv
<1>2. /\ FwStep /\ RegsKept /\ dut'.value = dut.value /\ MarksKept /\ TableKept /\ BpKept /\ TohostKept
      /\ \/ Ahead /\ Here.do \in {"none", "mie", "poll", "c0", "any"}
         \/ dut'.pc = dut.pc /\ Here.do \in {"spin", "poll", "any"}
         \/ scen.fw = "irq" /\ dut'.pc = Len(IrqMain) + 1
  BY Zenon DEF PlainStep
<1>3. /\ dut'.lo = dut.lo /\ mem'.cycle = mem.cycle /\ mem'.cyc0 = mem.cyc0 /\ truth'.at = truth.at
      /\ truth'.start = truth.start /\ truth'.mark = truth.mark
      /\ mem'.table = mem.table /\ mem'.magic = mem.magic /\ mem'.bp = mem.bp
      /\ mem'.tohost = mem.tohost /\ truth'.exit = truth.exit
  BY <1>2, Zenon DEF RegsKept, MarksKept, TableKept, BpKept, TohostKept
<1>4. dut'.lo = truth'.at % WordMod /\ mem'.cyc0 = truth'.start % WordMod
  BY <1>1, <1>3, Zenon DEF ReadInv
<1>5. MirrorIsNeverBehind' BY <1>1, <1>3, Zenon DEF MirrorIsNeverBehind
<1>6. mem'.tohost.lo = 1 => truth'.exit = 0 BY <1>1, <1>3, Zenon DEF PassInv
<1>7. mem'.magic = 1 => scen.fw = "ca" BY <1>1, <1>3, Zenon DEF CaInv
<1>8. ReadInv' /\ (GoesAhead \/ StaysThere \/ scen.fw = "irq")
  <2>1. CASE Ahead /\ Here.do \in {"none", "mie", "poll", "c0", "any"}
    <3>1. /\ Here.do \notin {"read hi", "read lo", "read hi2", "mark hi"}
          /\ Here.do \notin {"bp", "mark lo", "table", "record"}
      BY <2>1
    <3>2. ReadInv' BY <1>1, <1>2, <1>4, <2>1, <3>1, UntiedAhead, Zenon
    <3>3. GoesAhead BY <1>3, <2>1, <3>1, Zenon DEF GoesAhead
    <3>4. QED BY <3>2, <3>3
  <2>2. CASE dut'.pc = dut.pc /\ Here.do \in {"spin", "poll", "any"}
    <3>1. Here' = Here BY <1>2, <2>2, Zenon DEF Here, FwStep
    <3>2. Here'.do \notin {"read hi2", "again", "mark hi", "mark lo", "read lo", "read hi"} BY <2>2, <3>1
    <3>3. ReadInv' BY <1>4, <3>2, Untied, Zenon
    <3>4. StaysThere BY <1>3, <2>2, Zenon DEF StaysThere, Kept
    <3>5. QED BY <3>3, <3>4
  <2>3. CASE scen.fw = "irq" /\ dut'.pc = Len(IrqMain) + 1
    <3>1. F[Len(IrqMain) + 1].do = "none" BY <1>1, <2>3, Loaded, Zenon DEF FirmwareShape
    <3>2. Here' = F[Len(IrqMain) + 1] BY <1>2, <2>3, Zenon DEF Here, FwStep, F
    <3>3. Here'.do \notin {"read hi2", "again", "mark hi", "mark lo", "read lo", "read hi"} BY <3>1, <3>2
    <3>4. ReadInv' BY <1>4, <3>3, Untied, Zenon
    <3>5. QED BY <2>3, <3>4
  <2>4. QED BY <1>2, <2>1, <2>2, <2>3
<1>9. QED BY <1>2, <1>5, <1>6, <1>7, <1>8, Zenon DEF Fine, Paced

\* Stores other than those of the counter: breakpoint, tohost, table.
LEMMA StoreIsFine ==
  ASSUME SpikeInv, SetsBp \/ WritesTohost \/ InitsTable \/ Records
  PROVE  Fine
<1>1. TypeInv /\ ReadInv /\ MirrorIsNeverBehind /\ PassInv /\ CaInv BY DEF SpikeInv
<1>2. (mem.tohost.lo = 1 => truth.exit = 0) /\ (mem.magic = 1 => scen.fw = "ca")
  BY <1>1, Zenon DEF PassInv, CaInv
<1>3. ASSUME NEW D, Writes(D), MarksKept, D \cap {"read hi", "read lo", "read hi2", "mark hi"} = {},
             mem'.tohost.lo = 1 => truth'.exit = 0, mem'.magic = 1 => scen.fw = "ca", GoesAhead
      PROVE  Fine
  <2>1. FwStep /\ RegsKept /\ dut'.value = dut.value /\ Ahead /\ Here.do \in D BY <1>3, Zenon DEF Writes
  <2>2. Here.do \notin {"read hi", "read lo", "read hi2", "mark hi"} BY <1>3, <2>1
  <2>3. /\ dut'.lo = dut.lo /\ mem'.cycle = mem.cycle /\ mem'.cyc0 = mem.cyc0 /\ truth'.at = truth.at
        /\ truth'.start = truth.start /\ truth'.mark = truth.mark
    BY <1>3, <2>1, Zenon DEF RegsKept, MarksKept
  <2>4. dut'.lo = truth'.at % WordMod /\ mem'.cyc0 = truth'.start % WordMod
    BY <1>1, <2>3, Zenon DEF ReadInv
  <2>5. ReadInv' BY <1>1, <2>1, <2>2, <2>4, UntiedAhead, Zenon
  <2>6. MirrorIsNeverBehind' BY <1>1, <2>3, Zenon DEF MirrorIsNeverBehind
  <2>7. QED BY <1>3, <2>1, <2>5, <2>6, Zenon DEF Fine, Paced
<1>4. ASSUME MarksKept PROVE truth'.start = truth.start /\ truth'.mark = truth.mark
  BY <1>4 DEF MarksKept
<1>5. CASE SetsBp
  <2>1. Writes({"bp"}) /\ mem'.bp = Here.val /\ MarksKept /\ TableKept /\ TohostKept
    BY <1>1, <1>5, SetsBpStep
  <2>2. Ahead /\ Here.do = "bp" BY <2>1 DEF Writes
  <2>3. "bp" \notin {"mark lo", "mark hi", "start", "table", "record"} OBVIOUS
  <2>4. /\ mem'.table = mem.table /\ mem'.magic = mem.magic /\ mem'.tohost = mem.tohost
        /\ truth'.exit = truth.exit
    BY <2>1, Zenon DEF TableKept, TohostKept
  <2>5. GoesAhead BY <1>4, <2>1, <2>2, <2>3, <2>4, Zenon DEF GoesAhead
  <2>6. {"bp"} \cap {"read hi", "read lo", "read hi2", "mark hi"} = {} OBVIOUS
  <2>7. QED BY <1>2, <1>3, <2>1, <2>4, <2>5, <2>6, Zenon
<1>6. CASE WritesTohost
  <2> DEFINE D == {"tohost lo", "tohost hi"}
  <2>1. /\ Writes(D) /\ MarksKept /\ TableKept /\ BpKept
        /\ (mem'.tohost.lo = 1 => truth'.exit = 0)
    BY <1>1, <1>2, <1>6, WritesTohostStep
  <2>2. Ahead /\ Here.do \in D BY <2>1 DEF Writes
  <2>3. Here.do \notin {"bp", "mark lo", "mark hi", "start", "table", "record"} BY <2>2
  <2>4. mem'.table = mem.table /\ mem'.magic = mem.magic /\ mem'.bp = mem.bp
    BY <2>1, Zenon DEF TableKept, BpKept
  <2>5. GoesAhead BY <1>4, <2>1, <2>2, <2>3, <2>4, Zenon DEF GoesAhead
  <2>6. D \cap {"read hi", "read lo", "read hi2", "mark hi"} = {} OBVIOUS
  <2>7. QED BY <1>2, <1>3, <2>1, <2>4, <2>5, <2>6, Zenon
<1>7. CASE InitsTable
  <2>1. Writes({"table"}) /\ scen.fw = "ca" /\ mem'.table = <<>> /\ MarksKept /\ BpKept /\ TohostKept
    BY <1>1, <1>7, InitsTableStep
  <2>2. Ahead /\ Here.do = "table" BY <2>1 DEF Writes
  <2>3. "table" \notin {"bp", "mark lo", "mark hi", "start", "record"} OBVIOUS
  <2>4. mem'.tohost = mem.tohost /\ truth'.exit = truth.exit /\ mem'.bp = mem.bp
    BY <2>1, Zenon DEF BpKept, TohostKept
  <2>5. Len(mem'.table) = 0
    <3>1. mem'.table = <<>> BY <2>1
    <3>2. QED BY ONLY <3>1
  <2>6. GoesAhead BY <1>4, <2>1, <2>2, <2>3, <2>4, <2>5, Zenon DEF GoesAhead
  <2>7. {"table"} \cap {"read hi", "read lo", "read hi2", "mark hi"} = {} OBVIOUS
  <2>8. QED BY <1>2, <1>3, <2>1, <2>4, <2>6, <2>7, Zenon
<1>8. CASE Records
  <2>1. /\ Writes({"record"}) /\ Len(mem'.table) = Len(mem.table) + 1 /\ mem'.magic = mem.magic
        /\ MarksKept /\ BpKept /\ TohostKept
    BY <1>1, <1>8, RecordsStep
  <2>2. Ahead /\ Here.do = "record" BY <2>1 DEF Writes
  <2>3. "record" \notin {"bp", "mark lo", "mark hi", "start", "table"} OBVIOUS
  <2>4. mem'.tohost = mem.tohost /\ truth'.exit = truth.exit /\ mem'.bp = mem.bp
    BY <2>1, Zenon DEF BpKept, TohostKept
  <2>5. GoesAhead BY <1>4, <2>1, <2>2, <2>3, <2>4, Zenon DEF GoesAhead
  <2>6. {"record"} \cap {"read hi", "read lo", "read hi2", "mark hi"} = {} OBVIOUS
  <2>7. QED BY <1>2, <1>3, <2>1, <2>4, <2>5, <2>6, Zenon
<1>9. QED BY <1>5, <1>6, <1>7, <1>8

\* The start of the run: its low word is the one that was read last.
LEMMA StartIsFine ==
  ASSUME SpikeInv, RecordsStart
  PROVE  Fine
<1>1. TypeInv /\ ReadInv /\ MirrorIsNeverBehind /\ PassInv /\ CaInv BY DEF SpikeInv
<1>2. /\ Writes({"start"}) /\ mem'.cyc0 = dut.lo /\ truth'.start = truth.at
      /\ mem'.cycle = mem.cycle /\ truth'.at = truth.at /\ truth'.mark = truth.mark
      /\ TableKept /\ BpKept /\ TohostKept
  BY <1>1, RecordsStartStep
<1>3. FwStep /\ RegsKept /\ dut'.value = dut.value /\ Ahead /\ Here.do = "start"
  <2>1. Here.do \in {"start"} BY <1>2, Zenon DEF Writes
  <2>2. QED BY <1>2, <2>1, Zenon DEF Writes
<1>4. /\ dut'.lo = dut.lo /\ mem'.table = mem.table /\ mem'.magic = mem.magic /\ mem'.bp = mem.bp
      /\ mem'.tohost = mem.tohost /\ truth'.exit = truth.exit
  BY <1>2, <1>3, Zenon DEF RegsKept, TableKept, BpKept, TohostKept
<1>5. dut'.lo = truth'.at % WordMod /\ mem'.cyc0 = truth'.start % WordMod
  BY <1>1, <1>2, <1>4, Zenon DEF ReadInv
<1>6. "start" \notin {"read hi", "read lo", "read hi2", "mark hi", "mark lo", "bp", "table", "record"} OBVIOUS
<1>7. Here.do \notin {"read hi", "read lo", "read hi2", "mark hi"} BY <1>3, <1>6
<1>8. ReadInv' BY <1>1, <1>3, <1>5, <1>7, UntiedAhead, Zenon
<1>9. MirrorIsNeverBehind' BY <1>1, <1>2, Zenon DEF MirrorIsNeverBehind
<1>10. (mem'.tohost.lo = 1 => truth'.exit = 0) /\ (mem'.magic = 1 => scen.fw = "ca")
  BY <1>1, <1>4, Zenon DEF PassInv, CaInv
<1>11. GoesAhead BY <1>2, <1>3, <1>4, <1>6, Zenon DEF GoesAhead
<1>12. QED BY <1>3, <1>8, <1>9, <1>10, <1>11, Zenon DEF Fine, Paced

\* The two stores of verif_ca_mark_cycle: the mirror is the count at the read
\* of the low word, or a whole high word more.
LEMMA MarkIsFine ==
  ASSUME SpikeInv, Marks
  PROVE  Fine
<1>1. TypeInv /\ ReadInv /\ MirrorIsNeverBehind /\ PassInv /\ CaInv BY DEF SpikeInv
<1>2. /\ Writes({"mark hi", "mark lo"})
      /\ (Here.do = "mark hi" => mem'.cycle.hi = dut.hi /\ truth'.mark = -1)
      /\ (Here.do = "mark lo" => mem'.cycle.hi = mem.cycle.hi /\ mem'.cycle.lo = dut.lo /\ truth'.mark = truth.at)
      /\ mem'.cyc0 = mem.cyc0 /\ truth'.at = truth.at /\ truth'.start = truth.start
      /\ TableKept /\ BpKept /\ TohostKept
  BY <1>1, MarksStep
<1>3. FwStep /\ RegsKept /\ dut'.value = dut.value /\ Ahead /\ Here.do \in {"mark hi", "mark lo"}
  BY <1>2, Zenon DEF Writes
<1>4. /\ dut'.lo = dut.lo /\ mem'.table = mem.table /\ mem'.magic = mem.magic /\ mem'.bp = mem.bp
      /\ mem'.tohost = mem.tohost /\ truth'.exit = truth.exit
  BY <1>2, <1>3, Zenon DEF RegsKept, TableKept, BpKept, TohostKept
<1>5. dut'.lo = truth'.at % WordMod /\ mem'.cyc0 = truth'.start % WordMod
  BY <1>1, <1>2, <1>4, Zenon DEF ReadInv
<1>6. truth.at \in Cycles /\ truth.at >= 0
  <2>1. truth.at \in Cycles BY <1>1, Zenon DEF TypeInv, TruthOK
  <2>2. \A x \in Cycles : x >= 0 BY GapIsShort DEF Cycles
  <2>3. QED BY <2>1, <2>2
<1>7. (mem'.tohost.lo = 1 => truth'.exit = 0) /\ (mem'.magic = 1 => scen.fw = "ca")
  BY <1>1, <1>4, Zenon DEF PassInv, CaInv
<1>8. GoesAhead
  <2>1. Here.do \notin {"bp", "table", "record"} BY <1>3
  <2>2. QED BY <1>2, <1>3, <1>4, <1>6, <2>1, Zenon DEF GoesAhead
<1>9. CASE Here.do = "mark hi"
  <2>1. ReadInv'
    <3>1. /\ \A do : Before(do)' <=> Here.do = do
          /\ Here'.do = "read hi2" => Here.do = "read lo"
          /\ Here'.do = "again" => Here.do = "read hi2"
          /\ Here'.do = "mark hi" => Here.do = "read hi"
      BY <1>1, <1>3, AheadPlace, Zenon
    <3>2. HighIs(dut.hi, truth.at) BY <1>1, <1>9, Zenon DEF ReadInv
    <3>3. HighIs(mem'.cycle.hi, truth'.at) BY <1>2, <1>9, <3>2, Zenon
    <3>4. /\ Here'.do \notin {"read hi2", "again", "mark hi"}
          /\ ~Before("read hi")' /\ ~Before("read lo")'
      <4>1. Here.do \notin {"read lo", "read hi2", "read hi"} BY <1>9
      <4>2. QED BY <3>1, <4>1, Zenon
    <3>5. QED BY <1>5, <3>3, <3>4, Zenon DEF ReadInv
  <2>2. MirrorIsNeverBehind'
    <3>1. truth'.mark = -1 BY <1>2, <1>9
    <3>2. QED BY <3>1 DEF MirrorIsNeverBehind
  <2>3. QED BY <1>3, <1>7, <1>8, <2>1, <2>2, Zenon DEF Fine, Paced
<1>10. CASE Here.do = "mark lo"
  <2>1. Here.do \notin {"read hi", "read lo", "read hi2", "mark hi"} BY <1>10
  <2>2. ReadInv' BY <1>1, <1>3, <1>5, <2>1, UntiedAhead, Zenon
  <2>3. HighIs(mem.cycle.hi, truth.at) BY <1>1, <1>10, Zenon DEF ReadInv
  <2>4. PICK x \in Cycles : mem.cycle.hi = x \div WordMod /\ After(truth.at, x) BY <2>3, Zenon DEF HighIs
  <2>5. PICK d \in 0 .. Gap : x = (truth.at + d) % CycleMod BY <2>4, Zenon DEF After
  <2>6. mem.cycle.hi = ((truth.at + d) % CycleMod) \div WordMod BY <2>4, <2>5, Zenon
  <2>7. mem.cycle.hi * WordMod + (truth.at % WordMod) \in {truth.at, (truth.at + WordMod) % CycleMod}
    <3>1. truth.at \in 0 .. CycleMod - 1 BY <1>6 DEF Cycles
    <3>2. QED BY <2>6, <3>1, MarkIsClose
  <2>8. dut.lo = truth.at % WordMod BY <1>1, Zenon DEF ReadInv
  <2>9. mem'.cycle.hi = mem.cycle.hi /\ mem'.cycle.lo = truth.at % WordMod /\ truth'.mark = truth.at
    BY <1>2, <1>10, <2>8
  <2>10. MirrorIsNeverBehind' BY <2>7, <2>9, Zenon DEF MirrorIsNeverBehind
  <2>11. QED BY <1>3, <1>7, <1>8, <2>2, <2>10, Zenon DEF Fine, Paced
<1>11. QED BY <1>3, <1>9, <1>10

\* A read of a word of the counter is at most Gap cycles before the next one.
LEMMA ReadIsFine ==
  ASSUME SpikeInv, ReadsCycle
  PROVE  Fine
<1>1. TypeInv /\ ReadInv /\ MirrorIsNeverBehind /\ PassInv /\ CaInv BY DEF SpikeInv
<1>2. /\ FwStep /\ Ahead /\ Here.do \in Reads /\ dut'.value = dut.value
      /\ mem'.cycle = mem.cycle /\ mem'.cyc0 = mem.cyc0 /\ truth'.start = truth.start /\ truth'.mark = truth.mark
      /\ TableKept /\ BpKept /\ TohostKept /\ tm.total \in Cycles /\ After(tm.total, tm'.total)
      /\ Here.do = "read hi" =>
           dut'.hi = tm.total \div WordMod /\ dut'.lo = dut.lo /\ truth'.at = truth.at
      /\ Here.do = "read hi2" =>
           /\ dut'.hi2 = tm.total \div WordMod /\ dut'.hi = dut.hi /\ dut'.lo = dut.lo
           /\ truth'.at = truth.at
      /\ Here.do = "read lo" =>
           dut'.lo = tm.total % WordMod /\ dut'.hi = dut.hi /\ truth'.at = tm.total
  BY <1>1, ReadsCycleStep
<1>3. /\ mem'.table = mem.table /\ mem'.magic = mem.magic /\ mem'.bp = mem.bp
      /\ mem'.tohost = mem.tohost /\ truth'.exit = truth.exit
  BY <1>2, Zenon DEF TableKept, BpKept, TohostKept
<1>4. /\ \A do : Before(do)' <=> Here.do = do
      /\ Here'.do = "read hi2" => Here.do = "read lo" /\ Before("read hi")
      /\ Here'.do = "again" => Here.do = "read hi2"
      /\ Here'.do = "mark hi" => Here.do = "read hi" /\ Before("read lo")
      /\ Here'.do = "mark lo" => Here.do = "mark hi"
  BY <1>1, <1>2, AheadPlace
<1>5. dut.lo = truth.at % WordMod /\ mem.cyc0 = truth.start % WordMod BY <1>1, Zenon DEF ReadInv
<1>6. mem'.cyc0 = truth'.start % WordMod BY <1>2, <1>5, Zenon
<1>7. "mark hi" \notin Reads BY DEF Reads
<1>8. Here'.do # "mark lo" BY <1>2, <1>4, <1>7
<1>9. ReadInv'
  <2>1. CASE Here.do = "read hi"
    <3>1. Here'.do # "read hi2" /\ Here'.do # "again" /\ ~Before("read lo")'
      <4>1. Here.do \notin {"read lo", "read hi2"} BY <2>1
      <4>2. QED BY <1>4, <4>1, Zenon
    <3>2. dut'.lo = truth'.at % WordMod BY <1>2, <1>5, <2>1, Zenon
    <3>3. HighWas(dut'.hi, tm'.total) BY <1>2, <2>1, Zenon DEF HighWas
    <3>4. Here'.do = "mark hi" => HighIs(dut'.hi, truth'.at)
      <4>1. Here'.do = "mark hi" => After(truth.at, tm.total) BY <1>1, <1>4, <2>1, Zenon DEF ReadInv
      <4>2. dut'.hi = tm.total \div WordMod /\ truth'.at = truth.at BY <1>2, <2>1
      <4>3. QED BY <1>2, <4>1, <4>2, Zenon DEF HighIs
    <3>5. QED BY <1>6, <1>8, <3>1, <3>2, <3>3, <3>4, Zenon DEF ReadInv
  <2>2. CASE Here.do = "read lo"
    <3>1. Here'.do # "again" /\ Here'.do # "mark hi" /\ ~Before("read hi")'
      <4>1. Here.do \notin {"read hi", "read hi2"} BY <2>2
      <4>2. QED BY <1>4, <4>1, Zenon
    <3>2. dut'.lo = truth'.at % WordMod BY <1>2, <2>2, Zenon
    <3>3. After(truth'.at, tm'.total) BY <1>2, <2>2, Zenon
    <3>4. Here'.do = "read hi2" => HighWas(dut'.hi, truth'.at)
      <4>1. Here'.do = "read hi2" => HighWas(dut.hi, tm.total) BY <1>1, <1>4, <2>2, Zenon DEF ReadInv
      <4>2. QED BY <1>2, <2>2, <4>1, Zenon
    <3>5. QED BY <1>6, <1>8, <3>1, <3>2, <3>3, <3>4, Zenon DEF ReadInv
  <2>3. CASE Here.do = "read hi2"
    <3>1. /\ Here'.do # "read hi2" /\ Here'.do # "mark hi" /\ ~Before("read hi")' /\ ~Before("read lo")'
      <4>1. Here.do \notin {"read hi", "read lo"} BY <2>3
      <4>2. QED BY <1>4, <4>1, Zenon
    <3>2. dut'.lo = truth'.at % WordMod BY <1>2, <1>5, <2>3, Zenon
    <3>3. HighWas(dut.hi, truth.at) /\ After(truth.at, tm.total) BY <1>1, <2>3, Zenon DEF ReadInv
    <3>4. HighWas(dut'.hi, truth'.at) BY <1>2, <2>3, <3>3, Zenon
    <3>5. HighIs(dut'.hi2, truth'.at)
      <4>1. dut'.hi2 = tm.total \div WordMod /\ truth'.at = truth.at BY <1>2, <2>3
      <4>2. QED BY <1>2, <3>3, <4>1, Zenon DEF HighIs
    <3>6. QED BY <1>6, <1>8, <3>1, <3>2, <3>4, <3>5, Zenon DEF ReadInv
  <2>4. QED BY <1>2, <2>1, <2>2, <2>3 DEF Reads
<1>10. MirrorIsNeverBehind' BY <1>1, <1>2, Zenon DEF MirrorIsNeverBehind
<1>11. (mem'.tohost.lo = 1 => truth'.exit = 0) /\ (mem'.magic = 1 => scen.fw = "ca")
  BY <1>1, <1>3, Zenon DEF PassInv, CaInv
<1>12. GoesAhead
  <2>1. Here.do \notin {"bp", "mark lo", "mark hi", "start", "table", "record"} BY <1>2 DEF Reads
  <2>2. QED BY <1>2, <1>3, <2>1, Zenon DEF GoesAhead
<1>13. QED BY <1>2, <1>9, <1>10, <1>11, <1>12, Zenon DEF Fine, Paced

\* while (hi != hi2): what is returned was the count when the low word was read.
LEMMA CompareIsFine ==
  ASSUME SpikeInv, ComparesHigh
  PROVE  Fine
<1>1. TypeInv /\ ReadInv /\ MirrorIsNeverBehind /\ PassInv /\ CaInv BY DEF SpikeInv
<1>2. /\ FwStep /\ Here.do = "again" /\ RegsKept /\ MarksKept /\ TableKept /\ BpKept /\ TohostKept
      /\ \/ dut'.pc = dut.pc - 3 /\ dut'.value = dut.value
         \/ Ahead /\ dut.hi = dut.hi2 /\ dut'.value = dut.hi * WordMod + dut.lo
  BY <1>1, ComparesHighStep
<1>3. /\ dut'.lo = dut.lo /\ mem'.cycle = mem.cycle /\ mem'.cyc0 = mem.cyc0 /\ truth'.at = truth.at
      /\ truth'.start = truth.start /\ truth'.mark = truth.mark
      /\ mem'.table = mem.table /\ mem'.magic = mem.magic /\ mem'.bp = mem.bp
      /\ mem'.tohost = mem.tohost /\ truth'.exit = truth.exit
  BY <1>2, Zenon DEF RegsKept, MarksKept, TableKept, BpKept, TohostKept
<1>4. dut'.lo = truth'.at % WordMod /\ mem'.cyc0 = truth'.start % WordMod
  BY <1>1, <1>3, Zenon DEF ReadInv
<1>5. MirrorIsNeverBehind' BY <1>1, <1>3, Zenon DEF MirrorIsNeverBehind
<1>6. (mem'.tohost.lo = 1 => truth'.exit = 0) /\ (mem'.magic = 1 => scen.fw = "ca")
  BY <1>1, <1>3, Zenon DEF PassInv, CaInv
<1>7. CASE dut'.pc = dut.pc - 3 /\ dut'.value = dut.value
  <2>1. /\ F[dut.pc - 3].do = "read hi" /\ (dut.pc - 3 > 1 => F[(dut.pc - 3) - 1].do # "read lo")
    <3>1. Piece(F, Deeds) /\ dut.pc \in 1 .. Len(F) /\ F[dut.pc].do = "again"
      BY <1>1, <1>2, HereFacts, Zenon DEF Runnable
    <3>2. Reread(F, dut.pc) BY <3>1, BackPlace, Zenon
    <3>3. QED BY <3>2, Zenon DEF Reread
  <2>2. F' = F BY <1>2 DEF F, FwStep
  <2>3. Here' = F[dut.pc - 3] BY <1>7, <2>2, Zenon DEF Here, F
  <2>4. ~Before("read lo")' BY <1>7, <2>1, <2>2, Zenon DEF Before
  <2>5. Here'.do \notin {"read hi2", "again", "mark hi", "mark lo"} /\ Here'.do # "read lo"
    BY <2>1, <2>3
  <2>6. ReadInv' BY <1>4, <2>4, <2>5, Untied, Zenon
  <2>7. GoesBack BY <1>2, <1>3, <1>7, Zenon DEF GoesBack, Kept
  <2>8. QED BY <1>2, <1>5, <1>6, <1>7, <2>6, <2>7, Zenon DEF Fine, Paced
<1>8. CASE Ahead /\ dut.hi = dut.hi2 /\ dut'.value = dut.hi * WordMod + dut.lo
  <2>1. Here.do \notin {"read hi", "read lo", "read hi2", "mark hi", "bp", "mark lo", "start", "table", "record"}
    BY <1>2
  <2>2. ReadInv' BY <1>1, <1>2, <1>4, <1>8, <2>1, UntiedAhead, Zenon
  <2>3. GoesAhead BY <1>3, <1>8, <2>1, Zenon DEF GoesAhead
  <2>4. HighWas(dut.hi, truth.at) /\ HighIs(dut.hi, truth.at) /\ dut.lo = truth.at % WordMod
    BY <1>1, <1>2, <1>8, Zenon DEF ReadInv
  <2>5. PICK x \in Cycles, d \in 0 .. Gap : dut.hi = x \div WordMod /\ truth.at = (x + d) % CycleMod
    BY <2>4, Zenon DEF HighWas, After
  <2>6. PICK y \in Cycles, e \in 0 .. Gap : dut.hi = y \div WordMod /\ y = (truth.at + e) % CycleMod
    BY <2>4, Zenon DEF HighIs, After
  <2>7. ((truth.at + e) % CycleMod) \div WordMod = x \div WordMod BY <2>5, <2>6, Zenon
  <2>8. (x \div WordMod) * WordMod + (truth.at % WordMod) = truth.at
    <3>1. x \in 0 .. CycleMod - 1 BY DEF Cycles
    <3>2. QED BY <2>5, <2>7, <3>1, ReadIsWhole
  <2>9. dut'.value = truth.at BY <1>8, <2>4, <2>5, <2>8, Zenon
  <2>10. QED BY <1>2, <1>5, <1>6, <2>2, <2>3, <2>9, Zenon DEF Fine, Paced
<1>9. QED BY <1>2, <1>7, <1>8

\* Every step of the firmware.
LEMMA TickIsFine == ASSUME SpikeInv, tick PROVE Fine
<1>1. TypeInv BY DEF SpikeInv
<1>2. CASE Computes \/ Spins \/ EnablesInterrupts \/ PollsBp \/ KeepsStart \/ RunsAny
  BY <1>1, <1>2, PlainSteps, PlainIsFine
<1>3. CASE TrapsAny \/ TakesInterrupt BY <1>1, <1>3, TrapSteps, PlainIsFine
<1>4. CASE SetsBp \/ WritesTohost \/ InitsTable \/ Records BY <1>4, StoreIsFine
<1>5. CASE RecordsStart BY <1>5, StartIsFine
<1>6. CASE Marks BY <1>6, MarkIsFine
<1>7. CASE ReadsCycle BY <1>7, ReadIsFine
<1>8. CASE ComparesHigh BY <1>8, CompareIsFine
<1>9. QED BY <1>2, <1>3, <1>4, <1>5, <1>6, <1>7, <1>8 DEF tick

\* The driver's verdict does not change while it ticks.
LEMMA FineKeeps == ASSUME SpikeInv, Fine PROVE SpikeInv'
<1>1. TypeInv /\ PassInv /\ CaInv /\ HostSeesTheRun BY DEF SpikeInv
<1>2. /\ FwStep /\ ReadInv' /\ MirrorIsNeverBehind' /\ (mem'.tohost.lo = 1 => truth'.exit = 0) /\ Paced
  BY DEF Fine
<1>3. TypeInv' /\ HostRuns /\ scen' = scen BY <1>2 DEF FwStep
<1>4. CaInv' /\ HostSeesTheRun' BY <1>1, <1>2, CaKept
<1>5. PassInv'
  <2>1. /\ host.left > 0 /\ host'.pc = host.pc /\ host'.exit = host.exit BY <1>3 DEF HostRuns
  <2>2. /\ host.exit # -1 => host.pc = "exited"
        /\ host.pc \in {"exited", "read"} => host.left = 0
        /\ scen.driver = "verif_spike_run" => host.pc \notin {"wait begin", "wait end"}
    BY <1>1, Zenon DEF PassInv
  <2>3. host.left # 0 BY <1>1, <2>1 DEF TypeInv, HostOK, Hosts
  <2>4. host'.pc \notin {"exited", "read"} BY <2>1, <2>2, <2>3, Zenon
  <2>5. host'.exit = -1 BY <2>1, <2>2, <2>4, Zenon
  <2>6. host'.exit # 0 BY <2>5
  <2>7. PassIsExitZero' BY <2>6 DEF PassIsExitZero
  <2>8. QED BY <1>2, <1>3, <2>1, <2>2, <2>4, <2>5, <2>7, Zenon DEF PassInv
<1>6. QED BY <1>2, <1>3, <1>4, <1>5 DEF SpikeInv

\* A step of the driver keeps the invariant, if what it made of the table is right.
LEMMA HostKeeps ==
  ASSUME SpikeInv, HostMoves, HostSeesTheRun', host'.run >= 0 => scen.fw = "ca" /\ Plan.end < dut.pc
  PROVE  SpikeInv'
<1>1. TypeInv /\ ReadInv /\ MirrorIsNeverBehind /\ PassInv /\ CaInv BY DEF SpikeInv
<1>2. /\ scen' = scen /\ tm' = tm /\ mem' = mem /\ truth' = truth /\ dut'.pc = dut.pc
      /\ dut'.hi = dut.hi /\ dut'.hi2 = dut.hi2 /\ dut'.lo = dut.lo /\ TypeInv'
  BY Zenon DEF HostMoves, HostStep, RegsKept, HighsKept
<1>3. /\ host'.exit # -1 => host'.pc = "exited"
      /\ host'.pc \in {"exited", "read"} => host'.left = 0
      /\ host'.pc = "read" => mem.bp = "end"
      /\ scen.driver = "verif_spike_run" => host'.pc \notin {"wait begin", "wait end"}
      /\ scen.driver = "verif_spike_run" /\ host'.exit = 0 => truth.exit = 0
  BY Zenon DEF HostMoves
<1>4. F' = F /\ Here' = Here BY <1>2, Zenon DEF F, Here
<1>5. (Before("read hi")' <=> Before("read hi")) /\ (Before("read lo")' <=> Before("read lo"))
  BY <1>2, <1>4, Zenon DEF Before
<1>6. ReadInv' BY <1>1, <1>2, <1>4, <1>5, Zenon DEF ReadInv
<1>7. MirrorIsNeverBehind' BY <1>1, <1>2, Zenon DEF MirrorIsNeverBehind
<1>8. PassInv' BY <1>1, <1>2, <1>3, Zenon DEF PassInv, PassIsExitZero
<1>9. Plan' = Plan BY <1>4 DEF Plan
<1>10. CaInv' BY <1>1, <1>2, <1>3, <1>9, Zenon DEF CaInv
<1>11. QED BY <1>2, <1>6, <1>7, <1>8, <1>10 DEF SpikeInv

\* The rest of the sequence of CA_measure.
LEMMA ReadsTableStep ==
  ASSUME TypeInv, PassInv, ReadsTable
  PROVE  /\ HostMoves /\ host.pc = "read"
         /\ \/ RunKept
            \/ /\ mem.magic = 1 /\ host'.rows = Net(mem.table)
               /\ host'.run = (mem.cycle.hi * WordMod + mem.cycle.lo - mem.cyc0) % CycleMod
<1> DEFINE r == Net(mem.table)
           n == (mem.cycle.hi * WordMod + mem.cycle.lo - mem.cyc0) % CycleMod
<1>1. /\ HostOnly /\ dut' = dut /\ host.pc = "read" /\ host.left = 0
      /\ \/ host' = [host EXCEPT !.pc = "guard", !.said = "FAIL"]
         \/ /\ mem.magic # 0
            /\ host' = [host EXCEPT !.pc = "guard", !.said = "PASS", !.rows = r, !.run = n]
  BY DEF ReadsTable, At
<1>2. host \in Hosts /\ mem \in Mems BY DEF TypeInv, HostOK, MemOK
<1>3. r \in Seq(Int)
  <2>1. mem.table \in Seq(Nat) BY <1>2 DEF Mems
  <2>2. Len(mem.table) \in Nat /\ \A i \in 1 .. Len(mem.table) : mem.table[i] \in Nat BY ONLY <2>1
  <2>3. r \in [1 .. Len(mem.table) -> Int]
    <3>1. \A i \in 1 .. Len(mem.table) : 1 \in 1 .. Len(mem.table) BY <2>2
    <3>2. QED BY <2>2, <3>1 DEF Net
  <2>4. QED BY <2>2, <2>3, Listed, Zenon
<1>4. n \in Int
  <2>1. mem.cycle.hi \in Nat /\ mem.cycle.lo \in Nat /\ mem.cyc0 \in Nat BY <1>2 DEF Mems
  <2>2. WordMod \in Nat /\ CycleMod \in Nat /\ CycleMod > 0 BY GapIsShort
  <2>3. mem.cycle.hi * WordMod + mem.cycle.lo - mem.cyc0 \in Int BY <2>1, <2>2
  <2>4. ASSUME NEW a \in Int PROVE a % CycleMod \in Int BY ONLY <2>2, <2>4
  <2>5. QED BY <2>3, <2>4
<1>5. "guard" \in Places BY DEF Places
<1> HIDE DEF r, n
<1>6. /\ host' \in Hosts /\ host'.pc = "guard" /\ host'.exit = host.exit
      /\ RunKept \/ (mem.magic # 0 /\ host'.rows = r /\ host'.run = n)
  <2>1. CASE host' = [host EXCEPT !.pc = "guard", !.said = "FAIL"]
    BY ONLY <1>2, <1>5, <2>1 DEF Hosts, RunKept
  <2>2. CASE mem.magic # 0 /\ host' = [host EXCEPT !.pc = "guard", !.said = "PASS", !.rows = r, !.run = n]
    <3>1. host' \in Hosts /\ host'.pc = "guard" /\ host'.exit = host.exit /\ host'.rows = r /\ host'.run = n
      BY ONLY <1>2, <1>3, <1>4, <1>5, <2>2 DEF Hosts
    <3>2. QED BY <2>2, <3>1
  <2>3. QED BY <1>1, <2>1, <2>2
<1>7. HostStep BY <1>1, <1>6, HostFrom
<1>8. host.exit = -1
  <2>1. host.exit # -1 => host.pc = "exited" BY DEF PassInv
  <2>2. QED BY <1>1, <2>1
<1>9. host'.pc \notin {"exited", "read", "wait begin", "wait end"} /\ host'.exit = -1 /\ host'.exit # 0
  BY <1>6, <1>8
<1>10. HostMoves BY <1>7, <1>9, Zenon DEF HostMoves
<1>11. mem.magic # 0 => mem.magic = 1 BY <1>2 DEF Mems
<1>12. QED BY <1>1, <1>6, <1>10, <1>11 DEF r, n

\* The host is told to read when table and mirror are complete.
LEMMA ReadsTableIsSound ==
  ASSUME SpikeInv, ReadsTable
  PROVE  HostMoves /\ HostSeesTheRun' /\ (host'.run >= 0 => scen.fw = "ca" /\ Plan.end < dut.pc)
<1>1. TypeInv /\ ReadInv /\ MirrorIsNeverBehind /\ PassInv /\ CaInv /\ HostSeesTheRun BY DEF SpikeInv
<1>2. /\ HostMoves /\ host.pc = "read"
      /\ \/ RunKept
         \/ /\ mem.magic = 1 /\ host'.rows = Net(mem.table)
            /\ host'.run = (mem.cycle.hi * WordMod + mem.cycle.lo - mem.cyc0) % CycleMod
  BY <1>1, ReadsTableStep
<1>3. truth' = truth BY <1>2 DEF HostMoves, HostStep
<1>4. CASE RunKept
  <2>1. host'.run = host.run /\ host'.rows = host.rows BY <1>4 DEF RunKept
  <2>2. HostSeesTheRun' BY <1>1, <1>3, <2>1, Zenon DEF HostSeesTheRun
  <2>3. host'.run >= 0 => scen.fw = "ca" /\ Plan.end < dut.pc BY <1>1, <2>1, Zenon DEF CaInv
  <2>4. QED BY <1>2, <2>2, <2>3
<1>5. CASE /\ mem.magic = 1 /\ host'.rows = Net(mem.table)
           /\ host'.run = (mem.cycle.hi * WordMod + mem.cycle.lo - mem.cyc0) % CycleMod
  <2>1. scen.fw = "ca" /\ mem.bp = "end" BY <1>1, <1>2, <1>5, Zenon DEF CaInv
  <2>2. /\ mem.bp = IF Plan.end < dut.pc THEN "end" ELSE "none"
        /\ Plan.mark < dut.pc => truth.mark >= 0
        /\ 1 < dut.pc => Len(mem.table) = Recorded(Plan, dut.pc)
    BY <1>1, <2>1, Zenon DEF CaInv
  <2>3. Plan.end < dut.pc BY <2>1, <2>2
  <2>4. /\ Plan.a \in Nat /\ Plan.b \in Nat /\ Plan.c \in Nat /\ Plan.mark \in Nat /\ Plan.end \in Nat
        /\ Plan.a < Plan.b /\ Plan.b < Plan.c /\ Plan.c < Plan.mark /\ Plan.mark < Plan.end
    BY <1>1, <2>1, Planned
  <2>5. dut.pc \in Nat BY <1>1 DEF TypeInv, DutOK, Duts
  <2>6. Plan.mark < dut.pc /\ 1 < dut.pc /\ Plan.c < dut.pc BY <2>3, <2>4, <2>5
  <2>7. Len(mem.table) = 3
    <3>1. Recorded(Plan, dut.pc) = 3 BY <2>4, <2>5, <2>6, Counting
    <3>2. QED BY <2>2, <2>6, <3>1
  <2>8. Len(host'.rows) = 3
    <3> DEFINE t == mem.table
               f == Net(t)
    <3>1. Len(t) = 3 BY <2>7
    <3> HIDE DEF t
    <3>2. f = [i \in 1 .. 3 |-> IF t[i] > t[1] THEN t[i] - t[1] ELSE 0] BY <3>1 DEF Net
    <3>3. Len([i \in 1 .. 3 |-> IF t[i] > t[1] THEN t[i] - t[1] ELSE 0]) = 3 OBVIOUS
    <3>4. QED BY <1>5, <3>2, <3>3 DEF t
  <2>9. ASSUME truth.start < WordMod
        PROVE  (host'.run - (truth.mark - truth.start)) % CycleMod \in {0, WordMod}
    <3> DEFINE v == mem.cycle.hi * WordMod + mem.cycle.lo
    <3>1. truth.mark \in -1 .. CycleMod - 1 /\ truth.start \in 0 .. CycleMod - 1
      BY <1>1 DEF TypeInv, TruthOK, Cycles
    <3>2. WordMod \in Nat /\ CycleMod \in Nat BY GapIsShort
    <3>3. truth.mark >= 0 BY <2>2, <2>6
    <3>4. truth.mark \in 0 .. CycleMod - 1 /\ truth.start \in 0 .. WordMod - 1
      BY <2>9, <3>1, <3>2, <3>3
    <3>5. v \in {truth.mark, (truth.mark + WordMod) % CycleMod}
      BY <1>1, <3>3, Zenon DEF MirrorIsNeverBehind
    <3>6. mem.cyc0 = truth.start
      <4>1. mem.cyc0 = truth.start % WordMod BY <1>1, Zenon DEF ReadInv
      <4>2. ASSUME NEW y \in 0 .. WordMod - 1 PROVE y % WordMod = y BY <3>2
      <4>3. QED BY <3>4, <4>1, <4>2
    <3>7. host'.run = (v - truth.start) % CycleMod
      <4>1. mem.cycle.hi \in Nat /\ mem.cycle.lo \in Nat /\ mem.cyc0 \in Nat BY <1>1 DEF TypeInv, MemOK, Mems
      <4>2. \A h, l, c \in Nat : h * WordMod + l - c = (h * WordMod + l) - c BY <3>2
      <4>3. mem.cycle.hi * WordMod + mem.cycle.lo - mem.cyc0 = v - mem.cyc0 BY <4>1, <4>2, Zenon
      <4>4. QED BY <1>5, <3>6, <4>3, Zenon
    <3> HIDE DEF v
    <3>8. QED BY <3>4, <3>5, <3>7, RunIsExact
  <2>10. HostSeesTheRun' BY <1>3, <2>8, <2>9, Zenon DEF HostSeesTheRun
  <2>11. QED BY <1>2, <2>1, <2>3, <2>10
<1>6. QED BY <1>2, <1>4, <1>5

\* main, up to its first look.
LEMMA Starts == ASSUME SpikeInit PROVE SpikeInv
<1>1. scen \in Scenarios BY DEF SpikeInit
<1>2. /\ scen.starts \subseteq 0 .. CycleMod - 1 /\ GuardMax \in Nat /\ MaxPolls \in Nat
  BY <1>1, SpikeAssumption, Zenon DEF SpikeAssumption
<1>3. FirmwareShape(scen, F) BY <1>1, EveryFirmware, Zenon DEF F
<1>4. Piece(F, Deeds) /\ F # <<>> BY <1>3, Zenon DEF FirmwareShape, Runnable
<1>5. 1 \in 1 .. Len(F)
  <2>1. F \in Seq(Ops) /\ F # <<>> BY <1>4, Zenon DEF Piece
  <2> HIDE DEF F
  <2>2. QED BY ONLY <2>1
<1>6. WordMod \in Nat /\ WordMod > 0 /\ CycleMod \in Nat /\ CycleMod > 0 BY GapIsShort
<1>7. 0 \in Cycles /\ -1 \in -1 .. CycleMod - 1 /\ 0 % WordMod = 0 BY <1>6 DEF Cycles
<1>8. TmOK(tm)
  <2>1. PICK n \in 0 .. CycleMod - 1 : tm = Reset(scen.phase, n) BY <1>2 DEF SpikeInit
  <2>2. "total" \in DOMAIN tm /\ tm.total = n BY <2>1 DEF Reset
  <2>3. QED BY <2>2, Zenon DEF TmOK
<1>9. DutOK /\ dut.pc = 1 /\ dut.lo = 0
  <2>1. dut = [pc |-> 1, mie |-> 0, mip |-> 0, hi |-> 0, hi2 |-> 0, lo |-> 0, value |-> 0, c0 |-> 0, guard |-> 0]
    BY DEF SpikeInit
  <2>2. dut \in Duts /\ dut.pc = 1 /\ dut.lo = 0 /\ dut.mie # 1 BY ONLY <2>1 DEF Duts
  <2>3. QED BY <1>5, <2>2, Zenon DEF DutOK
<1>10. MemOK /\ mem.bp = "none" /\ mem.tohost.lo = 0 /\ mem.cyc0 = 0 /\ mem.magic = 0
  <2>0. <<>> \in Seq(Nat) BY ONLY TRUE
  <2>1. PICK t \in Seq(Nat) : t = <<>> BY <2>0, Zenon
  <2>2. mem = [bp |-> "none", tohost |-> [lo |-> 0, hi |-> 0], cycle |-> [lo |-> 0, hi |-> 0],
               magic |-> 0, cyc0 |-> 0, table |-> t]
    BY <2>1 DEF SpikeInit
  <2>3. mem \in Mems /\ mem.bp = "none" /\ mem.tohost.lo = 0 /\ mem.cyc0 = 0 /\ mem.magic = 0
    BY ONLY <2>2 DEF Mems, Breakpoints
  <2>4. QED BY <2>3 DEF MemOK
<1>11. /\ HostOK /\ host.exit = -1 /\ host.run = -1 /\ host.left = 0
       /\ host.pc = IF scen.driver = "verif_spike_run" THEN "loop" ELSE "wait begin"
  <2>0. <<>> \in Seq(Int) BY ONLY TRUE
  <2>1. PICK t \in Seq(Int) : t = <<>> BY <2>0, Zenon
  <2> DEFINE p == IF scen.driver = "verif_spike_run" THEN "loop" ELSE "wait begin"
  <2>2. p \in Places BY DEF Places
  <2>3. host = [pc |-> p, left |-> 0, ran |-> 0, guard |-> 0, polls |-> 0, start |-> 0, measured |-> -1,
                run |-> -1, rows |-> t, said |-> "none", exit |-> -1]
    BY <2>1 DEF SpikeInit
  <2> HIDE DEF p
  <2>4. 0 \in 0 .. GuardMax /\ 0 \in 0 .. MaxPolls /\ 0 \in Cycles BY <1>2, <1>7
  <2>5. host \in Hosts /\ host.exit = -1 /\ host.run = -1 /\ host.left = 0 /\ host.pc = p
    BY ONLY <2>2, <2>3, <2>4 DEF Hosts
  <2>6. QED BY <2>5 DEF HostOK, p
<1>12. TruthOK /\ truth.at = 0 /\ truth.start = 0 /\ truth.mark = -1
  <2> DEFINE r == [s \in 0 .. Sets - 1 |-> <<>>]
  <2>1. truth = [at |-> 0, start |-> 0, mark |-> -1, again |-> 0, exit |-> -1, recent |-> r]
    BY DEF SpikeInit
  <2> HIDE DEF r
  <2>2. /\ DOMAIN truth = {"at", "start", "mark", "again", "exit", "recent"}
        /\ truth.at = 0 /\ truth.start = 0 /\ truth.mark = -1
    BY ONLY <2>1
  <2>3. QED BY <1>7, <2>2, Zenon DEF TruthOK
<1>13. TypeInv BY <1>1, <1>8, <1>9, <1>10, <1>11, <1>12 DEF TypeInv
<1>14. ReadInv
  <2>1. InPlace(F, 1) BY <1>4, <1>5, Zenon DEF Piece
  <2>2. ~(1 > 2) /\ ~(1 > 3) /\ ~(1 > 1) OBVIOUS
  <2>3. Here = F[1] BY <1>9, Zenon DEF Here, F
  <2>4. Here.do \notin {"read hi2", "again", "mark hi", "mark lo"} BY <2>1, <2>2, <2>3, Zenon DEF InPlace
  <2>5. ~Before("read hi") /\ ~Before("read lo") BY <1>9, <2>2, Zenon DEF Before
  <2>6. dut.lo = truth.at % WordMod /\ mem.cyc0 = truth.start % WordMod
    BY <1>7, <1>9, <1>10, <1>12, Zenon
  <2>7. QED BY <2>4, <2>5, <2>6, Zenon DEF ReadInv
<1>15. MirrorIsNeverBehind BY <1>12 DEF MirrorIsNeverBehind
<1>16. PassInv
  <2>0. -1 # 0 /\ \A x : x = 0 => x # 1 OBVIOUS
  <2>1. host.pc \notin {"exited", "read"} /\ host.exit # 0
    <3>1. host.pc \in {"loop", "wait begin"} BY <1>11, Zenon
    <3>2. host.pc \notin {"exited", "read"} BY ONLY <3>1
    <3>3. QED BY <1>11, <2>0, <3>2, Zenon
  <2>2. scen.driver = "verif_spike_run" => host.pc \notin {"wait begin", "wait end"}
    <3>1. scen.driver = "verif_spike_run" => host.pc = "loop" BY <1>11, Zenon
    <3>2. QED BY ONLY <3>1
  <2>3. mem.tohost.lo # 1 BY <1>10
  <2>4. QED BY <1>11, <2>1, <2>2, <2>3, Zenon DEF PassInv, PassIsExitZero
<1>17. ~(host.run >= 0)
  <2>1. host.run = -1 BY <1>11, Zenon
  <2>2. QED BY ONLY <2>1
<1>18. CaInv
  <2>1. mem.magic # 1 /\ host.pc # "read"
    <3>1. host.pc \in {"loop", "wait begin"} BY <1>11, Zenon
    <3>2. mem.magic = 0 BY <1>10, Zenon
    <3>3. host.pc # "read" BY ONLY <3>1
    <3>4. mem.magic # 1 BY ONLY <3>2
    <3>5. QED BY <3>3, <3>4
  <2>2. ASSUME scen.fw = "ca"
        PROVE  ~(Plan.end < dut.pc) /\ ~(Plan.mark < dut.pc) /\ ~(1 < dut.pc)
    <3>1. /\ Plan.a \in Nat /\ Plan.b \in Nat /\ Plan.c \in Nat /\ Plan.mark \in Nat /\ Plan.end \in Nat
          /\ Plan.a > 1 /\ Plan.a < Plan.b /\ Plan.b < Plan.c /\ Plan.c < Plan.mark /\ Plan.mark < Plan.end
      BY <1>13, <2>2, Planned
    <3>2. QED BY <1>9, <3>1
  <2>3. QED BY <1>10, <1>17, <2>1, <2>2, Zenon DEF CaInv
<1>19. HostSeesTheRun BY <1>17, Zenon DEF HostSeesTheRun
<1>20. QED BY <1>13, <1>14, <1>15, <1>16, <1>18, <1>19 DEF SpikeInv

\* Nothing that the invariant speaks of changes.
LEMMA Stutters == ASSUME SpikeInv, UNCHANGED spikeVars PROVE SpikeInv'
<1>1. /\ scen' = scen /\ tm' = tm /\ dut' = dut /\ mem' = mem /\ host' = host /\ truth' = truth
  BY DEF spikeVars
<1>2. F' = F /\ Here' = Here BY <1>1, Zenon DEF F, Here
<1>3. Plan' = Plan BY <1>2 DEF Plan
<1>4. TypeInv'
  <2>1. TypeInv BY DEF SpikeInv
  <2>2. QED BY <1>1, <1>2, <2>1, Zenon DEF TypeInv, TmOK, DutOK, MemOK, HostOK, TruthOK
<1>5. (Before("read hi")' <=> Before("read hi")) /\ (Before("read lo")' <=> Before("read lo"))
  BY <1>1, <1>2, Zenon DEF Before
<1>6. ReadInv'
  <2>1. ReadInv BY DEF SpikeInv
  <2>2. QED BY <1>1, <1>2, <1>5, <2>1, Zenon DEF ReadInv
<1>7. MirrorIsNeverBehind' /\ HostSeesTheRun'
  <2>1. MirrorIsNeverBehind /\ HostSeesTheRun BY DEF SpikeInv
  <2>2. QED BY <1>1, <2>1, Zenon DEF MirrorIsNeverBehind, HostSeesTheRun
<1>8. PassInv' /\ CaInv'
  <2>1. PassInv /\ CaInv BY DEF SpikeInv
  <2>2. QED BY <1>1, <1>3, <2>1, Zenon DEF PassInv, PassIsExitZero, CaInv
<1>9. QED BY <1>4, <1>6, <1>7, <1>8 DEF SpikeInv

\* The driver's steps, with what each makes of the table.
LEMMA DriverKeeps ==
  ASSUME SpikeInv, MainLoop \/ Idle \/ ca_wait_bp \/ ReadsTable \/ Guard \/ WaitsBegin \/ TriggersIrq \/ WaitsEnd \/ Judges
  PROVE  SpikeInv' /\ dut'.value = dut.value
<1>1. TypeInv /\ PassInv /\ CaInv /\ HostSeesTheRun BY DEF SpikeInv
<1>2. CASE ReadsTable
  <2>1. HostMoves /\ HostSeesTheRun' /\ (host'.run >= 0 => scen.fw = "ca" /\ Plan.end < dut.pc)
    BY <1>2, ReadsTableIsSound
  <2>2. QED BY <2>1, HostKeeps, Zenon DEF HostMoves, HostStep
<1>3. CASE MainLoop \/ Idle \/ ca_wait_bp \/ Guard \/ WaitsBegin \/ TriggersIrq \/ WaitsEnd \/ Judges
  <2>1. host.pc = "read" => mem.bp = "end" BY <1>1, Zenon DEF CaInv
  <2>2. HostMoves /\ RunKept BY <1>1, <1>3, <2>1, HostSteps
  <2>3. host'.run = host.run /\ host'.rows = host.rows BY <2>2 DEF RunKept
  <2>4. truth' = truth BY <2>2 DEF HostMoves, HostStep
  <2>5. HostSeesTheRun' BY <1>1, <2>3, <2>4, Zenon DEF HostSeesTheRun
  <2>6. host'.run >= 0 => scen.fw = "ca" /\ Plan.end < dut.pc BY <1>1, <2>3, Zenon DEF CaInv
  <2>7. QED BY <2>2, <2>5, <2>6, HostKeeps, Zenon DEF HostMoves, HostStep
<1>4. QED BY <1>2, <1>3

\* Every step keeps the invariant, and only what was the count is returned.
LEMMA Keeps ==
  ASSUME SpikeInv, [SpikeNext]_spikeVars
  PROVE  SpikeInv' /\ (dut'.value # dut.value => dut'.value = truth.at)
<1>1. CASE tick
  <2>1. Fine BY <1>1, TickIsFine
  <2>2. QED BY <2>1, FineKeeps DEF Fine
<1>2. CASE MainLoop \/ Idle \/ ca_wait_bp \/ ReadsTable \/ Guard \/ WaitsBegin \/ TriggersIrq \/ WaitsEnd \/ Judges
  BY <1>2, DriverKeeps
<1>3. CASE UNCHANGED spikeVars
  <2>1. dut' = dut BY <1>3 DEF spikeVars
  <2>2. QED BY <1>3, <2>1, Stutters
<1>4. CASE Exited BY <1>3, <1>4 DEF Exited
<1>5. QED BY <1>1, <1>2, <1>3, <1>4 DEF SpikeNext

\* The invariant holds of whatever driver and firmware do together.
THEOREM SpikeInvariant == SpikeSpec => []SpikeInv
<1>1. SpikeInit => SpikeInv BY Starts
<1>2. SpikeInv /\ [SpikeNext]_spikeVars => SpikeInv' BY Keeps
<1>3. QED BY <1>1, <1>2, PTL DEF SpikeSpec

\* The driver reads a complete mirror and table of the firmware's memory
\* (run_vseq of verif_spike.h), and keeps its own bounds.
THEOREM ReadingsHold == SpikeSpec => []ReadingsAreSound
<1>1. SpikeInv => ReadingsAreSound
  <2>1. TypeInv => SpikeTypeOK
    <3>1. SUFFICES ASSUME TypeInv PROVE SpikeTypeOK OBVIOUS
    <3>2. scen \in Scenarios /\ tm.total \in 0 .. CycleMod - 1 /\ dut.pc \in 1 .. Len(Firmware[scen])
      BY <3>1, Zenon DEF TypeInv, TmOK, DutOK, F
    <3>3. dut \in Duts /\ mem \in Mems /\ host \in Hosts BY <3>1, Zenon DEF TypeInv, DutOK, MemOK, HostOK
    <3>4. /\ dut.mie \in {0, 1} /\ dut.mip \in {0, 1} /\ mem.bp \in Breakpoints
          /\ host.guard \in 0 .. GuardMax /\ host.polls \in 0 .. MaxPolls /\ host.exit \in {-1, 0, 1, 3}
      BY ONLY <3>3 DEF Duts, Mems, Hosts
    <3>5. QED BY <3>2, <3>4, Zenon DEF SpikeTypeOK
  <2>2. QED BY <2>1 DEF SpikeInv, ReadingsAreSound
<1>2. QED BY <1>1, SpikeInvariant, PTL

\* verif_spike_run's PASS is an exit(0) of the firmware, whichever half of
\* tohost is stored first (verif_spike_run.cc).
THEOREM PassHolds == SpikeSpec => []PassIsExitZero
<1>1. SpikeInv => PassIsExitZero BY DEF SpikeInv, PassInv
<1>2. QED BY <1>1, SpikeInvariant, PTL

\* What verif_ca_get_cycle returns was the count when it read the low word.
THEOREM ReadHolds == SpikeSpec => CycleReadIsWhole
<1>1. SpikeInv /\ [SpikeNext]_spikeVars => [dut'.value # dut.value => dut'.value = truth.at]_spikeVars
  BY Keeps
<1>2. QED BY <1>1, SpikeInvariant, PTL DEF SpikeSpec, CycleReadIsWhole
=============================================================================
