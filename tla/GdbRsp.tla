------------------------------- MODULE GdbRsp -------------------------------
(***************************************************************************)
(* The GDB remote-protocol server of vp/spike/gdb_rsp.h and the debugger   *)
(* that drives it over a TCP connection.                                   *)
(*                                                                         *)
(* The server is one thread: it reads a packet, handles it, replies, and   *)
(* while a continue runs it steps the target and looks at the socket every *)
(* POLL_EVERY instructions.  The two byte streams are sequences of tokens: *)
(* an ack, a nak, a Ctrl-C (0x03) or a whole packet.  A packet that fails  *)
(* its checksum is one with ok = FALSE.  The target is a program of        *)
(* LAST + 1 instructions that then terminates, or spins.                   *)
(***************************************************************************)
EXTENDS Naturals, Sequences

CONSTANTS
  LAST,           \* the last instruction of the firmware; 0 is its entry
  POLL_EVERY,     \* instructions between two looks at the socket
  Requests,       \* the packets GDB may send, [k : kind, a : address]
  MaxRequests,    \* bound: packets GDB sends
  MaxInterrupts,  \* bound: Ctrl-Cs GDB sends
  MaxGarbled      \* bound: packets and replies that arrive damaged

ASSUME GdbRspConstants ==
  /\ LAST \in Nat
  /\ POLL_EVERY \in Nat \ {0}
  /\ \A r \in Requests :
        /\ r.k \in {"query", "c", "s", "Z", "z", "pc", "M", "reset", "noack",
                    "D", "k"}
        /\ r.a \in 0 .. LAST
  /\ MaxRequests \in Nat /\ MaxInterrupts \in Nat /\ MaxGarbled \in Nat

VARIABLES
  toServer, toGdb,  \* the two directions of the connection
  pc, tohost,       \* the target
  spins,            \* its firmware loops back instead of terminating
  breakpoints,      \* the server's state, from here on
  no_ack,
  exited,
  spc,              \* "recv", "handle", "running", "await_ack" or "ended"
  cur,              \* the request being handled
  steps,            \* do_continue's n, modulo POLL_EVERY
  reply,            \* the reply whose ack is awaited
  replies,          \* replies so far, repeats not counted
  gpc,              \* GDB: "idle", "ack", "reply" or "closed"
  greq,             \* the request GDB sent last
  gnoack,           \* GDB has given up acks
  sent, accepted,   \* GDB's requests sent and replies accepted
  interrupts, garbled

wireVars   == <<toServer, toGdb>>
targetVars == <<pc, tohost, spins>>
serverVars == <<breakpoints, no_ack, exited, spc, cur, steps, reply, replies>>
gdbVars    == <<gpc, greq, gnoack, sent, accepted, interrupts, garbled>>
vars == <<wireVars, targetVars, serverVars, gdbVars>>

Ack == [t |-> "ack"]
Nak == [t |-> "nak"]
CtrlC(n) == [t |-> "intr", run |-> n]   \* tagged with the request it interrupts
Packet(r, good) == [t |-> "pkt", req |-> r, ok |-> good]
Reply(s) == [t |-> "reply", rep |-> s]

NoRequest == [k |-> "query", a |-> 0]

Init ==
  /\ toServer = <<>> /\ toGdb = <<>>
  /\ pc = 0 /\ tohost = 0 /\ spins \in BOOLEAN
  /\ breakpoints = {} /\ no_ack = FALSE /\ exited = FALSE
  /\ spc = "recv" /\ cur = NoRequest /\ steps = 0 /\ reply = "" /\ replies = 0
  /\ gpc = "idle" /\ greq = NoRequest /\ gnoack = FALSE
  /\ sent = 0 /\ accepted = 0 /\ interrupts = 0 /\ garbled = 0

-----------------------------------------------------------------------------
(* recv_packet                                                             *)

FirstIs(t) == toServer # <<>> /\ Head(toServer).t = t

Recv(t) == FirstIs(t) /\ toServer' = Tail(toServer)

\* Slip: a Ctrl-C read while the target is halted is put back for later.
RecvControlKeeps ==
  /\ spc = "recv" /\ toServer # <<>> /\ Head(toServer).t # "pkt"
  /\ toServer' = IF Head(toServer).t = "intr"
                 THEN Append(Tail(toServer), Head(toServer)) ELSE Tail(toServer)
  /\ UNCHANGED <<toGdb, targetVars, serverVars, gdbVars>>

\* Acks and naks are skipped; a Ctrl-C is ignored while the target is halted.
RecvControl ==
  /\ spc = "recv"
  /\ Recv("ack") \/ Recv("nak") \/ Recv("intr")
  /\ UNCHANGED <<toGdb, targetVars, serverVars, gdbVars>>

\* The packet is acknowledged, unless acks are off, before it is handled.
RecvPacket ==
  /\ spc = "recv" /\ Recv("pkt")
  /\ LET p == Head(toServer)
     IN  /\ toGdb' = IF no_ack THEN toGdb
                     ELSE Append(toGdb, IF p.ok THEN Ack ELSE Nak)
         /\ IF p.ok THEN spc' = "handle" /\ cur' = p.req
                    ELSE spc' = "recv" /\ cur' = cur
  /\ UNCHANGED <<targetVars, breakpoints, no_ack, exited, steps, reply, replies,
                 gdbVars>>

\* The connection is found closed, by a recv or by a failing send of the ack.
RecvClosed ==
  /\ spc = "recv" /\ gpc = "closed"
  /\ toServer = <<>> \/ (FirstIs("pkt") /\ ~no_ack)
  /\ spc' = "ended"
  /\ UNCHANGED <<wireVars, targetVars, breakpoints, no_ack, exited, cur, steps,
                 reply, replies, gdbVars>>

-----------------------------------------------------------------------------
(* send_packet                                                             *)

\* Where the server goes once its reply is delivered.
AfterReply == IF cur.k = "D" THEN "ended" ELSE "recv"

\* Send a reply; a closed connection may make the send fail.
SendPacket(s) ==
  \/ /\ toGdb' = Append(toGdb, Reply(s))
     /\ spc' = IF no_ack THEN AfterReply ELSE "await_ack"
     /\ reply' = s /\ replies' = replies + 1
  \/ /\ gpc = "closed"
     /\ spc' = "ended"
     /\ UNCHANGED <<toGdb, reply, replies>>

\* The reply to QStartNoAckMode is itself acknowledged.
AwaitAck ==
  /\ spc = "await_ack" /\ Recv("ack")
  /\ spc' = AfterReply
  /\ no_ack' = (no_ack \/ cur.k = "noack")
  /\ UNCHANGED <<toGdb, targetVars, breakpoints, exited, cur, steps, reply,
                 replies, gdbVars>>

\* Slip: a nak is skipped like any other byte.
AwaitNakSkips ==
  /\ spc = "await_ack" /\ Recv("nak")
  /\ UNCHANGED <<toGdb, targetVars, serverVars, gdbVars>>

\* Slip: a nak has the request handled again, and a new reply sent.
AwaitNakHandles ==
  /\ spc = "await_ack" /\ Recv("nak")
  /\ spc' = "handle"
  /\ UNCHANGED <<toGdb, targetVars, breakpoints, no_ack, exited, cur, steps,
                 reply, replies, gdbVars>>

\* A nak has the reply sent again.
AwaitNak ==
  /\ spc = "await_ack" /\ Recv("nak")
  /\ toGdb' = Append(toGdb, Reply(reply))
  /\ UNCHANGED <<targetVars, serverVars, gdbVars>>

\* Anything else read while an ack is awaited is lost.
AwaitOther ==
  /\ spc = "await_ack" /\ (Recv("intr") \/ Recv("pkt"))
  /\ UNCHANGED <<toGdb, targetVars, serverVars, gdbVars>>

\* The connection closes under the wait: the reply counts as delivered.
AwaitClosed ==
  /\ spc = "await_ack" /\ gpc = "closed" /\ toServer = <<>>
  /\ spc' = AfterReply
  /\ no_ack' = (no_ack \/ cur.k = "noack")
  /\ UNCHANGED <<wireVars, targetVars, breakpoints, exited, cur, steps, reply,
                 replies, gdbVars>>

-----------------------------------------------------------------------------
(* handle_packet                                                           *)

Handling(k) == spc = "handle" /\ cur.k = k

\* Registers, memory, threads, target description: the target is only read.
HandleQuery ==
  /\ Handling("query")
  /\ SendPacket("data")
  /\ UNCHANGED <<toServer, targetVars, breakpoints, no_ack, exited, cur, steps,
                 gdbVars>>

HandleBreakpoint ==
  /\ Handling("Z") \/ Handling("z")
  /\ breakpoints' = IF cur.k = "Z" THEN breakpoints \cup {cur.a}
                                   ELSE breakpoints \ {cur.a}
  /\ SendPacket("OK")
  /\ UNCHANGED <<toServer, targetVars, no_ack, exited, cur, steps, gdbVars>>

\* G and P write the pc, monitor reset sets it to the entry, M may overwrite
\* tohost.
HandleWrite ==
  /\ Handling("pc") \/ Handling("reset") \/ Handling("M")
  /\ pc' = CASE cur.k = "pc" -> cur.a [] cur.k = "reset" -> 0 [] OTHER -> pc
  /\ tohost' = IF cur.k = "M" THEN 0 ELSE tohost
  /\ SendPacket("OK")
  /\ UNCHANGED <<toServer, spins, breakpoints, no_ack, exited, cur, steps,
                 gdbVars>>

\* QStartNoAckMode: OK is sent, and its ack read, in the old mode.
HandleNoAck ==
  /\ Handling("noack")
  /\ SendPacket("OK")
  /\ UNCHANGED <<toServer, targetVars, breakpoints, no_ack, exited, cur, steps,
                 gdbVars>>

HandleDetach ==
  /\ Handling("D")
  /\ SendPacket("OK")
  /\ UNCHANGED <<toServer, targetVars, breakpoints, no_ack, exited, cur, steps,
                 gdbVars>>

HandleKill ==
  /\ Handling("k")
  /\ spc' = "ended"
  /\ UNCHANGED <<wireVars, targetVars, breakpoints, no_ack, exited, cur, steps,
                 reply, replies, gdbVars>>

-----------------------------------------------------------------------------
(* Execution control: c, s and vCont                                       *)

\* One instruction of the target: pc and tohost after it.
StepFn ==
  /\ pc' = IF pc < LAST THEN pc + 1 ELSE IF spins THEN 0 ELSE pc
  /\ tohost' = IF pc = LAST /\ ~spins THEN 1 ELSE tohost
  /\ UNCHANGED spins

\* A terminated firmware is reported again and not run.
ResumeExited ==
  /\ Handling("c") \/ Handling("s")
  /\ exited
  /\ SendPacket("W")
  /\ UNCHANGED <<toServer, targetVars, breakpoints, no_ack, exited, cur, steps,
                 gdbVars>>

DoStep ==
  /\ Handling("s") /\ ~exited
  /\ StepFn
  /\ exited' = (tohost' # 0)
  /\ SendPacket(IF tohost' # 0 THEN "W" ELSE "T05")
  /\ UNCHANGED <<toServer, breakpoints, no_ack, cur, steps, gdbVars>>

DoContinue ==
  /\ Handling("c") /\ ~exited
  /\ spc' = "running" /\ steps' = 0
  /\ UNCHANGED <<wireVars, targetVars, breakpoints, no_ack, exited, cur, reply,
                 replies, gdbVars>>

\* Slip: the loop goes on after the breakpoint is reported.
ContinueStopsNot ==
  /\ spc = "running"
  /\ StepFn
  /\ tohost' # 0 \/ pc' \in breakpoints
  /\ exited' = (tohost' # 0)
  /\ toGdb' = Append(toGdb, Reply("swbreak"))
  /\ replies' = replies + 1
  /\ UNCHANGED <<toServer, breakpoints, no_ack, cur, steps, spc, reply, gdbVars>>

\* One turn of the loop that ends in a reply of its own.
ContinueStops ==
  /\ spc = "running"
  /\ StepFn
  /\ tohost' # 0 \/ pc' \in breakpoints
  /\ exited' = (tohost' # 0)
  /\ SendPacket(IF tohost' # 0 THEN "W" ELSE "swbreak")
  /\ UNCHANGED <<toServer, breakpoints, no_ack, cur, steps, gdbVars>>

\* One turn that does not, and does not look at the socket.
ContinueSteps ==
  /\ spc = "running"
  /\ StepFn
  /\ tohost' = 0 /\ pc' \notin breakpoints
  /\ steps + 1 < POLL_EVERY
  /\ steps' = steps + 1
  /\ UNCHANGED <<wireVars, breakpoints, no_ack, exited, spc, cur, reply, replies,
                 gdbVars>>

\* One turn that polls: check_interrupt takes whatever comes first.  A closed
\* connection reads as no interrupt.
ContinuePolls ==
  /\ spc = "running"
  /\ StepFn
  /\ tohost' = 0 /\ pc' \notin breakpoints
  /\ steps + 1 = POLL_EVERY
  /\ steps' = 0
  /\ toServer' = IF toServer = <<>> THEN toServer ELSE Tail(toServer)
  /\ IF FirstIs("intr")
     THEN SendPacket("T02")
     ELSE UNCHANGED <<toGdb, spc, reply, replies>>
  /\ UNCHANGED <<breakpoints, no_ack, exited, cur, gdbVars>>

-----------------------------------------------------------------------------
(* GDB.                                                                    *)

Resumes(r) == r.k \in {"c", "s"}

GdbSend(r) ==
  /\ gpc = "idle" /\ sent < MaxRequests
  /\ \E good \in BOOLEAN :
       /\ good \/ (~gnoack /\ garbled < MaxGarbled)
       /\ toServer' = Append(toServer, Packet(r, good))
       /\ garbled' = IF good THEN garbled ELSE garbled + 1
  /\ greq' = r /\ sent' = sent + 1
  /\ gpc' = IF ~gnoack THEN "ack" ELSE IF r.k = "k" THEN "closed" ELSE "reply"
  /\ UNCHANGED <<toGdb, targetVars, serverVars, gnoack, accepted, interrupts>>

GdbReadsAck ==
  /\ gpc = "ack" /\ toGdb # <<>> /\ Head(toGdb) \in {Ack, Nak}
  /\ toGdb' = Tail(toGdb)
  /\ IF Head(toGdb) = Ack
     THEN /\ gpc' = IF greq.k = "k" THEN "closed" ELSE "reply"
          /\ UNCHANGED toServer
     ELSE /\ toServer' = Append(toServer, Packet(greq, TRUE))
          /\ UNCHANGED gpc
  /\ UNCHANGED <<targetVars, serverVars, greq, gnoack, sent, accepted,
                 interrupts, garbled>>

GdbReadsReply ==
  /\ gpc = "reply" /\ toGdb # <<>> /\ Head(toGdb).t = "reply"
  /\ toGdb' = Tail(toGdb)
  /\ toServer' = IF gnoack THEN toServer ELSE Append(toServer, Ack)
  /\ gnoack' = (gnoack \/ greq.k = "noack")
  /\ accepted' = accepted + 1
  /\ gpc' = IF greq.k = "D" THEN "closed" ELSE "idle"
  /\ UNCHANGED <<targetVars, serverVars, greq, sent, interrupts, garbled>>

GdbReadsDamagedReply ==
  /\ gpc = "reply" /\ toGdb # <<>> /\ Head(toGdb).t = "reply"
  /\ ~gnoack /\ garbled < MaxGarbled
  /\ toGdb' = Tail(toGdb)
  /\ toServer' = Append(toServer, Nak)
  /\ garbled' = garbled + 1
  /\ UNCHANGED <<targetVars, serverVars, gpc, greq, gnoack, sent, accepted,
                 interrupts>>

\* The user presses Ctrl-C while GDB waits for the target to stop.
GdbInterrupt ==
  /\ gpc = "reply" /\ Resumes(greq) /\ interrupts < MaxInterrupts
  /\ toServer' = Append(toServer, CtrlC(sent))
  /\ interrupts' = interrupts + 1
  /\ UNCHANGED <<toGdb, targetVars, serverVars, gpc, greq, gnoack, sent,
                 accepted, garbled>>

\* GDB quits, or dies, at any time.
GdbClose ==
  /\ gpc # "closed"
  /\ gpc' = "closed"
  /\ UNCHANGED <<wireVars, targetVars, serverVars, greq, gnoack, sent, accepted,
                 interrupts, garbled>>

-----------------------------------------------------------------------------
Server ==
  \/ RecvControl \/ RecvPacket \/ RecvClosed
  \/ AwaitAck \/ AwaitNak \/ AwaitOther \/ AwaitClosed
  \/ HandleQuery \/ HandleBreakpoint \/ HandleWrite \/ HandleNoAck
  \/ HandleDetach \/ HandleKill
  \/ ResumeExited \/ DoStep \/ DoContinue
  \/ ContinueStops \/ ContinueSteps \/ ContinuePolls

GdbReads == GdbReadsAck \/ GdbReadsReply \/ GdbReadsDamagedReply

Next ==
  \/ Server
  \/ GdbReads
  \/ \E r \in Requests : GdbSend(r)
  \/ GdbInterrupt
  \/ GdbClose

Spec == Init /\ [][Next]_vars

\* The server thread runs and GDB reads what arrives; no one need send a
\* request, press Ctrl-C or quit.
FairSpec == Spec /\ WF_vars(Server) /\ WF_vars(GdbReads)

-----------------------------------------------------------------------------
TypeOK ==
  /\ \A i \in DOMAIN toServer :
        toServer[i].t \in {"ack", "nak", "intr", "pkt"}
  /\ \A i \in DOMAIN toGdb : toGdb[i].t \in {"ack", "nak", "reply"}
  /\ pc \in 0 .. LAST /\ tohost \in {0, 1} /\ spins \in BOOLEAN
  /\ breakpoints \subseteq 0 .. LAST
  /\ no_ack \in BOOLEAN /\ exited \in BOOLEAN /\ gnoack \in BOOLEAN
  /\ spc \in {"recv", "handle", "running", "await_ack", "ended"}
  /\ steps \in 0 .. POLL_EVERY - 1
  /\ gpc \in {"idle", "ack", "reply", "closed"}
  /\ replies \in 0 .. MaxRequests /\ accepted \in 0 .. MaxRequests

\* A Ctrl-C never outlives the run it was meant for: one that crosses the stop
\* reply on the wire is swallowed while the target is halted (recv_packet, or
\* send_packet's wait for the ack) and cannot stop the next continue.
InterruptIsFresh ==
  spc = "running" =>
     \A i \in DOMAIN toServer : toServer[i].t = "intr" => toServer[i].run = sent

\* The two ends never disagree on the ack mode: once GDB has stopped
\* acknowledging, the server sends no ack, and an ack is in flight to it exactly
\* while it still awaits the one for the reply that made the switch.
AckModesAgree ==
  gnoack /\ gpc # "closed" =>
     /\ \A i \in DOMAIN toGdb : toGdb[i].t = "reply"
     /\ spc = "await_ack" <=> \E i \in DOMAIN toServer : toServer[i].t = "ack"

\* What holds on both wires at any moment of a session (gdb_rsp.h's recv_packet
\* and send_packet): no stale Ctrl-C, no ack that one end does not expect.
SessionIsSound == TypeOK /\ InterruptIsFresh /\ AckModesAgree

\* The target stands still while GDB believes it does: pc and tohost change only
\* while a request of GDB's is outstanding (or GDB is gone).
TargetHaltsForGdb ==
  [][gpc = "idle" => UNCHANGED targetVars]_vars

L == INSTANCE Lockstep WITH Rounds <- MaxRequests, opened <- sent,
                            answered <- replies, checked <- accepted

\* Every packet GDB sends is answered exactly once, and before the next is
\* sent, whatever is damaged, repeated or interrupted on the way.
RequestsInLockstep == L!Spec

\* With a firmware that terminates, GDB gets its reply: neither side waits for
\* an ack or a packet the other is not going to send.
EveryRequestAnswered ==
  (gpc \in {"ack", "reply"} /\ ~spins) ~> (gpc \in {"idle", "closed"})

\* Ctrl-C stops a continue, even of a firmware that never terminates.
InterruptStops ==
  (spc = "running" /\ \E i \in DOMAIN toServer : toServer[i].t = "intr")
     ~> (spc # "running")

\* When GDB goes away, at whatever moment, the server goes away with it, if the
\* firmware terminates.
SessionEndsWithFirmware == (gpc = "closed" /\ ~spins) ~> (spc = "ended")

\* Nobody is left waiting: a request for its reply, Ctrl-C for the stop, the
\* server for a GDB that is gone (serve, send_packet and do_continue).
SessionProgresses ==
  EveryRequestAnswered /\ InterruptStops /\ SessionEndsWithFirmware

-----------------------------------------------------------------------------
(* The inductive invariant.                                                *)

Texts == {"", "data", "OK", "W", "T05", "swbreak", "T02"}
Down  == [t : {"ack", "nak"}] \cup [t : {"intr"}, run : Nat]
           \cup [t : {"pkt"}, req : Requests \cup {NoRequest}, ok : BOOLEAN]
Up    == [t : {"ack", "nak"}] \cup [t : {"reply"}, rep : Texts]

Has(s, t) == \E i \in DOMAIN s : s[i].t = t

\* Every Ctrl-C on the wire is meant for request n.
Fresh(s, n) == \A i \in DOMAIN s : s[i].t = "intr" => s[i].run = n

\* At most one ack, one nak and one packet; behind the packet only Ctrl-Cs
\* that interrupt it.
Ordered(s, n) ==
  /\ \A i, j \in DOMAIN s : s[i].t = s[j].t /\ s[i].t # "intr" => i = j
  /\ \A i, j \in DOMAIN s :
        i < j /\ s[i].t = "pkt" => s[j].t = "intr" /\ s[j].run = n

\* The packet on the wire is GDB's last request, intact once acks are off.
Carries(s, r, good) ==
  \A i \in DOMAIN s : s[i].t = "pkt" => s[i].req = r /\ (good => s[i].ok)

WireInv ==
  /\ toServer \in Seq(Down) /\ toGdb \in Seq(Up)
  /\ cur \in Requests \cup {NoRequest} /\ greq \in Requests \cup {NoRequest}
  /\ reply \in Texts
  /\ Ordered(toServer, sent)
  /\ gpc # "closed" => Carries(toServer, greq, gnoack)

Serving == spc \in {"handle", "running"}

\* A request is on its way, or with the server, or answered; once.
CountInv ==
  /\ sent \in 0 .. MaxRequests /\ accepted \in Nat /\ replies \in Nat
  /\ accepted <= replies /\ replies <= sent
  /\ Has(toServer, "pkt") => replies < sent /\ ~Serving
  /\ Serving => replies < sent /\ Fresh(toServer, sent)

\* The server is done with every earlier request, but for the ack of its last
\* reply, which is on the wire.
AtRest ==
  /\ ~Has(toServer, "nak") /\ replies = accepted
  /\ \/ spc = "recv" /\ ~Has(toServer, "ack") /\ no_ack = gnoack
     \/ /\ spc = "await_ack" /\ Has(toServer, "ack") /\ ~no_ack
        /\ cur.k # "D" /\ (gnoack <=> cur.k = "noack")

\* What GDB has still to read: the ack of its packet, and n replies.
Unread(n) ==
  /\ Len(toGdb) = IF gpc = "ack" THEN n + 1 ELSE n
  /\ gpc = "ack" => toGdb[1] = Ack
  /\ n = 1 => toGdb[Len(toGdb)].t = "reply"

\* The server has GDB's request, and GDB not yet its reply.
InService ==
  /\ ~Has(toServer, "pkt") /\ ~Has(toServer, "ack")
  /\ no_ack = gnoack /\ cur = greq
  /\ \/ Serving /\ Unread(0) /\ ~Has(toServer, "nak") /\ replies < sent
     \/ /\ spc = "await_ack" /\ ~no_ack /\ replies = sent
        /\ \/ Unread(1) /\ ~Has(toServer, "nak")
           \/ gpc = "reply" /\ Unread(0) /\ Has(toServer, "nak")
     \/ /\ spc = AfterReply /\ no_ack /\ replies = sent
        /\ Unread(1) /\ ~Has(toServer, "nak")
     \/ /\ spc = "ended" /\ cur.k = "k" /\ gpc = "ack"
        /\ Unread(0) /\ ~Has(toServer, "nak")

\* Where the two ends are while the connection is up.
TalkInv ==
  /\ gpc = "idle" =>
        accepted = sent /\ AtRest /\ toGdb = <<>> /\ ~Has(toServer, "pkt")
  /\ gpc = "ack" =>
        /\ ~gnoack /\ accepted + 1 = sent
        /\ \/ AtRest /\ toGdb = <<>> /\ Has(toServer, "pkt")
           \/ /\ AtRest /\ spc = "recv" /\ toGdb = <<Nak>>
              /\ ~Has(toServer, "pkt")
           \/ InService
  /\ gpc = "reply" =>
        /\ accepted + 1 = sent /\ greq.k # "k"
        /\ \/ gnoack /\ AtRest /\ toGdb = <<>> /\ Has(toServer, "pkt")
           \/ InService

IInv == WireInv /\ CountInv /\ TalkInv
=============================================================================
