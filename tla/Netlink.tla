------------------------------ MODULE Netlink ------------------------------
(***************************************************************************)
(* The RTNETLINK client (net/netlink.cpp) and the state it changes in the  *)
(* kernel.  The kernel handles a request inside send() and queues one      *)
(* acknowledgement for it on the socket.  The prefixes it is given are the *)
(* configuration's.                                                        *)
(***************************************************************************)
EXTENDS Config

VARIABLES
  kernel,        \* link of the TUN device, its address, routes by prefix
  acks,          \* acknowledgements queued on the socket, oldest first
  g_stop         \* set by on_signal()

Errno == {"ok", "EEXIST", "EPERM", "EINTR", "ENOBUFS", "message_size",
          "protocol_error"}

Mtus == {1280, 1500}     \* configure()'s and the kernel's own

Kernel == [mtu : Mtus, link : {"down", "up"}, addr : SUBSET Cidrs,
           route : [Cidrs -> {"none", "other", "tun"}]]

-----------------------------------------------------------------------------
(* The size of a message *)

kScratch == 4096
Align(n) == ((n + 3) \div 4) * 4

\* nla_put(): the length of the message with one more attribute, or -1.
nla_put(len, n) ==
  IF len < 0 \/ Align(len) + 4 + n > kScratch THEN -1 ELSE Align(len) + 4 + n

\* The message of a request: its header and, for IPv6 at most, 16 bytes of
\* address in each attribute.
MessageLen(op, alen) ==
  IF op = "link_up" THEN 32
  ELSE IF op = "set_mtu" THEN nla_put(32, 4)
  ELSE IF op = "add_addr" THEN nla_put(nla_put(24, alen), alen)
  ELSE nla_put(nla_put(28, alen), 4)

Fits(op) == \A alen \in {4, 16} : MessageLen(op, alen) >= 0

-----------------------------------------------------------------------------
(* The kernel, as the code uses it *)

KernelAnswers(op, c) ==
  {"ok", "EPERM"}
  \cup IF op = "add_route" /\ kernel.route[c] # "none" THEN {"EEXIST"} ELSE {}

Done(op, c) ==
  IF op = "set_mtu" THEN [kernel EXCEPT !.mtu = 1280]
  ELSE IF op = "link_up" THEN [kernel EXCEPT !.link = "up"]
  ELSE IF op = "add_addr" THEN [kernel EXCEPT !.addr = @ \cup {c}]
  ELSE [kernel EXCEPT !.route[c] = "tun"]

\* Client::talk().  The answer is whatever acknowledgement is first in the
\* queue; its sequence number is not compared.  recv() fails without an answer
\* when a signal interrupts it (the handlers are installed without SA_RESTART),
\* which leaves the acknowledgement queued, or when the queue overran, which
\* lost it; what it received may not be an acknowledgement at all.
NotSent(op, res) ==
  /\ res = IF Fits(op) THEN "EPERM" ELSE "message_size"
  /\ UNCHANGED <<kernel, acks, g_stop>>

Sent(op, c, answer) ==
  /\ Fits(op)
  /\ answer \in KernelAnswers(op, c)
  /\ kernel' = IF answer = "ok" THEN Done(op, c) ELSE kernel

Interrupted(res, answer) ==
  res = "EINTR" /\ acks' = Append(acks, answer) /\ g_stop' = TRUE

Overrun(res) ==
  res = "ENOBUFS" /\ UNCHANGED <<acks, g_stop>>

Received(res, answer) ==
  LET q == Append(acks, answer)
  IN res = Head(q) /\ acks' = Tail(q) /\ UNCHANGED g_stop

NotAnAck(res, answer) ==
  res = "protocol_error" /\ acks' = Tail(Append(acks, answer)) /\ UNCHANGED g_stop

talk(op, c, res) ==
  \/ NotSent(op, res)
  \/ \E answer \in Errno :
       /\ Sent(op, c, answer)
       /\ \/ Interrupted(res, answer) \/ Overrun(res)
          \/ Received(res, answer) \/ NotAnAck(res, answer)
=============================================================================
