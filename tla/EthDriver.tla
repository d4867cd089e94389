------------------------------ MODULE EthDriver ------------------------------
(***************************************************************************)
(* Reception and link supervision in the Ethernet driver (hw_poll of       *)
(* mcu/external/enc424j600) and the ENC424J600 chip it serves.             *)
(*                                                                         *)
(* The chip puts packets into a ring buffer.  Addresses are counted in     *)
(* words of two bytes, the unit in which it places them.  The first word   *)
(* of a packet points to the next; the driver follows these pointers       *)
(* (NextPacketPointer), tells the chip with ERXTAIL how far it may write,  *)
(* and with SETPKTDEC that it has taken a packet.  On a change of the link *)
(* the driver sets the chip's MAC to the negotiated duplex mode.           *)
(*                                                                         *)
(* Packets and changes of the link come between any two of the driver's    *)
(* commands.  Transmission is left out: TXevent and TXABTevent only clear  *)
(* txbusy, which nothing reads.                                            *)
(***************************************************************************)
EXTENDS Integers, Sequences

CONSTANTS
  RXBUF_START,  \* first word of the receive buffer
  SRAM_END,     \* first word behind it
  Sizes,        \* sizes of packets in words, pointer and status included
  PKTCNT_MAX,   \* where the chip's packet counter is full
  MaxLost,      \* bound on the packets PCFULevent miscounts
  MaxChanges    \* bound on the changes of the link

ASSUME RingAssumption ==
  /\ RXBUF_START \in Nat \ {0} /\ SRAM_END \in Nat
  /\ RXBUF_START + 2 < SRAM_END
  /\ PKTCNT_MAX \in Nat \ {0, 1, 2}
  /\ \A n \in Sizes : n \in 1..(SRAM_END - RXBUF_START)

Ring == RXBUF_START..(SRAM_END - 1)
LastWord == SRAM_END - 1   \* "just bellow the end of on-chip SRAM"
Links == {"down", "half", "full"}

VARIABLES
  head, tail, pktcnt,   \* the chip's ERXHEAD, ERXTAIL and PKTCNT
  eir,                  \* its flags PCFULIF, RXABTIF, LINKIF
  unread,               \* the packets in the ring, oldest first: [at, size]
  link,                 \* ESTAT: PHYLNK and PHYDPX
  macon2,               \* MACON2, as the set of its bits
  pc, iflags,           \* of hw_poll
  NextPacketPointer, link_status,
  netifUp,              \* lwIP's NETIF_FLAG_LINK_UP
  strayed, spoiled, dropped, \* history: ERXTAIL was outside the ring, the chip
                          \* wrote over an unread packet, PCFULevents
  changes, halved, missed \* history: changes of the link, set_MAC was called
                          \* for half duplex, a change came while LINKevent
                          \* was about to clear its flag

ring    == <<head, tail, pktcnt, unread>>
mac     == <<macon2, link_status, netifUp, halved>>
phy     == <<link, changes, missed>>
rxHist  == <<strayed, spoiled, dropped>>
vars == <<ring, mac, phy, rxHist, eir, pc, iflags, NextPacketPointer>>

-----------------------------------------------------------------------------
(* The MAC. *)

\* Slip: only full duplex is ever set.
OneWayMAC(bits, l) == bits \cup {"FULDPX"}

\* set_MAC.  In "aux[0] &= !FULDPX" the logical negation is zero: for half
\* duplex all bits go.
set_MAC(bits, l) == IF l = "full" THEN bits \cup {"FULDPX"} ELSE {}

\* What hw_init leaves in MACON2.
Configured == {"PADCFG", "TXCRCEN"}

\* Slip: ERXHEAD keeps what it had before.
LeftoverInit ==
  /\ head = LastWord /\ NextPacketPointer = RXBUF_START /\ tail = LastWord
  /\ pktcnt = 0 /\ eir = {} /\ unread = <<>> /\ pc = "idle" /\ iflags = {}
  /\ link = "down" /\ link_status = FALSE /\ netifUp = FALSE
  /\ macon2 = Configured
  /\ strayed = FALSE /\ spoiled = FALSE /\ dropped = 0
  /\ changes = 0 /\ halved = FALSE /\ missed = FALSE

\* hw_init and enc424j600_spi_start, with the chip's counter drained.
Init ==
  /\ head = RXBUF_START /\ NextPacketPointer = RXBUF_START
  /\ tail = LastWord
  /\ pktcnt = 0 /\ eir = {} /\ unread = <<>>
  /\ pc = "idle" /\ iflags = {}
  /\ link \in Links /\ link_status = (link # "down") /\ netifUp = FALSE
  /\ macon2 = IF link_status THEN set_MAC(Configured, link) ELSE Configured
  /\ halved = (link = "half")
  /\ strayed = FALSE /\ spoiled = FALSE /\ dropped = 0
  /\ changes = 0 /\ missed = FALSE

-----------------------------------------------------------------------------
(* The chip. *)

Wrap(a) == IF a >= SRAM_END THEN a - (SRAM_END - RXBUF_START) ELSE a
Words(at, n) == {Wrap(at + i) : i \in 0..(n - 1)}
Unread == UNION {Words(unread[i].at, unread[i].size) : i \in DOMAIN unread}

\* The chip writes up to the word ERXTAIL points to, and no packet more than
\* its counter can count.
Fits(n) == pktcnt < PKTCNT_MAX /\ tail \notin Words(head, n)

Arrive(n) ==
  /\ pktcnt + 1 = PKTCNT_MAX => dropped < MaxLost
  /\ IF Fits(n)
       THEN /\ unread' = Append(unread, [at |-> head, size |-> n])
            /\ head' = Wrap(head + n)
            /\ pktcnt' = pktcnt + 1
            /\ eir' = IF pktcnt' = PKTCNT_MAX THEN eir \cup {"PCFUL"} ELSE eir
            /\ spoiled' = (spoiled \/ Words(head, n) \cap Unread # {})
       ELSE /\ eir' = eir \cup {"RXABT"}
            /\ UNCHANGED <<unread, head, pktcnt, spoiled>>
  /\ UNCHANGED <<tail, mac, phy, strayed, dropped, pc, iflags, NextPacketPointer>>

SETPKTDEC == pktcnt' = IF pktcnt = 0 THEN 0 ELSE pktcnt - 1

\* A cable is plugged or pulled, or the other side negotiates anew.
ChangeLink(l) ==
  /\ changes < MaxChanges /\ l # link
  /\ link' = l
  /\ changes' = changes + 1
  /\ missed' = (missed \/ pc = "clear")
  /\ eir' = eir \cup {"LINK"}
  /\ UNCHANGED <<ring, mac, rxHist, pc, iflags, NextPacketPointer>>

-----------------------------------------------------------------------------
(* hw_poll. *)

PKTIF == IF pktcnt > 0 THEN {"PKT"} ELSE {}

\* EIR is read on entry and again until it has no flag.
ReadFlags ==
  /\ pc \in {"idle", "loop"}
  /\ iflags' = PKTIF \cup eir
  /\ pc = "idle" => iflags' # {}
  /\ pc' = IF iflags' = {} THEN "idle" ELSE "rx"
  /\ UNCHANGED <<ring, mac, phy, rxHist, eir, NextPacketPointer>>

\* RXevent: the packet counter is read once more; the packet's first word
\* is the new NextPacketPointer.  Of a packet that was written over anything
\* may be read.
RXevent ==
  /\ pc = "rx"
  /\ IF "PKT" \in iflags /\ pktcnt # 0
       THEN /\ pc' = "tail"
            /\ IF unread # <<>> /\ unread[1].at = NextPacketPointer /\ ~spoiled
                 THEN NextPacketPointer' = Wrap(unread[1].at + unread[1].size)
                 ELSE NextPacketPointer' \in Ring
       ELSE pc' = "link" /\ UNCHANGED NextPacketPointer
  /\ UNCHANGED <<ring, mac, phy, rxHist, eir, iflags>>

\* Slip: the tail is two bytes on instead of back.
TailBeyond(next) ==
  IF next + 1 = SRAM_END THEN RXBUF_START ELSE next + 1

\* recv: two bytes before the next packet, "wrap over".
TailFor(next) ==
  IF next - 1 = RXBUF_START THEN LastWord ELSE next - 1

\* recv, once the packet has been copied into a pbuf.
SetTail ==
  /\ pc = "tail"
  /\ tail' = TailFor(NextPacketPointer)
  /\ strayed' = (strayed \/ tail' \notin Ring)
  /\ unread' = IF unread = <<>> THEN <<>> ELSE Tail(unread)
  /\ pc' = "dec"
  /\ UNCHANGED <<head, pktcnt, mac, phy, spoiled, dropped, eir, iflags,
                 NextPacketPointer>>

\* Slip: the packet stays counted when others are waiting.
ForgetfulCount ==
  /\ pc = "dec"
  /\ IF pktcnt > 1 THEN UNCHANGED pktcnt ELSE SETPKTDEC
  /\ pc' = "link"
  /\ UNCHANGED <<head, tail, unread, mac, phy, rxHist, eir, iflags,
                 NextPacketPointer>>

\* recv counts the packet and hands it to lwIP.
Count ==
  /\ pc = "dec"
  /\ SETPKTDEC
  /\ pc' = "link"
  /\ UNCHANGED <<head, tail, unread, mac, phy, rxHist, eir, iflags,
                 NextPacketPointer>>

\* LINKevent reads ESTAT and acts on it ...
LINKevent ==
  /\ pc = "link"
  /\ IF "LINK" \in iflags
       THEN /\ link_status' = (link # "down")
            /\ netifUp' = link_status'
            /\ macon2' = IF link_status' THEN set_MAC(macon2, link) ELSE macon2
            /\ halved' = (halved \/ link = "half")
            /\ missed' = FALSE
            /\ pc' = "clear"
       ELSE pc' = "pcful" /\ UNCHANGED <<mac, missed>>
  /\ UNCHANGED <<ring, link, changes, rxHist, eir, iflags, NextPacketPointer>>

\* ... and then clears LINKIF.
ClearLink ==
  /\ pc = "clear"
  /\ eir' = eir \ {"LINK"}
  /\ pc' = "pcful"
  /\ UNCHANGED <<ring, mac, phy, rxHist, iflags, NextPacketPointer>>

\* Slip: the flag is never cleared.
StickyPCFULevent ==
  /\ pc = "pcful"
  /\ pc' = "rxabt"
  /\ UNCHANGED <<ring, mac, phy, rxHist, eir, iflags, NextPacketPointer>>

\* PCFULevent counts down once more and clears its flag.
PCFULevent ==
  /\ pc = "pcful"
  /\ IF "PCFUL" \in iflags
       THEN /\ SETPKTDEC
            /\ eir' = eir \ {"PCFUL"}
            /\ dropped' = dropped + 1
       ELSE UNCHANGED <<pktcnt, eir, dropped>>
  /\ pc' = "rxabt"
  /\ UNCHANGED <<head, tail, unread, mac, phy, strayed, spoiled, iflags,
                 NextPacketPointer>>

RXABTevent ==
  /\ pc = "rxabt"
  /\ eir' = IF "RXABT" \in iflags THEN eir \ {"RXABT"} ELSE eir
  /\ pc' = "loop"
  /\ UNCHANGED <<ring, mac, phy, rxHist, iflags, NextPacketPointer>>

hw_poll == \/ ReadFlags \/ RXevent \/ SetTail \/ Count
           \/ LINKevent \/ ClearLink \/ PCFULevent \/ RXABTevent

Next == \/ hw_poll
        \/ \E n \in Sizes : Arrive(n)
        \/ \E l \in Links : ChangeLink(l)

Spec == Init /\ [][Next]_vars

\* The GPIO handler runs hw_poll when the chip raises a flag.  (How the event
\* may get lost on the way is in module Preamp.)
FairSpec == Spec /\ WF_vars(hw_poll)

-----------------------------------------------------------------------------
\* As long as recv has kept ERXTAIL inside the ring, the chip has written over
\* no packet that hw_poll has not read.  (recv compares after subtracting: when
\* the next packet is at RXBUF_START the tail lands before the ring.)
UnreadKept == spoiled => strayed

\* ... and NextPacketPointer is where the oldest unread packet begins, or
\* where the chip will put the next one: the driver never loses its place.
KeepsPlace ==
  ~strayed /\ pc # "tail" =>
    NextPacketPointer = IF unread = <<>> THEN head ELSE unread[1].at

\* The chip counts the packets the driver has yet to read and the one it is
\* just counting off, less one for every PCFULevent, which counts down without
\* taking a packet.
CountsAll ==
  ~strayed =>
    pktcnt + dropped = Len(unread) + (IF pc = "dec" THEN 1 ELSE 0)

\* When hw_poll is at rest the driver, the MAC and lwIP know the link as it is:
\* duplex modes agree, padding and CRC are still switched on unless a half
\* duplex link has ever cleared them, and lwIP takes no dead link for alive;
\* unless the link changed just before LINKevent cleared the flag.
LinkFollowed ==
  pc = "idle" /\ "LINK" \notin eir /\ ~missed =>
    /\ link_status <=> link # "down"
    /\ link_status => (link = "full" <=> "FULDPX" \in macon2)
    /\ halved \/ Configured \subseteq macon2
    /\ netifUp => link # "down"

\* When traffic pauses, hw_poll comes to rest with every packet taken except as
\* many as PCFULevent counted off.
DrainsRing ==
  <>[][\A n \in Sizes : ~Arrive(n)]_vars =>
    <>[](pc = "idle" /\ (Len(unread) <= dropped \/ strayed))
=============================================================================
