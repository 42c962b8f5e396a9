-------------------------------- MODULE Srtp --------------------------------
(***************************************************************************)
(* An SRTP context pair of asterisk-sip/src/srtp.rs: one peer protects RTP *)
(* and RTCP packets, the other unprotects what the network delivers, in    *)
(* any order, any number of times or never, and possibly corrupted.        *)
(*                                                                         *)
(* RTP carries only the low half of a packet's index, its sequence number; *)
(* both sides estimate the high half, the rollover counter (ROC), from the *)
(* numbers they have seen.  RTCP carries its whole index.  Encryption is   *)
(* modelled by what the key stream and the tag depend on: the session key  *)
(* and the index.  The two backends, PureRustSrtp and AeadGcmSrtp, run the *)
(* same index code and differ in their session keys.  One SSRC is sent.    *)
(***************************************************************************)
EXTENDS Naturals, Sequences, FiniteSets

CONSTANTS
  Backend,   \* "PureRustSrtp" or "AeadGcmSrtp" (create_srtp_crypto)
  SeqMod,    \* RTP sequence numbers, 2^16 in the code
  RocMod,    \* rollover counters, 2^32
  RtcpMod,   \* SRTCP indices, 2^31
  Window,    \* width of the replay bitmap, 128
  Starts,    \* first RTP sequence numbers of a session
  MaxRtp,    \* bound: RTP packets protected
  MaxRtcp    \* bound: RTCP packets protected

ASSUME SrtpConstants ==
  /\ Backend \in {"PureRustSrtp", "AeadGcmSrtp"}
  /\ {SeqMod, RocMod, RtcpMod, Window} \subseteq Nat \ {0}
  /\ Starts \subseteq 0 .. SeqMod - 1
  /\ MaxRtp \in Nat /\ MaxRtcp \in Nat

\* A session ends before its indices wrap: 2^48 RTP and 2^31 RTCP packets.
ASSUME SrtpLifetime ==
  /\ SeqMod >= 4
  /\ MaxRtp + SeqMod <= SeqMod * RocMod
  /\ MaxRtcp <= RtcpMod

VARIABLES
  tx,      \* the protecting context: its ROC estimate
  rx,      \* the unprotecting context: its ROC estimate
  window,  \* rx's replay windows, replay_window and srtcp_replay_window
  next,    \* the sequence number of the next RTP packet
  first,   \* the sequence number the session started with
  sent,    \* the packets protected so far, RTP and RTCP
  got      \* history: how often each of them was accepted

srtpVars == <<tx, rx, window, next, first, sent, got>>

-----------------------------------------------------------------------------
Seqs == 0 .. SeqMod - 1
Rocs == 0 .. RocMod - 1
Stream == {"rtp", "rtcp"}
Bound == [k \in Stream |-> IF k = "rtp" THEN MaxRtp ELSE MaxRtcp]

\* ReplayWindow; bit d of the bitmap stands for the index highest - d.
NewWindow == [highest |-> 0, bitmap |-> {}, initialized |-> FALSE]

\* Mutant: the window forgets how wide it is.
check_wide(w, i) ==
  \/ ~ w.initialized
  \/ i > w.highest
  \/ w.highest - i \notin w.bitmap

\* ReplayWindow::check
check(w, i) ==
  \/ ~ w.initialized
  \/ i > w.highest
  \/ w.highest - i < Window /\ w.highest - i \notin w.bitmap

\* ReplayWindow::update
update(w, i) ==
  IF ~ w.initialized
  THEN [highest |-> i, bitmap |-> {0}, initialized |-> TRUE]
  ELSE IF i > w.highest
  THEN [w EXCEPT !.highest = i,
                 !.bitmap = {0} \cup
                    {d \in 1 .. Window - 1 :
                       d >= i - w.highest /\ d - (i - w.highest) \in @}]
  ELSE [w EXCEPT !.bitmap = @ \cup ({w.highest - i} \cap 0 .. Window - 1)]

\* PureRustSrtp::new, AeadGcmSrtp::new
NewContext == [roc |-> 0, last_seq |-> 0, seq_initialized |-> FALSE]

\* seq.wrapping_sub(last_seq): how far seq is ahead, modulo the wrap.
Ahead(c, seq) == (seq + SeqMod - c.last_seq) % SeqMod

\* Mutant: a number below the last one is always a reordered packet.
estimate_no_wrap(c, seq) ==
  IF Ahead(c, seq) >= SeqMod \div 2 /\ seq > c.last_seq
  THEN (c.roc + RocMod - 1) % RocMod ELSE c.roc

\* estimate_roc_standard: as a signed number, a distance of half the range
\* or more is negative.
estimate_roc_standard(c, seq) ==
  LET ahead == Ahead(c, seq)
  IN IF 0 < ahead /\ ahead < SeqMod \div 2 /\ seq < c.last_seq
     THEN (c.roc + 1) % RocMod
     ELSE IF ahead >= SeqMod \div 2 /\ seq > c.last_seq
     THEN (c.roc + RocMod - 1) % RocMod
     ELSE c.roc

\* estimate_packet_index: the ROC, and the index it makes of seq.
estimated_roc(c, seq) ==
  IF c.seq_initialized THEN estimate_roc_standard(c, seq) ELSE 0
Index(roc, seq) == roc * SeqMod + seq

\* Mutant: only a larger sequence number moves the context on.
update_roc_same(c, seq, roc) ==
  IF ~ c.seq_initialized
  THEN [roc |-> 0, last_seq |-> seq, seq_initialized |-> TRUE]
  ELSE IF seq > c.last_seq
  THEN [c EXCEPT !.roc = roc, !.last_seq = seq] ELSE c

\* update_roc: only a packet ahead of every earlier one moves the context.
update_roc(c, seq, roc) ==
  IF ~ c.seq_initialized
  THEN [roc |-> 0, last_seq |-> seq, seq_initialized |-> TRUE]
  ELSE IF roc > c.roc \/ (roc = c.roc /\ seq > c.last_seq)
  THEN [c EXCEPT !.roc = roc, !.last_seq = seq] ELSE c

\* A packet in flight: what its tag and key stream were made from.  An RTCP
\* packet carries its index, so its seq is the index and its roc is 0.
Packet == [seq: Nat, roc: Nat]

\* The index the receiver works with, and the one the tag proves.
IndexOf(k, p) == IF k = "rtp" THEN Index(p.roc, p.seq) ELSE p.seq

\* Mutant: the label of the key derivation is the same for both streams.
SessionKeyUnlabelled(k) == "master"

\* DerivedKeys::derive makes a key and a salt for each stream, under labels
\* of their own; AeadGcmSrtp::new takes the master key and salt for both.
SessionKey(k) == IF Backend = "PureRustSrtp" THEN k ELSE "master"

\* The counter block of aes_cm_encrypt_decrypt, the IV of construct_rtp_iv
\* and construct_rtcp_iv: a function of the salt, the SSRC and the index.
Keystream(k, p) == <<SessionKey(k), IndexOf(k, p)>>

SrtpInit ==
  /\ tx = NewContext
  /\ rx = NewContext
  /\ window = [k \in Stream |-> NewWindow]
  /\ first \in Starts
  /\ next = first
  /\ sent = [k \in Stream |-> <<>>]
  /\ got = [k \in Stream |-> [n \in 1 .. Bound[k] |-> 0]]

-----------------------------------------------------------------------------
\* protect_rtp: estimate the index of the next number, encrypt and sign
\* under it, move on.
protect_rtp ==
  LET roc == estimated_roc(tx, next)
  IN /\ Len(sent["rtp"]) < MaxRtp
     /\ sent' = [sent EXCEPT !["rtp"] = Append(@, [seq |-> next, roc |-> roc])]
     /\ tx' = update_roc(tx, next, roc)
     /\ next' = (next + 1) % SeqMod
     /\ UNCHANGED <<rx, window, first, got>>

\* protect_rtcp: srtcp_index is the number of packets so far, 31 bits wide.
protect_rtcp ==
  /\ Len(sent["rtcp"]) < MaxRtcp
  /\ sent' = [sent EXCEPT !["rtcp"] =
                Append(@, [seq |-> Len(@) % RtcpMod, roc |-> 0])]
  /\ UNCHANGED <<tx, rx, window, next, first, got>>

\* An RTP datagram whose tag verifies under no ROC: damaged on the way, but
\* with a header that still lies within the packet.
Damaged == [seq: Seqs, roc: {RocMod}]

\* The receiver's verdict: the replay check, then the tag, both under the
\* estimated index.
AcceptsRtp(p) ==
  LET roc == estimated_roc(rx, p.seq)
  IN check(window["rtp"], Index(roc, p.seq)) /\ p.roc = roc
AcceptsRtcp(p) == check(window["rtcp"], p.seq)

\* Mutant: the window is updated before the tag is verified.
unprotect_rtp_early(p, n) ==
  LET i == Index(estimated_roc(rx, p.seq), p.seq)
  IN /\ check(window["rtp"], i)
     /\ window' = [window EXCEPT !["rtp"] = update(@, i)]
     /\ IF AcceptsRtp(p)
        THEN /\ rx' = update_roc(rx, p.seq, p.roc)
             /\ got' = [got EXCEPT !["rtp"][n] = @ + 1]
        ELSE UNCHANGED <<rx, got>>
     /\ UNCHANGED <<tx, next, first, sent>>

\* unprotect_rtp of packet p, the n-th sent or a damaged one: a packet that
\* fails the replay check or the tag leaves the context as it was.
unprotect_rtp(p, n) ==
  IF AcceptsRtp(p)
  THEN /\ window' = [window EXCEPT !["rtp"] = update(@, Index(p.roc, p.seq))]
       /\ rx' = update_roc(rx, p.seq, p.roc)
       /\ got' = [got EXCEPT !["rtp"][n] = @ + 1]
       /\ UNCHANGED <<tx, next, first, sent>>
  ELSE UNCHANGED srtpVars

\* unprotect_rtcp; its tag covers the index it carries.
unprotect_rtcp(p, n) ==
  IF AcceptsRtcp(p)
  THEN /\ window' = [window EXCEPT !["rtcp"] = update(@, p.seq)]
       /\ got' = [got EXCEPT !["rtcp"][n] = @ + 1]
       /\ UNCHANGED <<tx, rx, next, first, sent>>
  ELSE UNCHANGED srtpVars

SrtpNext ==
  \/ protect_rtp
  \/ protect_rtcp
  \/ \E n \in 1 .. Len(sent["rtp"]) : unprotect_rtp(sent["rtp"][n], n)
  \/ \E p \in Damaged : unprotect_rtp(p, 0)
  \/ \E n \in 1 .. Len(sent["rtcp"]) : unprotect_rtcp(sent["rtcp"][n], n)

SrtpSpec == SrtpInit /\ [][SrtpNext]_srtpVars

-----------------------------------------------------------------------------
(* Properties                                                               *)

SrtpTypeOK ==
  /\ tx \in [roc: Rocs, last_seq: Seqs, seq_initialized: BOOLEAN]
  /\ rx \in [roc: Rocs, last_seq: Seqs, seq_initialized: BOOLEAN]
  /\ window \in [Stream -> [highest: Nat, bitmap: SUBSET (0 .. Window - 1),
                            initialized: BOOLEAN]]
  /\ next \in Seqs
  /\ first \in Seqs
  /\ sent \in [Stream -> Seq(Packet)]
  /\ \A k \in Stream : Len(sent[k]) <= Bound[k]
  /\ \A k \in Stream : got[k] \in [1 .. Bound[k] -> Nat]

\* However the network duplicates and reorders, no packet is accepted twice
\* (ReplayWindow behind estimate_packet_index).
AcceptedOnce ==
  \A k \in Stream : \A n \in 1 .. Bound[k] : got[k][n] <= 1

\* Within each stream no two packets are protected under the same index,
\* across any number of sequence wraps (protect_rtp, protect_rtcp, update_roc).
IndexFresh ==
  \A k \in Stream : \A m, n \in 1 .. Len(sent[k]) :
    m # n => IndexOf(k, sent[k][m]) # IndexOf(k, sent[k][n])

\* No two packets, of one stream or of the two, are encrypted with the same
\* key stream (protect_rtp, protect_rtcp, update_roc, DerivedKeys::derive).
\* It is a property of PureRustSrtp only.
KeystreamFresh ==
  \A k, l \in Stream : \A m \in 1 .. Len(sent[k]), n \in 1 .. Len(sent[l]) :
    <<k, m>> # <<l, n>> => Keystream(k, sent[k][m]) # Keystream(l, sent[l][n])

\* The position of RTP packet n in the stream, as the sender counts, and the
\* newest position accepted.
Position(n) == first + n - 1
Newest(h) ==
  got["rtp"][h] > 0 /\ \A m \in h + 1 .. MaxRtp : got["rtp"][m] = 0

\* A packet that arrives in time is never refused: once the receiver is in
\* step, a first copy that is within the replay window and within half the
\* sequence range of the newest packet is accepted, whatever was lost,
\* reordered or damaged before (check, estimate_roc_standard, update_roc).
InTimeIsAccepted ==
  \A h \in 1 .. Len(sent["rtp"]) : Newest(h) =>
    \A n \in 1 .. Len(sent["rtp"]) :
      /\ got["rtp"][n] = 0
      /\ Position(h) < Position(n) + Window
      /\ Position(n) < Position(h) + SeqMod \div 2
      /\ Position(h) <= Position(n) + SeqMod \div 2
      => AcceptsRtp(sent["rtp"][n])
=============================================================================
