------------------------------- MODULE Frames -------------------------------
(***************************************************************************)
(* The frames of a bet and of the negotiation before it, byte layout and   *)
(* decoding (src/src/messages.rs, and the control messages of              *)
(* src/src/agent.rs).  Nothing on the wire says which codec a frame        *)
(* belongs to, and the tags 1, 2 and 3 are used by both.                   *)
(*                                                                         *)
(* A frame is a sequence of parts with their true widths; what a part says *)
(* is abstracted to the field it was written from.  A reader is given any  *)
(* frame, whole, cut short at any byte or with a byte too many, and reads  *)
(* it by positions.  A field read where no part of its width begins is     *)
(* junk, which the model lets pass as valid, and a junk length covers the  *)
(* rest of the frame.                                                      *)
(***************************************************************************)
EXTENDS Naturals, Sequences, SequencesExt

\* The lengths considered for a field of variable length.  They are meant to be
\* below 2^32, where the u32 that `put_lp` writes is the length itself; no frame
\* comes near it: the receiving node buffers no more than 4 MiB.
CONSTANT Lengths

ASSUME FramesAssumption == Lengths \subseteq Nat

VARIABLES
    kind,       \* the message that was encoded
    frame,      \* its parts
    len,        \* the bytes that arrived
    reader,     \* the decoder at work
    pos,        \* Reader.pos
    fields,     \* what it has read, in its order
    status      \* "reading", "decoded" or "refused"

vars == <<kind, frame, len, reader, pos, fields, status>>

----------------------------------------------------------------------------
(* Messages: the tag, the fields in the order encode puts them, and in the *)
(* order decode takes them.                                                *)

Message(tag, puts, takes) == [tag |-> tag, puts |-> puts, takes |-> takes]

AliceOpen == Message(1, <<"a1", "a2", "thimble_poks">>, <<"a1", "a2", "thimble_poks">>)

\* Mutant: two nonces change places in decode.
BobCommitSwapped ==
    Message(2, <<"k", "pi_r", "refund_nonce", "settle_nonce", "coop_nonce">>,
               <<"k", "pi_r", "settle_nonce", "refund_nonce", "coop_nonce">>)

BobCommit ==
    Message(2, <<"k", "pi_r", "refund_nonce", "settle_nonce", "coop_nonce">>,
               <<"k", "pi_r", "refund_nonce", "settle_nonce", "coop_nonce">>)

AliceReveal ==
    Message(3, <<"refund_nonce", "settle_nonce", "ctxt", "d_point", "pi_a",
                 "refund_partial", "settle_partial", "coop_nonce">>,
               <<"refund_nonce", "settle_nonce", "ctxt", "d_point", "pi_a",
                 "refund_partial", "settle_partial", "coop_nonce">>)

BobAuth ==
    Message(4, <<"refund_partial", "settle_partial">>, <<"refund_partial", "settle_partial">>)

FundOpen ==
    Message(5, <<"p_a", "input", "amount", "alice_payout">>,
               <<"p_a", "input", "amount", "alice_payout">>)

FundReply ==
    Message(6, <<"p_b", "input", "amount", "change", "bob_payout", "psbt">>,
               <<"p_b", "input", "amount", "change", "bob_payout", "psbt">>)

FundFinal == Message(7, <<"psbt">>, <<"psbt">>)

CoopReveal ==
    Message(8, <<"settle_sig", "coop_tx", "alice_partial">>,
               <<"settle_sig", "coop_tx", "alice_partial">>)

FundSign == Message(11, <<"psbt">>, <<"psbt">>)

ProposeTerms ==
    Message(1, <<"stake_sats", "fee_sats", "refund_locktime", "alice_timeout", "scheme">>,
               <<"stake_sats", "fee_sats", "refund_locktime", "alice_timeout", "scheme">>)

HELLO == Message(0, <<>>, <<>>)

ACCEPT == Message(2, <<>>, <<>>)

REJECT == Message(3, <<>>, <<>>)

Flights ==
    [AliceOpen |-> AliceOpen, BobCommit |-> BobCommit, AliceReveal |-> AliceReveal,
     BobAuth |-> BobAuth, FundOpen |-> FundOpen, FundReply |-> FundReply,
     FundSign |-> FundSign, FundFinal |-> FundFinal, CoopReveal |-> CoopReveal]

Controls ==
    [ProposeTerms |-> ProposeTerms, HELLO |-> HELLO, ACCEPT |-> ACCEPT, REJECT |-> REJECT]

Codec ==
    [m \in DOMAIN Flights \union DOMAIN Controls |->
        IF m \in DOMAIN Flights THEN Flights[m] ELSE Controls[m]]

\* The fields by their types.
Points == {"a1", "a2", "k", "d_point", "p_a", "p_b"}
Nonces == {"refund_nonce", "settle_nonce", "coop_nonce"}
Scalars == {"ctxt", "refund_partial", "settle_partial", "alice_partial"}
Variable ==
    {"thimble_poks", "pi_r", "pi_a", "settle_sig", "coop_tx",
     "alice_payout", "change", "bob_payout", "psbt"}
Fixed ==
    Points \union Nonces \union Scalars
        \union {"input", "amount", "stake_sats", "fee_sats", "refund_locktime",
                "alice_timeout", "scheme"}

\* put_point, put_nonce, put_scalar, put_partial, put_outpoint and the
\* little-endian integers.
Width(field) ==
    CASE field \in Points -> 33
      [] field \in Nonces -> 66
      [] field \in Scalars -> 32
      [] field = "input" -> 36
      [] field \in {"amount", "stake_sats", "fee_sats"} -> 8
      [] field = "refund_locktime" -> 4
      [] field = "alice_timeout" -> 2
      [] field = "scheme" -> 1

----------------------------------------------------------------------------
(* encode.                                                                 *)

Part(of, width, is) == [of |-> of, width |-> width, is |-> is]

\* What a part may be of, to a reader that may look in the wrong place.
Names == Fixed \union Variable \union {"tag", "length", "junk"}

Parts == [of : Names, width : Nat, is : Nat]

\* put_lp: the length in four bytes, then the bytes.
Put(field, lengths) ==
    IF field \in Variable
    THEN <<Part("length", 4, lengths[field]), Part(field, lengths[field], 0)>>
    ELSE <<Part(field, Width(field), 0)>>

\* The parts of the tag and of the first n fields of a message.
Written(m, lengths, n) ==
    LET parts[i \in 0..n] ==
            IF i = 0 THEN <<Part("tag", 1, m.tag)>> ELSE parts[i - 1] \o Put(m.puts[i], lengths)
    IN parts[n]

\* A message's parts, for a choice of lengths.
Encode(m, lengths) == Written(m, lengths, Len(m.puts))

\* The bytes of the first n parts.
Bytes(parts, n) ==
    LET bytes[i \in 0..n] == IF i = 0 THEN 0 ELSE bytes[i - 1] + parts[i].width
    IN bytes[n]

Size(parts) == Bytes(parts, Len(parts))

----------------------------------------------------------------------------
(* Reader.                                                                 *)

Enough(n) == pos + n <= len

\* The n bytes at p.
At(p, n) ==
    LET begins == {i \in DOMAIN frame : frame[i].width = n /\ Bytes(frame, i - 1) = p}
    IN IF begins # {} THEN frame[CHOOSE i \in begins : TRUE]
       ELSE Part("junk", n, IF p + n <= len THEN len - (p + n) ELSE 0)

Refuse == status' = "refused" /\ UNCHANGED <<pos, fields>>

Took(p, field) == pos' = p /\ fields' = Append(fields, field) /\ UNCHANGED status

Reading == status = "reading" /\ reader \in DOMAIN Flights

Given == UNCHANGED <<kind, frame, len, reader>>

\* `tag`.
ReadTag ==
    /\ Reading /\ pos = 0
    /\ IF Enough(1) /\ At(0, 1).is = Codec[reader].tag
       THEN pos' = 1 /\ UNCHANGED <<fields, status>>
       ELSE Refuse
    /\ Given

Due == Codec[reader].takes[Len(fields) + 1]

Awaits == Reading /\ pos > 0 /\ Len(fields) < Len(Codec[reader].takes)

\* Mutant: take returns what is left.
ReadFixedUnchecked ==
    /\ Awaits /\ Due \notin Variable
    /\ Took(pos + Width(Due), At(pos, Width(Due)).of)
    /\ Given

\* `point`, `scalar`, `partial`, `nonce`, `u64`, `outpoint`.
ReadFixed ==
    /\ Awaits /\ Due \notin Variable
    /\ IF Enough(Width(Due)) THEN Took(pos + Width(Due), At(pos, Width(Due)).of) ELSE Refuse
    /\ Given

\* `lp`, `string`, `tx`: the length must fit what is left.
ReadVariable ==
    /\ Awaits /\ Due \in Variable
    /\ LET n == At(pos, 4).is IN
       IF Enough(4) /\ Enough(4 + n) THEN Took(pos + 4 + n, At(pos + 4, n).of) ELSE Refuse
    /\ Given

AllRead == Reading /\ pos > 0 /\ Len(fields) = Len(Codec[reader].takes)

\* Mutant: trailing bytes are let pass.
FinishAnywhere == AllRead /\ status' = "decoded" /\ UNCHANGED <<pos, fields>> /\ Given

\* `finish`.
Finish ==
    /\ AllRead
    /\ IF pos = len THEN status' = "decoded" /\ UNCHANGED <<pos, fields>> ELSE Refuse
    /\ Given

----------------------------------------------------------------------------
(* The control messages, read by peer_worker and run_proposer.             *)

Polls(control) == status = "reading" /\ reader = control

\* Mutant: only as many bytes as are used have to be there.
DecodeTermsPrefix ==
    /\ Polls("ProposeTerms")
    /\ IF len >= 24 /\ At(0, 1).is = 1
       THEN status' = "decoded" /\ pos' = len /\ fields' = ProposeTerms.takes
       ELSE Refuse
    /\ Given

\* ProposeTerms::decode reads fixed offsets of exactly 24 bytes.
DecodeTerms ==
    /\ Polls("ProposeTerms")
    /\ IF len = 24 /\ At(0, 1).is = 1
       THEN /\ status' = "decoded" /\ pos' = len
            /\ fields' = <<At(1, 8).of, At(9, 8).of, At(17, 4).of, At(21, 2).of, At(23, 1).of>>
       ELSE Refuse
    /\ Given

\* `resp == MSG_ACCEPT`, `resp == MSG_REJECT`.
CompareAnswer ==
    /\ \E answer \in {"ACCEPT", "REJECT"} :
          /\ Polls(answer)
          /\ IF len = 1 /\ At(0, 1).is = Codec[answer].tag
             THEN status' = "decoded" /\ pos' = 1 /\ UNCHANGED fields
             ELSE Refuse
    /\ Given

----------------------------------------------------------------------------

Readers == DOMAIN Codec \ {"HELLO"}

Init ==
    /\ kind \in DOMAIN Codec
    /\ \E lengths \in [ToSet(Codec[kind].puts) \cap Variable -> Lengths] :
          frame = Encode(Codec[kind], lengths)
    /\ len \in 0..(Size(frame) + 1)
    /\ reader \in Readers
    /\ pos = 0 /\ fields = <<>> /\ status = "reading"

Next ==
    \/ ReadTag \/ ReadFixed \/ ReadVariable \/ Finish
    \/ DecodeTerms \/ CompareAnswer

Spec == Init /\ [][Next]_vars

----------------------------------------------------------------------------
(* Properties.                                                             *)

\* A reader never leaves the bytes that arrived.
FramesTypeOK ==
    /\ kind \in DOMAIN Codec /\ reader \in Readers
    /\ frame \in Seq(Parts)
    /\ len \in 0..(Size(frame) + 1) /\ pos \in 0..len
    /\ fields \in Seq(Names) /\ Len(fields) <= Len(Codec[reader].takes)
    /\ status \in {"reading", "decoded", "refused"}

\* What encode wrote, decode reads: the same fields with the same contents.
ReadsOwnFrames ==
    kind = reader /\ len = Size(frame) =>
        /\ status # "refused"
        /\ status = "decoded" => fields = Codec[reader].takes

\* No frame is taken for another message, although the tags 1 to 3 are those of
\* both a flight and a control message and late frames meet any reader.  That
\* the transport delivers frames whole matters: 24 bytes of an AliceOpen would
\* pass for a proposal and the first byte of a BobCommit for an ACCEPT.
NeverMisread == status = "decoded" /\ len >= Size(frame) => kind = reader

\* "a bounds-checked reader rejects short/trailing": no part of a flight is
\* ever taken for one, nor a flight and more.
WholeOrNothing == status = "decoded" /\ reader \in DOMAIN Flights => len = Size(frame)
============================================================================
