-------------------------------- MODULE Apdu --------------------------------
(***************************************************************************)
(* HID framing of Ledger APDU commands                                     *)
(* (src/c/src/signer/ledger-nano/signer/device_apdu_commands.c).          *)
(* The host wraps an APDU into one HID report: channel 0x0101, tag 0x05,  *)
(* a 2-byte sequence number, a 2-byte APDU length, the APDU, zero padding *)
(* to HID_CMD_MAX_LEN. The device answers with a report of the same       *)
(* layout (the Ledger transport writes both 2-byte fields big-endian);    *)
(* unwrap_apdu takes the answer's APDU out of it.                         *)
(* Payload bytes are abstracted to 0: only lengths and headers matter.     *)
(***************************************************************************)
EXTENDS Integers, Sequences, Bitwise

CONSTANTS
  HidCmdMaxLen,  \* HID_CMD_MAX_LEN (device_apdu_commands.h)
  Lens,          \* lengths of the APDUs the signer sends and receives
  SeqNos         \* sequence numbers the signer passes to wrap_apdu

ASSUME \A l \in Lens : l + 7 <= HidCmdMaxLen
ASSUME SeqNos \subseteq 0..65535

VARIABLES
  phase,    \* "idle", "sent" (a report is with the device), "answered"
  out,      \* the last report wrap_apdu produced
  sent,     \* the length of the APDU wrap_apdu was given
  seqNo,    \* the sequence number wrap_apdu was given
  reply,    \* the report the device answered with
  replyLen, \* the length of the APDU inside that report
  res,      \* o_apdu_res->len after unwrap_apdu, or -1
  ub        \* "none" or the undefined behaviour unwrap_apdu hit

vars == <<phase, out, sent, seqNo, reply, replyLen, res, ub>>

CHANNEL == <<1, 1>>
TAG == 5

\* mutant: the bytes written in little-endian order
LenToBytesLittle(x) == <<x & 255, shiftR(x, 8) & 255>>

\* mutant: the 0xFF masks dropped
LenToBytesUnmasked(x) == <<shiftR(x, 8), x>>

\* len_to_bytes: buf[1] = x & 0xFF, buf[0] = (x >> 8) & 0xFF
LenToBytes(x) == <<shiftR(x, 8) & 255, x & 255>>

\* bytes_to_len: (buf[1] << 8) + buf[0], truncated to uint16_t
BytesToLen(buf) == (buf[2] * 256 + buf[1]) % 65536

Zeros(k) == [i \in 1..k |-> 0]

\* wrap_apdu: header, the APDU, zero padding to HID_CMD_MAX_LEN
WrapApdu(len, seq) ==
  LET head == CHANNEL \o <<TAG>> \o LenToBytes(seq) \o LenToBytes(len % 65536)
  IN head \o Zeros(len) \o Zeros(HidCmdMaxLen - Len(head) - len)

\* a report as the Ledger device writes it (both fields big-endian)
DeviceReport(len, seq) ==
  CHANNEL \o <<TAG, seq \div 256, seq % 256, len \div 256, len % 256>>
    \o Zeros(HidCmdMaxLen - 7)

Init ==
  /\ phase = "idle" /\ out = <<>> /\ sent = 0 /\ seqNo = 0
  /\ reply = <<>> /\ replyLen = 0 /\ res = -1 /\ ub = "none"

\* the signer sends an APDU of length l with sequence number s
Wrap(l, s) ==
  /\ phase = "idle" /\ ub = "none"
  /\ out' = WrapApdu(l, s) /\ sent' = l /\ seqNo' = s /\ phase' = "sent"
  /\ UNCHANGED <<reply, replyLen, res, ub>>

\* the device answers with an APDU of length l
Answer(l, s) ==
  /\ phase = "sent"
  /\ reply' = DeviceReport(l, s) /\ replyLen' = l /\ phase' = "answered"
  /\ UNCHANGED <<out, sent, seqNo, res, ub>>

(***************************************************************************)
(* unwrap_apdu: the length from bytes 5 and 6, then                       *)
(* memcpy(o_apdu_res->data, len, i_wrapped_hid_cmd.data + 7): the source  *)
(* is the integer len and the size the report's address, so the copy      *)
(* reads from address len; for len = 0 it copies nothing only if the      *)
(* report's address is 0, which it never is.                              *)
(***************************************************************************)
UnwrapApdu(frame) == BytesToLen(<<frame[6], frame[7]>>)

Unwrap ==
  /\ phase = "answered" /\ ub = "none"
  /\ res' = UnwrapApdu(reply)
  /\ ub' = "bad_memcpy"
  /\ phase' = "idle"
  /\ UNCHANGED <<out, sent, seqNo, reply, replyLen>>

Next ==
  \/ \E l \in Lens, s \in SeqNos : Wrap(l, s) \/ Answer(l, s)
  \/ Unwrap
  \/ ub # "none" /\ UNCHANGED vars

Spec == Init /\ [][Next]_vars

-----------------------------------------------------------------------------
Bytes == 0..255

TypeOK ==
  /\ phase \in {"idle", "sent", "answered"}
  /\ out \in Seq(Bytes) /\ reply \in Seq(Bytes)
  /\ sent \in Nat /\ seqNo \in Nat /\ replyLen \in Nat /\ res \in -1..65535
  /\ ub \in {"none", "bad_memcpy"}

(***************************************************************************)
(* wrap_apdu writes the sequence number and the APDU length big-endian,   *)
(* as the Ledger transport reads them, and pads the report to exactly     *)
(* HID_CMD_MAX_LEN bytes.                                                  *)
(***************************************************************************)
WrapHeaderBigEndian ==
  phase = "sent" =>
    /\ Len(out) = HidCmdMaxLen
    /\ out[6] * 256 + out[7] = sent
    /\ out[4] * 256 + out[5] = seqNo

(***************************************************************************)
(* unwrap_apdu returns an APDU as long as the one the device answered     *)
(* with: bytes_to_len inverts the big-endian length field.                 *)
(***************************************************************************)
UnwrapLengthMatches == res # -1 => res = replyLen
====
