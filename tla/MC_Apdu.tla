------------------------------- MODULE MC_Apdu -------------------------------
EXTENDS Apdu

\* lengths around the byte boundary of the length field and at the report's
\* capacity (HID_CMD_MAX_LEN - 7)
MCLens == {0, 1, 2, 56, 57}
\* sequence numbers at the byte boundary and at the uint16_t limit
MCSeqNos == {0, 1, 255, 256, 65535}
====
