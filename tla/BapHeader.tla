------------------------------- MODULE BapHeader -------------------------------
(***************************************************************************)
(* The BAP header of src/src/mmwave/model/bap-header.cc: the record the    *)
(* program works on, the three octets it is written to, and the two        *)
(* conversions.  Every BAP entity on the way removes the header and writes *)
(* it again (Bap::DoReceiveBapPdu), so what the conversions lose, a packet *)
(* loses at each hop.                                                      *)
(*                                                                         *)
(* The masks and shifts of the code are written as remainders and          *)
(* quotients by powers of two; the operands of each |= set disjoint bits,  *)
(* so they are added.                                                      *)
(***************************************************************************)
EXTENDS Integers

Octet   == 0..255
Address == 0..1023           \* the ten bits a BAP address has
PathId  == 0..1023           \* the ten bits a BAP path identity has

MaxUInt16 == 65535
UInt16  == 0..MaxUInt16
ThreeBits == 0..7

(* The members of class BapHeader.  The setters do not check the two       *)
(* identifiers.                                                            *)
Header == [dest : UInt16, path : UInt16, data : BOOLEAN, reserved : ThreeBits]

Wire == [first : Octet, second : Octet, third : Octet]

(* Mutant: the leftmost of three bits shifted by three.                    *)
ReservedBitsShiftedByThree(first, second, third) ==
  LET bit(b) == IF b THEN 1 ELSE 0
  IN  bit(first) * 8 + bit(second) * 2 + bit(third)

(* SetReservedBits: the leftmost bit marks traffic of no PDU session.      *)
ReservedBits(first, second, third) ==
  LET bit(b) == IF b THEN 1 ELSE 0
  IN  bit(first) * 4 + bit(second) * 2 + bit(third)

(* Mutant: the bits numbered from the other end.                           *)
IsNonPduLowBit(h) == h.reserved % 2 = 1

(* DoReceiveBapPdu tests the most significant reserved bit.                *)
IsNonPdu(h) == (h.reserved \div 4) % 2 = 1

(* Mutant: the path identity's lower octet masked with 0x7F.               *)
SerializeSevenBitPath(h) ==
  [first  |-> (IF h.data THEN 128 ELSE 0) + 16 * h.reserved
              + (h.dest % 1024) \div 64,
   second |-> 4 * (h.dest % 64) + (h.path % 1024) \div 512,
   third  |-> h.path % 128]

(* BapHeader::Serialize.  The path identity's two upper bits are shifted   *)
(* right by nine, not by eight.                                            *)
Serialize(h) ==
  [first  |-> (IF h.data THEN 128 ELSE 0) + 16 * h.reserved
              + (h.dest % 1024) \div 64,
   second |-> 4 * (h.dest % 64) + (h.path % 1024) \div 512,
   third  |-> h.path % 256]

(* Mutant: the destination's upper bits masked with 0x07.                  *)
DeserializeNineBitAddress(w) ==
  [dest     |-> w.second \div 4 + 64 * (w.first % 8),
   path     |-> w.third + 256 * (w.second % 4),
   data     |-> w.first >= 128,
   reserved |-> (w.first % 128) \div 16]

(* BapHeader::Deserialize.                                                 *)
Deserialize(w) ==
  [dest     |-> w.second \div 4 + 64 * (w.first % 16),
   path     |-> w.third + 256 * (w.second % 4),
   data     |-> w.first >= 128,
   reserved |-> (w.first % 128) \div 16]
================================================================================
