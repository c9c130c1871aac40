---------------------------- MODULE BapHeaderLemmas ----------------------------
(***************************************************************************)
(* What the conversion of a BAP header to octets and back keeps.  The path *)
(* identity may be any number: the helper's counter is as wide.            *)
(***************************************************************************)
EXTENDS BapHeader, TLAPS

AnyHeader == [dest : UInt16, path : Nat, data : BOOLEAN, reserved : ThreeBits]

(* The four widths as bounds.                                              *)
LEMMA Widths ==
  /\ \A x : x \in UInt16 <=> x \in Int /\ 0 <= x /\ x <= 65535
  /\ \A x : x \in Address <=> x \in Int /\ 0 <= x /\ x <= 1023
  /\ \A x : x \in Octet <=> x \in Int /\ 0 <= x /\ x <= 255
  /\ \A x : x \in ThreeBits <=> x \in Int /\ 0 <= x /\ x <= 7
<1>1. \A x : x \in UInt16 <=> x \in Int /\ 0 <= x /\ x <= 65535
  <2>1. MaxUInt16 \in Int
    BY DEF MaxUInt16
  <2>2. \A x : x \in UInt16 <=> x \in Int /\ 0 <= x /\ x <= MaxUInt16
    BY <2>1 DEF UInt16
  <2> QED
    BY <2>2 DEF MaxUInt16
<1>2. \A x : x \in Address <=> x \in Int /\ 0 <= x /\ x <= 1023
  BY DEF Address
<1>3. \A x : x \in Octet <=> x \in Int /\ 0 <= x /\ x <= 255
  BY DEF Octet
<1>4. \A x : x \in ThreeBits <=> x \in Int /\ 0 <= x /\ x <= 7
  BY DEF ThreeBits
<1> QED
  BY <1>1, <1>2, <1>3, <1>4

LEMMA HeaderFields ==
  ASSUME NEW h \in AnyHeader
  PROVE  /\ h.dest \in Int /\ 0 <= h.dest /\ h.dest <= 65535
         /\ h.path \in Nat
         /\ h.reserved \in Int /\ 0 <= h.reserved /\ h.reserved <= 7
         /\ h.data \in BOOLEAN
<1>1. h.dest \in UInt16 /\ h.path \in Nat /\ h.reserved \in ThreeBits /\ h.data \in BOOLEAN
  BY DEF AnyHeader
<1> QED
  BY <1>1, Widths

(* Serialize writes three octets, whatever the members of the header.      *)
LEMMA SerializeType ==
  ASSUME NEW h \in AnyHeader
  PROVE  Serialize(h) \in Wire
<1>1. (IF h.data THEN 128 ELSE 0) + 16 * h.reserved + (h.dest % 1024) \div 64 \in Octet
  BY HeaderFields, Widths
<1>2. 4 * (h.dest % 64) + (h.path % 1024) \div 512 \in Octet
  BY HeaderFields, Widths
<1>3. h.path % 256 \in Octet
  BY HeaderFields, Widths
<1> QED
  BY <1>1, <1>2, <1>3 DEF Serialize, Wire

(* The destination, the reserved bits and the D/C bit survive one          *)
(* conversion whenever the address fits its ten bits.                      *)
LEMMA RoundTrip ==
  ASSUME NEW h \in AnyHeader, h.dest \in Address
  PROVE  /\ Deserialize(Serialize(h)).dest = h.dest
         /\ Deserialize(Serialize(h)).reserved = h.reserved
         /\ Deserialize(Serialize(h)).data = h.data
<1> DEFINE first == (IF h.data THEN 128 ELSE 0) + 16 * h.reserved + (h.dest % 1024) \div 64
           second == 4 * (h.dest % 64) + (h.path % 1024) \div 512
<1>1. h.dest <= 1023
  BY Widths
<1>2. second \div 4 = h.dest % 64
  BY HeaderFields
<1>3. first % 16 = h.dest \div 64
  <2>1. h.dest \in Int /\ 0 <= h.dest /\ h.reserved \in 0..7
    BY HeaderFields
  <2>2. PICK high \in 0..15 : high = (h.dest % 1024) \div 64 /\ high = h.dest \div 64
    BY <1>1, <2>1
  <2>3. PICK rest \in 0..15 : rest = (IF h.data THEN 8 ELSE 0) + h.reserved
    BY <2>1
  <2>4. first = 16 * rest + high
    BY <2>1, <2>2, <2>3
  <2>5. (16 * rest + high) % 16 = high
    OBVIOUS
  <2> QED
    BY <2>2, <2>4, <2>5
<1>4. (first % 128) \div 16 = h.reserved
  <2>1. h.dest \in Int /\ 0 <= h.dest /\ h.reserved \in Int /\ 0 <= h.reserved /\ h.reserved <= 7
    BY HeaderFields
  <2>2. PICK high \in 0..15 : high = (h.dest % 1024) \div 64
    BY <1>1, <2>1
  <2>3. first = (IF h.data THEN 128 ELSE 0) + 16 * h.reserved + high
    BY <2>2
  <2>4. first % 128 = 16 * h.reserved + high
    BY <2>1, <2>3
  <2>5. \A r, n \in Int : 0 <= n /\ n < 16 => (16 * r + n) \div 16 = r
    OBVIOUS
  <2>6. high \in Int /\ 0 <= high /\ high < 16
    BY <2>2
  <2> HIDE DEF first
  <2> QED
    BY <2>1, <2>4, <2>5, <2>6
<1>5. first >= 128 <=> h.data
  BY <1>1, HeaderFields
<1>6. (h.dest % 64) + 64 * (h.dest \div 64) = h.dest
  BY HeaderFields
<1> HIDE DEF first, second
<1>7. Serialize(h) = [first |-> first, second |-> second, third |-> h.path % 256]
  BY DEF Serialize, first, second
<1>8. Deserialize(Serialize(h)).dest = h.dest
  BY <1>2, <1>3, <1>6, <1>7 DEF Deserialize
<1>9. Deserialize(Serialize(h)).reserved = h.reserved
  BY <1>4, <1>7 DEF Deserialize
<1>10. Deserialize(Serialize(h)).data = h.data
  <2>1. Deserialize(Serialize(h)).data = (first >= 128)
    BY <1>7 DEF Deserialize
  <2> QED
    BY <2>1, <1>5, HeaderFields
<1> QED
  BY <1>8, <1>9, <1>10

(* A path identity of one octet survives as well.                          *)
LEMMA PathRoundTrip ==
  ASSUME NEW h \in AnyHeader, h.path <= 255
  PROVE  Deserialize(Serialize(h)).path = h.path
<1> DEFINE second == 4 * (h.dest % 64) + (h.path % 1024) \div 512
           third == h.path % 256
<1>1. second % 4 = 0 /\ third = h.path
  BY HeaderFields
<1> HIDE DEF second, third
<1>2. Serialize(h).second = second /\ Serialize(h).third = third
  BY DEF Serialize, second, third
<1> QED
  BY <1>1, <1>2, HeaderFields DEF Deserialize

(* What Deserialize reads from three octets is a header with a ten-bit     *)
(* address.                                                                *)
LEMMA DeserializeType ==
  ASSUME NEW w \in Wire
  PROVE  Deserialize(w) \in Header /\ Deserialize(w).dest \in Address
<1>1. w.first \in Octet /\ w.second \in Octet /\ w.third \in Octet
  BY DEF Wire
<1>2. /\ w.second \div 4 + 64 * (w.first % 16) \in UInt16
      /\ w.second \div 4 + 64 * (w.first % 16) \in Address
  BY <1>1, Widths
<1>3. w.third + 256 * (w.second % 4) \in UInt16
  BY <1>1, Widths
<1>4. (w.first % 128) \div 16 \in ThreeBits
  BY <1>1, Widths
<1>5. (w.first >= 128) \in BOOLEAN
  OBVIOUS
<1> QED
  BY <1>2, <1>3, <1>4, <1>5 DEF Deserialize, Header

LEMMA HeaderIsAnyHeader == Header \subseteq AnyHeader
<1> SUFFICES ASSUME NEW h \in Header PROVE h \in AnyHeader
  OBVIOUS
<1>1. h.path \in UInt16
  BY DEF Header
<1>2. h.path \in Nat
  BY <1>1, Widths
<1> QED
  BY <1>2 DEF Header, AnyHeader
================================================================================
