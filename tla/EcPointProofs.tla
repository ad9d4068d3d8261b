---------------------------- MODULE EcPointProofs ----------------------------
(***************************************************************************)
(* What the codec of CKA_EC_POINT returns, for every input.                *)
(***************************************************************************)
EXTENDS EcPoint, SequenceTheorems, TLAPS

LEMMA IsByte == ASSUME NEW n \in Nat, n < 256 PROVE n \in Byte
  BY DEF Byte

LEMMA ByteIsNat == ASSUME NEW b \in Byte PROVE b \in Nat /\ b < 256
  BY DEF Byte

\* The length that two bytes of the long form stand for.
LEMMA TwoBytes ==
    ASSUME NEW len \in Nat, len > 255, len < 65536
    PROVE  /\ len \div 256 \in Byte /\ len % 256 \in Byte
           /\ 256 * (len \div 256) + (len % 256) = len
<1>1. /\ len \div 256 \in Nat /\ len \div 256 < 256
      /\ len % 256 \in Nat /\ len % 256 < 256
  OBVIOUS
<1>2. 256 * (len \div 256) + (len % 256) = len
  OBVIOUS
<1> QED
  BY <1>1, <1>2, IsByte

LEMMA DecodeWrapped ==
    ASSUME NEW input, input # <<>>, input[1] = OctetString, Len(input) >= 2,
           HeaderLen(input) # 0,
           ~(Len(input) < HeaderLen(input) + ContentLen(input))
    PROVE  Decode(input) =
             Ok(SubSeq(input, HeaderLen(input) + 1, HeaderLen(input) + ContentLen(input)))
  BY Zenon DEF Decode

\* Whatever starts with the header, and goes on for len bytes after it, is read
\* as a header of h bytes and a content of len.
Announces(header, h, len) ==
    \A any \in Seq(Byte) :
        (Len(any) = h + len /\ \A i \in 1 .. h : any[i] = header[i])
          => HeaderLen(any) = h /\ ContentLen(any) = len

\* A header of h bytes that gives the length of what follows it is stripped.
LEMMA DecodeForm ==
    ASSUME NEW content \in Seq(Byte), NEW header \in Seq(Byte), NEW h \in {2, 3, 4},
           Len(header) = h, header[1] = OctetString,
           Announces(header, h, Len(content))
    PROVE  Decode(header \o content) = Ok(content)
<1>1. PICK input : input = header \o content
  OBVIOUS
<1>2. /\ input \in Seq(Byte)
      /\ Len(input) = h + Len(content)
      /\ \A i \in 1 .. h : input[i] = header[i]
  BY <1>1, ConcatProperties
<1>3. input # <<>> /\ input[1] = OctetString /\ Len(input) >= 2
  BY <1>2
<1>4. HeaderLen(input) = h /\ ContentLen(input) = Len(content)
  BY <1>2 DEF Announces
<1>5. SubSeq(input, h + 1, h + Len(content)) = content
  BY <1>1, SubSeqOfConcat2
<1>6. HeaderLen(input) # 0 /\ ~(Len(input) < HeaderLen(input) + ContentLen(input))
  BY <1>2, <1>4
<1>7. Decode(input) = Ok(SubSeq(input, h + 1, h + Len(content)))
  BY <1>3, <1>4, <1>6, DecodeWrapped
<1> QED
  BY <1>1, <1>5, <1>7

\* The content that was encoded is what is decoded, at every length the
\* encoder accepts: the boundaries 127/128 and 255/256 change the form of
\* the header and nothing else.
THEOREM DecodeEncode ==
    ASSUME NEW content \in Seq(Byte), Len(content) < 65536
    PROVE  Decode(Encode(content)) = Ok(content)
<1> DEFINE len == Len(content)
<1>1. len \in Nat /\ len < 65536
  OBVIOUS
<1>2. Encode(content) = Header(len) \o content
  BY DEF Encode
<1> HIDE DEF len
<1>3. OctetString \in Byte /\ 129 \in Byte /\ 130 \in Byte
  BY IsByte DEF OctetString
<1>4. CASE len < 128
  <2> DEFINE header == <<OctetString, len>>
  <2>1. header = Header(len)
    BY <1>1, <1>4 DEF Header
  <2>3. header \in Seq(Byte)
    BY <1>1, <1>3, <1>4, IsByte
  <2>2. ASSUME NEW any \in Seq(Byte), \A i \in 1 .. 2 : any[i] = header[i]
        PROVE  HeaderLen(any) = 2 /\ ContentLen(any) = len
    <3>1. any[2] = len
      BY <2>2
    <3>2. HeaderLen(any) = 2
      BY <1>4, <3>1 DEF HeaderLen
    <3> QED
      BY <3>1, <3>2 DEF ContentLen
  <2>4. Len(header) = 2 /\ header[1] = OctetString
    OBVIOUS
  <2> HIDE DEF header
  <2>5. Announces(header, 2, len)
    BY <2>2 DEF Announces
  <2>6. Decode(header \o content) = Ok(content)
    BY <2>3, <2>4, <2>5, DecodeForm DEF len
  <2> QED
    BY <1>2, <2>1, <2>6
<1>5. CASE len > 127 /\ len < 256
  <2> DEFINE header == <<OctetString, 129, len>>
  <2>1. header = Header(len)
    BY <1>1, <1>5 DEF Header
  <2>3. header \in Seq(Byte)
    BY <1>1, <1>3, <1>5, IsByte
  <2>2. ASSUME NEW any \in Seq(Byte), Len(any) = 3 + len, \A i \in 1 .. 3 : any[i] = header[i]
        PROVE  HeaderLen(any) = 3 /\ ContentLen(any) = len
    <3>1. any[2] = 129 /\ any[3] = len /\ Len(any) >= 3
      BY <1>1, <2>2
    <3>2. HeaderLen(any) = 3
      BY <3>1 DEF HeaderLen
    <3> QED
      BY <3>1, <3>2 DEF ContentLen
  <2>4. Len(header) = 3 /\ header[1] = OctetString
    OBVIOUS
  <2> HIDE DEF header
  <2>5. Announces(header, 3, len)
    BY <2>2 DEF Announces
  <2>6. Decode(header \o content) = Ok(content)
    BY <2>3, <2>4, <2>5, DecodeForm DEF len
  <2> QED
    BY <1>2, <2>1, <2>6
<1>6. CASE len > 255
  <2> DEFINE header == <<OctetString, 130, len \div 256, len % 256>>
  <2>1. header = Header(len)
    BY <1>1, <1>6 DEF Header
  <2>3. header \in Seq(Byte)
    BY <1>1, <1>3, <1>6, TwoBytes
  <2>2. ASSUME NEW any \in Seq(Byte), Len(any) = 4 + len, \A i \in 1 .. 4 : any[i] = header[i]
        PROVE  HeaderLen(any) = 4 /\ ContentLen(any) = len
    <3>1. /\ any[2] = 130 /\ any[3] = len \div 256 /\ any[4] = len % 256
          /\ Len(any) >= 4
      BY <1>1, <2>2
    <3>2. HeaderLen(any) = 4
      BY <3>1 DEF HeaderLen
    <3>3. ContentLen(any) = 256 * (len \div 256) + (len % 256)
      BY <3>1, <3>2 DEF ContentLen
    <3> QED
      BY <1>1, <1>6, <3>2, <3>3, TwoBytes
  <2>4. Len(header) = 4 /\ header[1] = OctetString
    OBVIOUS
  <2> HIDE DEF header
  <2>5. Announces(header, 4, len)
    BY <2>2 DEF Announces
  <2>6. Decode(header \o content) = Ok(content)
    BY <2>3, <2>4, <2>5, DecodeForm DEF len
  <2> QED
    BY <1>2, <2>1, <2>6
<1> QED
  BY <1>1, <1>4, <1>5, <1>6

\* A raw point whose first byte is not the tag, which every compressed point
\* is (it starts with 2 or 3), comes through unchanged.
THEOREM RawCompressed ==
    ASSUME NEW raw \in Seq(Byte), raw # <<>>, raw[1] # OctetString
    PROVE  Decode(raw) = Ok(raw)
  BY DEF Decode

\* A raw uncompressed point, which starts with the tag, never does: the
\* decoder refuses it or returns a part of it.  The documentation of the
\* decoder names that form among those it accepts.
THEOREM RawUncompressedNeverItself ==
    ASSUME NEW raw \in Seq(Byte), Len(raw) >= 2, raw[1] = OctetString
    PROVE  Decode(raw) # Ok(raw)
<1> DEFINE h == HeaderLen(raw)
           c == ContentLen(raw)
<1>1. h \in {0, 2, 3, 4}
  BY DEF HeaderLen
<1>2. CASE h = 0
  BY <1>2 DEF Decode, Ok, Err
<1>3. CASE h # 0 /\ Len(raw) < h + c
  BY <1>3 DEF Decode, Ok, Err
<1>4. CASE h # 0 /\ ~(Len(raw) < h + c)
  <2>1. raw # <<>>
    OBVIOUS
  <2>2. c \in Nat
    <3>1. CASE h = 2
      BY <3>1, ByteIsNat DEF ContentLen
    <3>2. CASE h = 3
      <4>1. Len(raw) >= 3
        BY <3>2 DEF HeaderLen
      <4> QED
        BY <3>2, <4>1, ByteIsNat DEF ContentLen
    <3>3. CASE h = 4
      <4>1. Len(raw) >= 4
        BY <3>3 DEF HeaderLen
      <4> QED
        BY <3>3, <4>1, ByteIsNat DEF ContentLen
    <3> QED
      BY <1>1, <1>4, <3>1, <3>2, <3>3
  <2>3. Decode(raw) = Ok(SubSeq(raw, h + 1, h + c))
    BY <1>4, <2>1 DEF Decode
  <2>4. Len(SubSeq(raw, h + 1, h + c)) = c
    BY <1>1, <1>4, <2>2, LenProperties, SubSeqProperties
  <2>5. c # Len(raw)
    BY <1>1, <1>4, <2>2, LenProperties
  <2>6. SubSeq(raw, h + 1, h + c) # raw
    BY <2>4, <2>5
  <2> HIDE DEF h, c
  <2> QED
    BY <2>3, <2>6 DEF Ok
<1> QED
  BY <1>2, <1>3, <1>4

=============================================================================
