------------------------------- MODULE EcPoint -------------------------------
(***************************************************************************)
(* The DER OCTET STRING wrapping of CKA_EC_POINT (src/key_ops.rs).  Bytes  *)
(* are numbers, the content of a Vec<u8> is a sequence of them.  A fallible*)
(* operator returns [ok |-> TRUE, value |-> its result] or                 *)
(* [ok |-> FALSE, value |-> the kind of its error].                        *)
(***************************************************************************)
EXTENDS Integers, Sequences

Byte == 0 .. 255

Ok(value) == [ok |-> TRUE, value |-> value]
Err(kind) == [ok |-> FALSE, value |-> kind]

OctetString == 4    \* the tag of a DER OCTET STRING, and of an uncompressed SEC1 point

\* Tag and length take 2, 3 or 4 bytes; 0 when the length is malformed.
HeaderLen(input) ==
    CASE input[2] < 128                        -> 2
      [] input[2] = 129 /\ Len(input) >= 3     -> 3
      [] input[2] = 130 /\ Len(input) >= 4     -> 4
      [] OTHER                                 -> 0

ContentLen(input) ==
    CASE HeaderLen(input) = 2 -> input[2]
      [] HeaderLen(input) = 3 -> input[3]
      [] OTHER                -> 256 * input[3] + input[4]

\* What begins with the tag is taken for DER, whatever follows the content is
\* ignored; anything else is taken for the raw point.
Decode(input) ==
    IF input = <<>> THEN Err("empty")
    ELSE IF ~(input[1] = OctetString /\ Len(input) >= 2) THEN Ok(input)
    ELSE IF HeaderLen(input) = 0 THEN Err("malformed")
    ELSE IF Len(input) < HeaderLen(input) + ContentLen(input) THEN Err("truncated")
    ELSE Ok(SubSeq(input, HeaderLen(input) + 1, HeaderLen(input) + ContentLen(input)))

\* The shortest of the three forms; it panics on 2^16 bytes and more.
Header(len) ==
    IF len < 128 THEN <<OctetString, len>>
    ELSE IF len < 256 THEN <<OctetString, 129, len>>
    ELSE <<OctetString, 130, len \div 256, (len % 256)>>

Encode(content) == Header(Len(content)) \o content

=============================================================================
