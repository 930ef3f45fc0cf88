------------------------------- MODULE MCUtilities -------------------------------
EXTENDS Utilities, Integers

(* First bytes at the ends of the ranges the code and the Unicode standard *)
(* tell apart, and continuation bytes that separate the same rows.         *)
Leads == {65, 127, 128, 191, 192, 193, 194, 223, 224, 225, 236, 237, 238, 239, 240, 241, 243, 244, 245, 248, 252, 254, 255}
Tails == {65, 128, 143, 144, 159, 160, 191, 195}
Points == {1, 127, 128, 2047, 2048, 55295, 55296, 57343, 57344, 64975, 64976, 65007, 65008, 65533, 65534, 65535,
           65536, 131070, 131072, 1114109, 1114111, 1114112, 2097151, 2097152, 67108863, 134217728, 2147483647}

Code == [c \in {"a", "b"} |-> IF c = "a" THEN 1 ELSE 2]
(* A hash under which 0, 2, 4 and 8 share buckets for long.                *)
SameNumber(key) == key
SymbolSet == {FcitxKey[n] : n \in DOMAIN FcitxKey}
=============================================================================
