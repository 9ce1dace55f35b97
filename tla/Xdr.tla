-------------------------------- MODULE Xdr --------------------------------
(***************************************************************************)
(* The XDR routines of user/xdr.c over a memory stream.                    *)
(*                                                                         *)
(* A stream is a record: op, the bytes buf, the index ptr of the next byte *)
(* (from 0) and end.  A C value is the tuple of the bytes of memory the    *)
(* routine touches, most significant first, so that no width is lost; a    *)
(* long is 8 bytes on RISC-V 64 and an XDR word is 4.  A routine returns   *)
(* [ok, x, v]: its result, the stream and the variable it was handed.      *)
(***************************************************************************)
EXTENDS Integers, Sequences

Zeros(n) == [i \in 1 .. n |-> 0]
Low(l, w) == SubSeq(l, Len(l) - w + 1, Len(l))
ZeroExtend(v) == Zeros(8 - Len(v)) \o v
SignExtend(v) == [i \in 1 .. 8 - Len(v) |-> IF v[1] >= 128 THEN 255 ELSE 0] \o v
Overwrite(buf, at, bytes) ==
  [i \in DOMAIN buf |-> IF i \in at + 1 .. at + Len(bytes) THEN bytes[i - at] ELSE buf[i]]

Room(x, n) == x.ptr + n <= x.end
Refused(x, v) == [ok |-> FALSE, x |-> x, v |-> v]
Advanced(x, n, v) == [ok |-> TRUE, x |-> [x EXCEPT !.ptr = @ + n], v |-> v]

-----------------------------------------------------------------------------
(* The memory stream.                                                      *)

xdrmem_create(buf, end, op) == [op |-> op, buf |-> buf, ptr |-> 0, end |-> end]

xdrmem_putlong(x, l) ==
  IF Room(x, 4)
  THEN Advanced([x EXCEPT !.buf = Overwrite(@, x.ptr, Low(l, 4))], 4, l)
  ELSE Refused(x, l)

\* Mutant: the first byte is not cast to unsigned char.
xdrmem_getlongSigned(x, l) ==
  IF Room(x, 4)
  THEN Advanced(x, 4, SignExtend(SubSeq(x.buf, x.ptr + 1, x.ptr + 4)))
  ELSE Refused(x, l)

\* The casts to unsigned char: the long that comes back is never negative.
xdrmem_getlong(x, l) ==
  IF Room(x, 4)
  THEN Advanced(x, 4, ZeroExtend(SubSeq(x.buf, x.ptr + 1, x.ptr + 4)))
  ELSE Refused(x, l)

xdrmem_putbytes(x, bytes) ==
  IF Room(x, Len(bytes))
  THEN Advanced([x EXCEPT !.buf = Overwrite(@, x.ptr, bytes)], Len(bytes), bytes)
  ELSE Refused(x, bytes)

xdrmem_getbytes(x, len) ==
  IF Room(x, len) THEN Advanced(x, len, SubSeq(x.buf, x.ptr + 1, x.ptr + len))
  ELSE Refused(x, << >>)

xdrmem_getpos(x) == x.ptr
xdrmem_setpos(x, pos) ==
  IF pos \in 0 .. x.end THEN Advanced([x EXCEPT !.ptr = pos], 0, << >>) ELSE Refused(x, << >>)
\* The bytes are the caller's, who gets their address.
xdrmem_inline(x, len) == IF Room(x, len) THEN Advanced(x, len, << >>) ELSE Refused(x, << >>)

-----------------------------------------------------------------------------
(* The routines; each encodes, decodes or (freeing) does nothing, as the   *)
(* stream says.                                                            *)

xdr_long(x, v) ==
  CASE x.op = "encode" -> xdrmem_putlong(x, v)
    [] x.op = "decode" -> xdrmem_getlong(x, v)
    [] x.op = "free"   -> Advanced(x, 0, v)

\* A routine that goes through a long of its own and leaves its variable
\* alone when the stream refuses.
Through(x, v, ToLong(_), FromLong(_)) ==
  LET r == xdr_long(x, ToLong(v))
  IN [r EXCEPT !.v = IF x.op = "decode" /\ r.ok THEN FromLong(@) ELSE v]

Truth(l) == IF l = Zeros(Len(l)) THEN 0 ELSE 1
xdr_bool(x, v) ==
  LET AsLong(b) == ZeroExtend(<<Truth(b)>>)
      AsBool(l) == Zeros(3) \o <<Truth(l)>>
  IN Through(x, v, AsLong, AsBool)

\* xdr_char, xdr_u_char, xdr_short, xdr_u_short, xdr_int and xdr_u_int: the
\* width of the type and whether the cast to long extends the sign.  char goes
\* through unsigned char.
xdr_integer(x, t, v) ==
  LET width == CASE t \in {"char", "u_char"} -> 1
                 [] t \in {"short", "u_short"} -> 2
                 [] t \in {"int", "u_int"} -> 4
      AsLong(n) == IF t \in {"short", "int"} THEN SignExtend(n) ELSE ZeroExtend(n)
      Cast(l) == Low(l, width)
  IN Through(x, v, AsLong, Cast)

xdr_enum(x, v) ==
  LET Cast(l) == Low(l, 4) IN Through(x, v, SignExtend, Cast)

\* *(long * )fp: v is the float and the 4 bytes after it in memory, which are
\* the upper half of the little-endian long.
xdr_float(x, v) ==
  LET Same(l) == l IN Through(x, v, Same, Same)

\* Two longs, one after the other; the second is not tried when the first is
\* refused.
Pair(x, first, second, Join(_, _), v) ==
  LET r0 == xdr_long(x, first)
      r1 == xdr_long(r0.x, second)
  IN IF ~r0.ok THEN Refused(r0.x, v)
     ELSE [r1 EXCEPT !.v = IF x.op = "decode" /\ r1.ok THEN Join(r0.v, r1.v) ELSE v]

xdr_hyper(x, v) ==
  LET Join(hi, lo) == Low(hi, 4) \o Low(lo, 4)
  IN Pair(x, SignExtend(SubSeq(v, 1, 4)), v, Join, v)

\* ((long * )dp)[0] and [1]: v is the double and the 8 bytes after it.
xdr_double(x, v) ==
  LET Join(first, second) == first \o second
  IN Pair(x, SubSeq(v, 1, 8), SubSeq(v, 9, 16), Join, v)

Xdr(x, t, v) ==
  CASE t = "bool" -> xdr_bool(x, v)
    [] t = "enum" -> xdr_enum(x, v)
    [] t = "long" -> xdr_long(x, v)
    [] t = "hyper" -> xdr_hyper(x, v)
    [] t = "float" -> xdr_float(x, v)
    [] t = "double" -> xdr_double(x, v)
    [] OTHER -> xdr_integer(x, t, v)

\* Encoded once into a buffer of its own, to see how far that goes.
xdr_sizeof(t, v) ==
  LET r == Xdr(xdrmem_create(Zeros(16), 16, "encode"), t, v)
  IN IF r.ok THEN xdrmem_getpos(r.x) ELSE 0

\* The object itself, without the bytes that follow it in memory.
Object(t, v) ==
  CASE t = "float" -> Low(v, 4)
    [] t = "double" -> SubSeq(v, 1, 8)
    [] OTHER -> v
=============================================================================
