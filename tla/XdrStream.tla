----------------------------- MODULE XdrStream -----------------------------
(***************************************************************************)
(* A program that writes a message through the XDR routines and one that   *)
(* reads it back, as xdr_test.c does and as the two ends of an RPC do.     *)
(* The reader knows the types and sees a stream of any length up to what   *)
(* was written: a datagram may arrive cut short.                           *)
(***************************************************************************)
EXTENDS Xdr

CONSTANTS Items,     \* <<type, value>> pairs the writer may write
          Size,      \* bytes in the writer's buffer
          MaxItems   \* bound: items in one message

\* What a C program can hand to each routine.  A long is among them only if it is
\* not negative and fits into an XDR word: xdrmem_putlong sends its low four bytes
\* and xdrmem_getlong widens them without the sign.  A double, which takes two
\* words, is not among them.
Byte == 0 .. 255
WellTyped(t, v) ==
  \/ t = "bool" /\ v \in {<<0, 0, 0, 0>>, <<0, 0, 0, 1>>}
  \/ t \in {"char", "u_char"} /\ v \in [1 .. 1 -> Byte]
  \/ t \in {"short", "u_short"} /\ v \in [1 .. 2 -> Byte]
  \/ t \in {"int", "u_int", "enum"} /\ v \in [1 .. 4 -> Byte]
  \/ t \in {"hyper", "float"} /\ v \in [1 .. 8 -> Byte]
  \/ t = "long" /\ v \in [1 .. 8 -> Byte] /\ \A o \in 1 .. 4 : v[o] = 0

ASSUME ItemsAssumption == \A item \in Items : WellTyped(item[1], item[2])
ASSUME SizeAssumption == Size \in Nat

VARIABLES
  xdrs,     \* the stream, the writer's and then the reader's
  put,      \* the items written
  marks,    \* where each of them ends, by xdrmem_getpos
  fetched,  \* the items read
  side      \* "write", "full", "read", "short"

xdrVars == <<xdrs, put, marks, fetched, side>>

Garbage == 170

XdrInit ==
  /\ xdrs = xdrmem_create([o \in 1 .. Size |-> Garbage], Size, "encode")
  /\ put = << >> /\ marks = << >>
  /\ fetched = << >>
  /\ side = "write"

Write(t, v) ==
  /\ side = "write"
  /\ Len(put) < MaxItems
  /\ LET r == Xdr(xdrs, t, v)
     IN /\ xdrs' = r.x
        /\ IF r.ok THEN /\ put' = Append(put, <<t, v>>)
                        /\ marks' = Append(marks, xdrmem_getpos(r.x))
                        /\ UNCHANGED side
           ELSE side' = "full" /\ UNCHANGED <<put, marks>>
  /\ UNCHANGED fetched

\* The reader's xdrmem_create over the bytes that arrived.
Arrive(len) ==
  /\ side = "write"
  /\ put # << >>
  /\ xdrs' = xdrmem_create(xdrs.buf, len, "decode")
  /\ side' = "read"
  /\ UNCHANGED <<put, marks, fetched>>

\* The reader's variables start out as anything; Garbage stands for that.
Read ==
  /\ side = "read"
  /\ Len(fetched) < Len(put)
  /\ LET item == put[Len(fetched) + 1]
         r == Xdr(xdrs, item[1], [o \in 1 .. Len(item[2]) |-> Garbage])
     IN /\ xdrs' = r.x
        /\ IF r.ok THEN fetched' = Append(fetched, <<item[1], r.v>>) /\ UNCHANGED side
           ELSE side' = "short" /\ UNCHANGED fetched
  /\ UNCHANGED <<put, marks>>

\* Back to where the k-th item ends, or over the next one, by xdr_sizeof.
Mark(k) == IF k = 0 THEN 0 ELSE marks[k]
Rewind(k) ==
  /\ side = "read"
  /\ LET r == xdrmem_setpos(xdrs, Mark(k)) IN r.ok /\ xdrs' = r.x
  /\ fetched' = SubSeq(fetched, 1, k)
  /\ UNCHANGED <<put, marks, side>>
Skip ==
  /\ side = "read"
  /\ Len(fetched) < Len(put)
  /\ LET item == put[Len(fetched) + 1]
         r == xdrmem_inline(xdrs, xdr_sizeof(item[1], item[2]))
     IN r.ok /\ xdrs' = r.x /\ fetched' = Append(fetched, item)
  /\ UNCHANGED <<put, marks, side>>

XdrNext ==
  \/ \E item \in Items : Write(item[1], item[2])
  \/ \E len \in 0 .. xdrs.ptr : Arrive(len)
  \/ Read
  \/ \E k \in 0 .. Len(fetched) - 1 : Rewind(k)
  \/ Skip

XdrSpec == XdrInit /\ [][XdrNext]_xdrVars

-----------------------------------------------------------------------------
\* xdr.c: every value read is the value written (of a long: one from 0 to
\* 2^32 - 1, see WellTyped), whatever the mix of types and wherever the datagram
\* was cut: a routine that runs out of bytes refuses instead of handing back a
\* part of a value, and xdr_sizeof says how far each of them goes.
RoundTrip ==
  \A k \in DOMAIN fetched : Object(fetched[k][1], fetched[k][2]) = Object(put[k][1], put[k][2])

\* xdr_float and xdr_double are handed the address of the object: the bytes
\* that follow it in the reader's memory are not theirs to write.
OnlyTheObject ==
  \A k \in DOMAIN fetched :
    fetched[k][1] = "float" => SubSeq(fetched[k][2], 1, 4) = [j \in 1 .. 4 |-> Garbage]
=============================================================================
