----------------------------- MODULE NetlinkAttrs -----------------------------
(***************************************************************************)
(* detect_bitrates and _parse_tlvs of wiretap-server.py: the bytes of the  *)
(* IFLA_INFO_DATA attribute of a CAN link are split into netlink           *)
(* attributes (a 4-byte header <u16 len, u16 type> in host order, the      *)
(* value, padding to 4 bytes), and the bit rates are read from the         *)
(* IFLA_CAN_BITTIMING and IFLA_CAN_DATA_BITTIMING attributes.              *)
(*                                                                         *)
(* The input is any prefix of the kernel's encoding of a list of           *)
(* attributes, so a stream cut anywhere is covered.  Bytes are numbers;    *)
(* the host is little-endian.  pyroute2 hands the attribute over either   *)
(* as bytes or as a colon-hex string ("0c:00:01:00..."), whose characters  *)
(* are the strings of HexChars and ":".                                    *)
(***************************************************************************)
EXTENDS Naturals, Sequences, SequencesExt

CONSTANTS
  Types,      \* attribute types the kernel may send
  Values,     \* attribute values (byte sequences)
  MaxAttrs,   \* bound: attributes in one IFLA_INFO_DATA
  Default     \* detect_bitrates(default=...)

ASSUME MaxAttrs \in Nat /\ Default \in Nat

IFLA_CAN_BITTIMING == 1
IFLA_CAN_DATA_BITTIMING == 9

VARIABLES
  src,      \* the attributes the kernel encoded (history)
  cut,      \* how many bytes of their encoding IFLA_INFO_DATA holds (history)
  info,     \* attrs.get("IFLA_INFO_DATA"): [form |-> "bytes" or "str", val]
  raw,      \* raw_bytes
  lookup,   \* "ok", or "error": link_lookup / get_links / a missing key raised
  i,        \* _parse_tlvs: offset of the next header (0-based)
  out,      \* _parse_tlvs: the (type, value) pairs so far
  k,        \* detect_bitrates: index of the next pair to look at
  nominal,  \* detect_bitrates: nominal
  data,     \* detect_bitrates: data
  phase     \* "parse", "scan", "done"

vars == <<src, cut, info, raw, lookup, i, out, k, nominal, data, phase>>

-----------------------------------------------------------------------------
(* The kernel's side: nla_put, used only to produce inputs and reference   *)
(* results.                                                                *)

U16(n) == <<n % 256, n \div 256>>

NlaAlign(n) == ((n + 3) \div 4) * 4

Pad(n) == [j \in 1..(NlaAlign(n) - n) |-> 0]

EncodeAttr(a) ==
  U16(4 + Len(a.val)) \o U16(a.type) \o a.val \o Pad(4 + Len(a.val))

Encode(as) == FlattenSeq([m \in DOMAIN as |-> EncodeAttr(as[m])])

HexChars == <<"0", "1", "2", "3", "4", "5", "6", "7",
              "8", "9", "a", "b", "c", "d", "e", "f">>

\* pyroute2's rendering of bytes: two lower-case hex digits per byte,
\* joined by ":".
HexStr(b) ==
  FlattenSeq([m \in DOMAIN b |->
                (IF m = 1 THEN <<>> ELSE <<":">>)
                \o <<HexChars[b[m] \div 16 + 1], HexChars[(b[m] % 16) + 1]>>])

AttrLists ==
  UNION {[1..n -> [type : Types, val : Values]] : n \in 0..MaxAttrs}

\* The attributes whose header and value lie wholly inside the first n
\* bytes of the encoding.
Contained(as, n) ==
  LET end(m) == Len(Encode(SubSeq(as, 1, m - 1))) + 4 + Len(as[m].val)
  IN  SubSeq(as, 1, Cardinality({m \in DOMAIN as : end(m) <= n}))

-----------------------------------------------------------------------------
(* The code *)

\* Mutant: the offset moved by the unpadded length.
Align4None(x) == x

\* The value of one hex digit character.
DigitVal(c) == CHOOSE d \in 0..15 : HexChars[d + 1] = c

\* Mutant: the digits read in base 10.
HexIntDecimal(tok) == FoldLeft(LAMBDA acc, c : acc * 10 + DigitVal(c), 0, tok)

\* int(x, 16)
HexInt(tok) == FoldLeft(LAMBDA acc, c : acc * 16 + DigitVal(c), 0, tok)

\* raw.split(':'): the pieces between the colons.
SplitColon(str) ==
  LET cuts == <<0>> \o SelectSeq([m \in 1..Len(str) |-> m],
                                 LAMBDA m : str[m] = ":")
              \o <<Len(str) + 1>>
  IN  [t \in 1..(Len(cuts) - 1) |-> SubSeq(str, cuts[t] + 1, cuts[t + 1] - 1)]

\* bytes(raw), or bytes(int(x, 16) for x in raw.split(':')) for a string;
\* an empty value is `not raw' and gives what an empty parse gives.
RawBytes(v) ==
  IF v.form = "bytes" \/ v.val = <<>> THEN v.val
  ELSE LET toks == SplitColon(v.val)
       IN  [t \in DOMAIN toks |-> HexInt(toks[t])]

\* align4 = lambda x: (x + 3) & ~3
Align4(x) == ((x + 3) \div 4) * 4

\* struct.unpack_from("HH", raw, i), little-endian host; `at' is 0-based.
HalfAt(s, at) == s[at + 1] + 256 * s[at + 2]

\* struct.unpack_from("<I", v, 0)
U32(v) == v[1] + 256 * v[2] + 65536 * v[3] + 16777216 * v[4]

\* The link lookup either raises (caught: default, 0) or yields the bytes
\* of IFLA_INFO_DATA; `if not raw' gives the same result as an empty parse.
Init ==
  /\ src \in AttrLists
  /\ cut \in 0..Len(Encode(src))
  /\ LET b == SubSeq(Encode(src), 1, cut)
     IN  info \in {[form |-> "bytes", val |-> b], [form |-> "str", val |-> HexStr(b)]}
  /\ raw = RawBytes(info)
  /\ lookup \in {"ok", "error"}
  /\ i = 0
  /\ out = <<>>
  /\ k = 1
  /\ nominal = Default
  /\ data = 0
  /\ phase = IF lookup = "ok" THEN "parse" ELSE "done"

\* One iteration of `while i + 4 <= len(raw)', or its end.
ParseStep ==
  /\ phase = "parse"
  /\ \/ /\ i + 4 > Len(raw)
        /\ phase' = "scan"
        /\ UNCHANGED <<i, out>>
     \/ /\ i + 4 <= Len(raw)
        /\ LET alen == HalfAt(raw, i)
               atype == HalfAt(raw, i + 2)
           IN  IF alen < 4 \/ i + alen > Len(raw)
               THEN /\ phase' = "scan"
                    /\ UNCHANGED <<i, out>>
               ELSE /\ out' = Append(out, [type |-> atype,
                                           val |-> SubSeq(raw, i + 5, i + alen)])
                    /\ i' = i + Align4(alen)
                    /\ UNCHANGED phase
  /\ UNCHANGED <<src, cut, info, raw, lookup, k, nominal, data>>

\* Mutant: `len(v) > 4'.
ScanStepStrict ==
  /\ phase = "scan"
  /\ \/ /\ k > Len(out)
        /\ phase' = "done"
        /\ UNCHANGED <<k, nominal, data>>
     \/ /\ k <= Len(out)
        /\ LET t == out[k].type
               v == out[k].val
           IN  IF t \in {IFLA_CAN_BITTIMING, IFLA_CAN_DATA_BITTIMING} /\ Len(v) > 4
               THEN /\ nominal' = IF t = IFLA_CAN_BITTIMING THEN U32(v) ELSE nominal
                    /\ data' = IF t = IFLA_CAN_BITTIMING THEN data ELSE U32(v)
               ELSE UNCHANGED <<nominal, data>>
        /\ k' = k + 1
        /\ UNCHANGED phase
  /\ UNCHANGED <<src, cut, info, raw, lookup, i, out>>

\* One iteration of `for t, v in tlvs', or its end (return nominal, data).
ScanStep ==
  /\ phase = "scan"
  /\ \/ /\ k > Len(out)
        /\ phase' = "done"
        /\ UNCHANGED <<k, nominal, data>>
     \/ /\ k <= Len(out)
        /\ LET t == out[k].type
               v == out[k].val
           IN  IF t \in {IFLA_CAN_BITTIMING, IFLA_CAN_DATA_BITTIMING} /\ Len(v) >= 4
               THEN /\ nominal' = IF t = IFLA_CAN_BITTIMING THEN U32(v) ELSE nominal
                    /\ data' = IF t = IFLA_CAN_BITTIMING THEN data ELSE U32(v)
               ELSE UNCHANGED <<nominal, data>>
        /\ k' = k + 1
        /\ UNCHANGED phase
  /\ UNCHANGED <<src, cut, info, raw, lookup, i, out>>

Next == ParseStep \/ ScanStep

Spec == Init /\ [][Next]_vars

-----------------------------------------------------------------------------
(* Properties *)

\* The bit rate a list of attributes carries for type t: the value of the
\* last such attribute long enough to hold a u32.
RateOf(as, t, none) ==
  LET ms == {m \in DOMAIN as : as[m].type = t /\ Len(as[m].val) >= 4}
  IN  IF ms = {} THEN none ELSE U32(as[Max(ms)].val)

\* Once the loop of _parse_tlvs ends, it has returned exactly the
\* attributes wholly contained in the bytes the kernel sent, in whichever
\* form pyroute2 handed them over, in order, with their values
\* unpadded: the align4 step lands on each next header, and a stream cut
\* inside a header or a value yields no partial attribute.
ParseFaithful ==
  (lookup = "ok" /\ phase # "parse") => out = Contained(src, cut)

\* detect_bitrates returns the rates of the last bit-timing attributes the
\* kernel sent completely, and (default, 0) when the lookup fails.
BitratesFaithful ==
  phase = "done" =>
    <<nominal, data>> =
      IF lookup = "error" THEN <<Default, 0>>
      ELSE LET got == Contained(src, cut)
           IN  <<RateOf(got, IFLA_CAN_BITTIMING, Default),
                 RateOf(got, IFLA_CAN_DATA_BITTIMING, 0)>>

=============================================================================
