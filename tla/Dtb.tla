-------------------------------- MODULE Dtb ---------------------------------
(***************************************************************************)
(* The DTB parser of src/axdtb/axdtb/src/{lib,util}.rs.  At boot, parse()  *)
(* reads the header with DeviceTree::init and walks the structure block    *)
(* with the recursive DeviceTree::parse, calling back once per node with   *)
(* its name, the #address-cells / #size-cells in effect and its props.     *)
(* Both unwrap, so any error is a panic at boot.                           *)
(*                                                                         *)
(* The parser is written as operators over the byte sequence; every read   *)
(* returns a result record and Bind plays the part of Rust's `?`.  The     *)
(* input is built by a reference encoder (Encode) from a bounded set of    *)
(* trees, written from the DTB v17 format and not from the parser, and     *)
(* the parser's callbacks are compared with a reference walk (Expected).   *)
(***************************************************************************)
EXTENDS Integers, SequencesExt

CONSTANTS
  Names,      \* node names (ASCII byte sequences) of non-root nodes
  PropLists,  \* property lists a node may carry: <<[name, val, num]>>
  Cuts,       \* bytes a header's totalsize may fall short of the blob (0: exact)
  NopChoices  \* whether the structure block may start with an FDT_NOP token

VARIABLES
  tree,     \* the device tree the firmware meant to pass
  variant,  \* how its blob is presented: [cut, nop]
  blob,     \* the bytes at dtb_va
  phase,    \* "boot" before parse(), "done" after it
  res       \* what parse() produced: callbacks, or the error it unwrapped

vars == <<tree, variant, blob, phase, res>>

\* A u32 is kept as its four bytes, most significant first (TLC's integers
\* are 32-bit signed, too narrow for 0xd00dfeed); U32 is `as usize`.
BE32(n) == <<(n \div 16777216) % 256, (n \div 65536) % 256, (n \div 256) % 256, n % 256>>
U32(w) == ((w[1] * 256 + w[2]) * 256 + w[3]) * 256 + w[4]

\* Tokens and header constants of lib.rs.
MAGIC_NUMBER == <<208, 13, 254, 237>>   \* 0xd00dfeed
SUPPORTED_VERSION == BE32(17)
OF_DT_BEGIN_NODE == BE32(1)
OF_DT_END_NODE == BE32(2)
OF_DT_PROP == BE32(3)

\* The property names parse() compares with, abbreviated to two bytes each
\* ("#a", "#s"), and a third name standing for any other property ("r").
AddressCellsName == <<35, 97>>
SizeCellsName == <<35, 115>>
RegName == <<114>>

-----------------------------------------------------------------------------
(* Results and `?`.                                                        *)

Ok(x) == [ok |-> TRUE, err |-> "none", v |-> x]
Err(e) == [ok |-> FALSE, err |-> e, v |-> <<>>]
Bind(r, F(_)) == IF r.ok THEN F(r.v) ELSE r

\* axtype::align_up(x, 4).
AlignUp(x) == ((x + 3) \div 4) * 4

\* str::from_utf8.  The inputs hold ASCII bytes only, for which it succeeds.
Utf8Ok(s) == \A i \in 1..Len(s) : s[i] < 128

-----------------------------------------------------------------------------
(* SliceRead for &[u8] (util.rs).  Offsets are 0-based as in Rust.         *)

\* Mutant: the bytes assembled little-endian.
ReadLeU32(b, pos) ==
  IF pos + 4 <= Len(b)
  THEN Ok(<<b[pos + 4], b[pos + 3], b[pos + 2], b[pos + 1]>>)
  ELSE Err("SliceReadError")

\* read_be_u32: bounds check, then b[pos] << 24 | ... | b[pos+3].
ReadBeU32(b, pos) ==
  IF pos + 4 <= Len(b)
  THEN Ok(<<b[pos + 1], b[pos + 2], b[pos + 3], b[pos + 4]>>)
  ELSE Err("SliceReadError")

\* Mutant: a string with no NUL before the end of the slice runs to the end.
ReadBstring0ToEnd(b, pos) ==
  LET nul == {c \in pos..Len(b) - 1 : b[c + 1] = 0}
  IN  IF nul = {} THEN Ok(SubSeq(b, pos + 1, Len(b))) ELSE Ok(SubSeq(b, pos + 1, Min(nul)))

\* Mutant: the returned slice includes the NUL.
ReadBstring0WithNul(b, pos) ==
  LET nul == {c \in pos..Len(b) - 1 : b[c + 1] = 0}
  IN  IF nul = {} THEN Err("SliceReadError") ELSE Ok(SubSeq(b, pos + 1, Min(nul) + 1))

ReadBstring0(b, pos) ==
  LET nul == {c \in pos..Len(b) - 1 : b[c + 1] = 0}
  IN  IF nul = {} THEN Err("SliceReadError") ELSE Ok(SubSeq(b, pos + 1, Min(nul)))

\* subslice(start, end): refuses end = len.
Subslice(b, start, end) ==
  IF end < Len(b) THEN Ok(SubSeq(b, start + 1, end)) ELSE Err("SliceReadError")

-----------------------------------------------------------------------------
(* DeviceTree::init and DeviceTree::parse (lib.rs).                        *)

\* init: the first 24 bytes at ptr hold the header; parse later views
\* totalsize bytes from ptr as buf.
DtInit(mem) ==
  LET hdr == SubSeq(mem, 1, 24)
  IN  Bind(ReadBeU32(hdr, 0), LAMBDA magic :
        IF magic # MAGIC_NUMBER THEN Err("BadMagicNumber") ELSE
        Bind(ReadBeU32(hdr, 20), LAMBDA version :
          IF version # SUPPORTED_VERSION THEN Err("VersionNotSupported") ELSE
          Bind(ReadBeU32(hdr, 4), LAMBDA totalsize :
            Bind(ReadBeU32(hdr, 8), LAMBDA off_struct :
              Bind(ReadBeU32(hdr, 12), LAMBDA off_strings :
                Ok([buf |-> SubSeq(mem, 1, U32(totalsize)), off_struct |-> U32(off_struct),
                    off_strings |-> U32(off_strings)]))))))

\* The #address-cells / #size-cells update of the props loop.
CellsOf(pname, cellsName, val, cur) ==
  IF pname = cellsName THEN Bind(ReadBeU32(val, 0), LAMBDA w : Ok(U32(w))) ELSE Ok(cur)

\* The props loop: while the next token is OF_DT_PROP.
RECURSIVE Props(_, _, _, _, _)
Props(dt, pos, ac, sc, props) ==
  Bind(ReadBeU32(dt.buf, pos), LAMBDA tok :
    IF tok # OF_DT_PROP THEN Ok([pos |-> pos, ac |-> ac, sc |-> sc, props |-> props]) ELSE
    Bind(ReadBeU32(dt.buf, pos + 4), LAMBDA val_size :
    Bind(ReadBeU32(dt.buf, pos + 8), LAMBDA name_offset :
    Bind(Subslice(dt.buf, pos + 12, pos + 12 + U32(val_size)), LAMBDA val :
    Bind(ReadBstring0(dt.buf, dt.off_strings + U32(name_offset)), LAMBDA pname :
      IF ~Utf8Ok(pname) THEN Err("Utf8Error") ELSE
      Bind(CellsOf(pname, AddressCellsName, val, ac), LAMBDA ac2 :
      Bind(CellsOf(pname, SizeCellsName, val, sc), LAMBDA sc2 :
        Props(dt, AlignUp(pos + 12 + U32(val_size)), ac2, sc2,
              Append(props, <<pname, val>>)))))))))

RECURSIVE Parse(_, _, _, _, _), Children(_, _, _, _, _)

\* The children loop: while the next token is OF_DT_BEGIN_NODE, recurse
\* with this node's cells.
Children(dt, pos, ac, sc, cbs) ==
  Bind(ReadBeU32(dt.buf, pos), LAMBDA tok :
    IF tok # OF_DT_BEGIN_NODE THEN Ok([pos |-> pos, cbs |-> cbs]) ELSE
    Bind(Parse(dt, pos, ac, sc, cbs), LAMBDA r : Children(dt, r.pos, ac, sc, r.cbs)))

\* DeviceTree::parse: BEGIN token, name, props, the callback (appended to
\* cbs), children, END token; returns the position after END.
Parse(dt, pos, ac, sc, cbs) ==
  Bind(ReadBeU32(dt.buf, pos), LAMBDA tok :
    IF tok # OF_DT_BEGIN_NODE THEN Err("ParseError") ELSE
    Bind(ReadBstring0(dt.buf, pos + 4), LAMBDA raw_name :
    Bind(Props(dt, AlignUp(pos + 4 + Len(raw_name) + 1), ac, sc, <<>>), LAMBDA pr :
      IF ~Utf8Ok(raw_name) THEN Err("Utf8Error") ELSE
      Bind(Children(dt, pr.pos, pr.ac, pr.sc,
                    Append(cbs, [name |-> raw_name, ac |-> pr.ac, sc |-> pr.sc,
                                 props |-> pr.props])), LAMBDA ch :
      Bind(ReadBeU32(dt.buf, ch.pos), LAMBDA end :
        IF end # OF_DT_END_NODE THEN Err("ParseError")
        ELSE Ok([pos |-> ch.pos + 4, cbs |-> ch.cbs]))))))

\* The free function parse(dtb_va, cb): init, then parse from off_struct
\* with zero cells.  Both results are unwrapped: an Err here is a panic.
ParseDtb(mem) ==
  Bind(DtInit(mem), LAMBDA dt : Parse(dt, dt.off_struct, 0, 0, <<>>))

-----------------------------------------------------------------------------
(* Reference: the DTB v17 encoding of a tree, and the walk a parser owes.  *)

FDT_NOP == BE32(4)
FDT_END == BE32(9)

\* Zero padding to a 4-byte boundary.
Pad(s) == s \o [i \in 1..((4 - (Len(s) % 4)) % 4) |-> 0]

\* The strings block: each property name once, NUL-terminated.
StrTab == AddressCellsName \o <<0>> \o SizeCellsName \o <<0>> \o RegName \o <<0>>
StrOff(name) ==
  CASE name = AddressCellsName -> 0
    [] name = SizeCellsName    -> Len(AddressCellsName) + 1
    [] name = RegName          -> Len(AddressCellsName) + Len(SizeCellsName) + 2

EncProp(p) == OF_DT_PROP \o BE32(Len(p.val)) \o BE32(StrOff(p.name)) \o Pad(p.val)

RECURSIVE EncNode(_)
EncNode(n) ==
  OF_DT_BEGIN_NODE \o Pad(n.name \o <<0>>)
    \o FlattenSeq([i \in 1..Len(n.props) |-> EncProp(n.props[i])])
    \o FlattenSeq([i \in 1..Len(n.children) |-> EncNode(n.children[i])])
    \o OF_DT_END_NODE

\* Header (40 bytes), empty memory reservation block (16 bytes), structure
\* block, strings block.  v.nop puts an FDT_NOP before the root, which the
\* format allows wherever a token may stand; v.cut makes totalsize short.
HeaderSize == 40
StructOff == HeaderSize + 16
StructBlock(t, v) == (IF v.nop THEN FDT_NOP ELSE <<>>) \o EncNode(t) \o FDT_END
Encode(t, v) ==
  LET sb    == StructBlock(t, v)
      total == StructOff + Len(sb) + Len(StrTab)
  IN  MAGIC_NUMBER \o BE32(total - v.cut) \o BE32(StructOff)
        \o BE32(StructOff + Len(sb)) \o BE32(HeaderSize) \o SUPPORTED_VERSION
        \o BE32(16) \o BE32(0) \o BE32(Len(StrTab)) \o BE32(Len(sb))
        \o [i \in 1..16 |-> 0] \o sb \o StrTab

\* Cells a node declares for its children, or the inherited ones.
DeclaredCells(n, name, inherited) ==
  LET at == {i \in 1..Len(n.props) : n.props[i].name = name}
  IN  IF at = {} THEN inherited ELSE n.props[Max(at)].num

\* One callback per node in document order, with the cells in effect.
RECURSIVE Expect(_, _, _)
Expect(n, ac, sc) ==
  LET ac2 == DeclaredCells(n, AddressCellsName, ac)
      sc2 == DeclaredCells(n, SizeCellsName, sc)
  IN  <<[name |-> n.name, ac |-> ac2, sc |-> sc2,
         props |-> [i \in 1..Len(n.props) |-> <<n.props[i].name, n.props[i].val>>]]>>
        \o FlattenSeq([i \in 1..Len(n.children) |-> Expect(n.children[i], ac2, sc2)])

Expected(t) == Expect(t, 0, 0)

\* Trees of depth up to three: a root (empty name) with no child, one
\* child that may have a child, or two leaf children.
Leaves == [name : Names, props : PropLists, children : {<<>>}]
Mids == [name : Names, props : PropLists, children : {<<>>} \cup {<<l>> : l \in Leaves}]
Trees == [name : {<<>>}, props : PropLists,
          children : {<<>>} \cup {<<m>> : m \in Mids} \cup {<<l1, l2>> : l1, l2 \in Leaves}]

Variants == [cut : Cuts, nop : NopChoices]

NoResult == Err("unset")

-----------------------------------------------------------------------------

\* The firmware leaves some blob at dtb_va.
Init ==
  /\ tree \in Trees
  /\ variant \in Variants
  /\ blob = Encode(tree, variant)
  /\ phase = "boot"
  /\ res = NoResult

\* The boot code calls parse(dtb_va, cb).
Boot ==
  /\ phase = "boot"
  /\ phase' = "done"
  /\ res' = ParseDtb(blob)
  /\ UNCHANGED <<tree, variant, blob>>

Next == Boot

Spec == Init /\ [][Next]_vars

-----------------------------------------------------------------------------
(* Properties.                                                             *)

NameBytes == 1..255

\* parse's results: a name handed to the callback is a C string body, with
\* no NUL in it; the returned position lies inside the blob.
TypeOK ==
  /\ phase \in {"boot", "done"}
  /\ res.ok =>
       /\ res.v.pos \in 0..Len(blob)
       /\ \A i \in 1..Len(res.v.cbs) :
            /\ res.v.cbs[i].name \in Seq(NameBytes)
            /\ \A j \in 1..Len(res.v.cbs[i].props) : res.v.cbs[i].props[j][1] \in Seq(NameBytes)

\* A well-formed v17 blob whose header is honest is accepted: parse calls
\* back once per node, in document order, with each node's props and the
\* cells it declares or inherits (never a sibling's), and returns the
\* position just after the root's END token.
DecodesWellFormed ==
  (phase = "done" /\ variant.cut = 0) =>
    /\ res.ok
    /\ res.v.cbs = Expected(tree)
    /\ res.v.pos = StructOff + Len(StructBlock(tree, variant)) - 4

\* A header whose totalsize cuts off part of the blob never makes parse
\* report a different tree: it either panics or reports exactly the tree.
TruncationNeverMisread ==
  (phase = "done" /\ res.ok) => res.v.cbs = Expected(tree)

=============================================================================
