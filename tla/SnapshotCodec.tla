--------------------------- MODULE SnapshotCodec ---------------------------
(***************************************************************************)
(* The CGROUPS_SNAPSHOT response: its builder, which reserves a directory  *)
(* for max_items and closes the gap when it finishes, and its decoder      *)
(* (protocol/cgroups_snapshot.rs).  Offsets and lengths are the code's;    *)
(* payloads and items are represented as in LookupCodec.                   *)
(***************************************************************************)
EXTENDS LookupCodec

SnapHdr     == 24   \* CGROUPS_RESP_HDR_SIZE
SnapItemHdr == 32   \* CGROUPS_ITEM_HDR_SIZE

SnapArea(count) == SnapHdr + DirEntry * count

\* estimate_cgroups_max_items
EstimateMaxItems(buf) ==
  IF buf <= SnapHdr THEN 0 ELSE (buf - SnapHdr) \div (DirEntry + Align8(SnapItemHdr + 2))

\* snapshot_max_items
MaxItems(buf, override) == IF override # 0 THEN override ELSE EstimateMaxItems(buf)

\* CgroupsBuilder::new; the caller has made sure that the directory fits.
SnapNew(buf, max) == [buf |-> buf, max |-> max, data |-> SnapArea(max), dir |-> <<>>,
                      cells |-> {}]

\* An item on the wire: 32 bytes of header, the name and the path, each with
\* its NUL.
SnapItem(it) ==
  LET path == SnapItemHdr + it.key.size + 1
  IN  [it |-> it, flags |-> 0, len |-> path + it.path + 1,
       name |-> [off |-> SnapItemHdr, len |-> it.key.size],
       path |-> [off |-> path, len |-> it.path],
       nul |-> {SnapItemHdr + it.key.size, path + it.path}]

\* Mutant: the last slot of the directory is not used.
SnapFitsStrict(b, it) == Len(b.dir) + 1 < b.max /\ Align8(b.data) + SnapItem(it).len <= b.buf

\* add succeeds, and what it writes.
SnapFits(b, it) == Len(b.dir) < b.max /\ Align8(b.data) + SnapItem(it).len <= b.buf

SnapAdd(b, it) ==
  LET item == SnapItem(it)
      at   == Align8(b.data)
  IN  [b EXCEPT !.dir = Append(@, [off |-> at, len |-> item.len]),
                !.cells = @ \cup {[at |-> at, item |-> item]},
                !.data = at + item.len]

\* Mutant: the items stay where they were written.
SnapFinishInPlace(b, generation) ==
  LET first == IF b.dir = <<>> THEN 0 ELSE b.dir[1].off
  IN  [generation |-> generation,
       dir |-> [i \in DOMAIN b.dir |-> [b.dir[i] EXCEPT !.off = @ - first]],
       cells |-> b.cells,
       len |-> IF b.dir = <<>> THEN SnapHdr ELSE SnapArea(Len(b.dir)) + (b.data - first)]

\* finish: the packed items move down to the end of the directory in use, and
\* its offsets become relative to there.
SnapFinish(b, generation) ==
  LET start == SnapArea(Len(b.dir))
      first == IF b.dir = <<>> THEN start ELSE b.dir[1].off
  IN  [generation |-> generation,
       dir |-> [i \in DOMAIN b.dir |-> [b.dir[i] EXCEPT !.off = @ - first]],
       cells |-> {[c EXCEPT !.at = @ - (first - start)] : c \in b.cells},
       len |-> IF b.dir = <<>> THEN SnapHdr ELSE start + (b.data - first)]

\* CgroupsResponseView::decode checks the directory, not the items.
SnapDecode(p) ==
  /\ SnapArea(Len(p.dir)) <= p.len
  /\ \A i \in DOMAIN p.dir :
       /\ p.dir[i].off % 8 = 0
       /\ p.dir[i].off + p.dir[i].len <= p.len - SnapArea(Len(p.dir))
       /\ p.dir[i].len >= SnapItemHdr

\* What the directory's i-th entry leads to.
SnapRaw(p, i) ==
  LET hit == {c \in p.cells : c.at = SnapArea(Len(p.dir)) + p.dir[i].off
                              /\ c.item.len = p.dir[i].len}
  IN  IF hit = {} THEN Garbage ELSE (CHOOSE c \in hit : TRUE).item

SnapString(item, s) ==
  /\ s.off >= SnapItemHdr
  /\ s.off + s.len + 1 <= item.len
  /\ s.off + s.len \in item.nul

\* CgroupsResponseView::item succeeds.
SnapItemOK(p, i) ==
  LET item == SnapRaw(p, i)
  IN  /\ item # Garbage
      /\ item.flags = 0
      /\ SnapString(item, item.name)
      /\ SnapString(item, item.path)
      /\ ~Overlap(item.name, item.path)
=============================================================================
