---------------------------- MODULE LookupCodec ----------------------------
(***************************************************************************)
(* The CGROUPS_LOOKUP and APPS_LOOKUP codecs: requests, response items, and *)
(* the response builder that keeps room for the items it has not seen yet.  *)
(*                                                                          *)
(* Offsets and lengths are the code's, in bytes; contents are abstract.  A  *)
(* payload is its length, its directory of [off, len] entries and its       *)
(* cells, each saying what was written where; reading through the directory *)
(* finds what was written exactly there, or Garbage.  An item is its fields *)
(* and the offsets of the zero bytes written into it, its string            *)
(* terminators and padding.  The header's constant fields, and the checked  *)
(* arithmetic on sizes no buffer can have, are left out.                    *)
(***************************************************************************)
EXTENDS Integers, Sequences, SequencesExt, FiniteSetsExt

CgroupsHdr == 28   \* CGROUPS_LOOKUP_ITEM_HDR_SIZE
AppsHdr    == 60   \* APPS_LOOKUP_ITEM_HDR_SIZE
Hdr        == 16   \* every lookup request and response header
DirEntry   == 8    \* LOOKUP_DIR_ENTRY_SIZE
AppsKey    == 8    \* APPS_LOOKUP_KEY_SIZE

ItemHdr(kind) == IF kind = "cgroups" THEN CgroupsHdr ELSE AppsHdr

Align8(n)   == ((n + 7) \div 8) * 8
Data(count) == Hdr + DirEntry * count      \* lookup_data_offset
Garbage     == [len |-> -1]

\* Where strings of these lengths start when each follows the NUL of the one
\* before; the last entry is the end.
Starts(at, lens) ==
  LET s[i \in 1..Len(lens) + 1] ==
        IF i = 1 THEN at ELSE s[i - 1] + lens[i - 1] + 1
  IN  s

-----------------------------------------------------------------------------
(* Directories.                                                             *)

\* lens: the item lengths the caller accepts.
ValidateLookupDir(dir, packed, lens) ==
  \A i \in 1..Len(dir) :
    /\ dir[i].off % 8 = 0
    /\ dir[i].len \in lens
    /\ dir[i].off + dir[i].len <= packed
    /\ i > 1 => dir[i].off >= dir[i - 1].off + dir[i - 1].len

\* checked_subslice through entry i: the packed area follows the directory.
RawItem(p, i) ==
  LET at  == Data(Len(p.dir)) + p.dir[i].off
      hit == {c \in p.cells : c.at = at /\ c.item.len = p.dir[i].len}
  IN  IF hit = {} THEN Garbage ELSE (CHOOSE c \in hit : TRUE).item

-----------------------------------------------------------------------------
(* Requests.  A key is a cgroup path or a pid; [id, size, text], where size *)
(* is the path's length and text that no NUL is inside; a pid has neither.  *)

\* One pass of the layout: items of these sizes, each aligned, from data on.
Placed(data, sizes) ==
  LET end[i \in 0..Len(sizes)] ==
        IF i = 0 THEN data ELSE Align8(end[i - 1]) + sizes[i]
  IN  [ends |-> end, at |-> [i \in 1..Len(sizes) |-> Align8(end[i - 1])]]

\* Mutant: the size of the paths is added up without their alignment.
UnalignedRequestSize(paths) ==
  Starts(Data(Len(paths)), [i \in DOMAIN paths |-> paths[i].size])[Len(paths) + 1]

CgroupsRequestSize(paths) ==
  Placed(Data(Len(paths)), [i \in DOMAIN paths |-> paths[i].size + 1]).ends[Len(paths)]

AppsRequestSize(count) == Hdr + (DirEntry + AppsKey) * count

\* The binary search for the longest prefix of paths that fits in cap bytes;
\* zero is the code's Overflow.
CgroupsNextRequestCount(paths, cap) ==
  LET n == Len(paths)
      Fits(c) == CgroupsRequestSize(SubSeq(paths, 1, c)) <= cap
      search[lo \in 1..n + 1, hi \in 0..n, best \in 0..n] ==
        LET mid == lo + (hi - lo) \div 2
        IN  IF lo > hi THEN best
            ELSE IF Fits(mid) THEN search[mid + 1, hi, mid]
            ELSE search[lo, mid - 1, best]
  IN  search[1, n, 0]

AppsNextRequestCount(remaining, cap) ==
  LET perItem == DirEntry + AppsKey
  IN  IF cap < Hdr + perItem THEN 0
      ELSE Min({remaining, (cap - Hdr) \div perItem})

Payload(data, items) ==
  LET p == Placed(data, [i \in DOMAIN items |-> items[i].len])
  IN  [dir |-> [i \in DOMAIN items |-> [off |-> p.at[i] - data, len |-> items[i].len]],
       cells |-> {[at |-> p.at[i], item |-> items[i]] : i \in DOMAIN items},
       len |-> p.ends[Len(items)]]

\* source_string_invalid of a path: no request carries it.
SourceStringInvalid(path) == path.size = 0 \/ ~path.text

\* encode_cgroups_lookup_request, once no path is refused.
EncodeCgroupsRequest(paths) ==
  Payload(Data(Len(paths)),
          [i \in DOMAIN paths |-> [key |-> paths[i], len |-> paths[i].size + 1,
                                   nul |-> {paths[i].size}]])

EncodeAppsRequest(pids) ==
  Payload(Data(Len(pids)),
          [i \in DOMAIN pids |-> [key |-> pids[i], len |-> AppsKey,
                                  nul |-> 4..7]])

DecodeCgroupsRequest(p) ==
  /\ Data(Len(p.dir)) <= p.len
  /\ ValidateLookupDir(p.dir, p.len - Data(Len(p.dir)), 2..p.len)
  /\ \A i \in DOMAIN p.dir :
       LET key == RawItem(p, i) IN key # Garbage /\ key.nul = {key.len - 1}

DecodeAppsRequest(p) ==
  /\ Data(Len(p.dir)) <= p.len
  /\ ValidateLookupDir(p.dir, p.len - Data(Len(p.dir)), {AppsKey})
  /\ \A i \in DOMAIN p.dir : RawItem(p, i) # Garbage /\ 4..7 \subseteq RawItem(p, i).nul

RequestItem(p, i) == RawItem(p, i).key

-----------------------------------------------------------------------------
(* Items.  An answer is what a handler passes to the builder: a status, the *)
(* lengths of the strings after the key, and label lengths [k, v].  Its     *)
(* fields are set when the orchestrator is or, where the item is not known, *)
(* any of its numbers: those of a known process are free.                   *)

LabelEntry == 16   \* LOOKUP_LABEL_ENTRY_SIZE

\* label_layout: table start and item size.
LabelTable(fixedEnd, labels) == IF labels = <<>> THEN fixedEnd ELSE Align8(fixedEnd)
LabelStrings(labels) ==
  [i \in 1..2 * Len(labels) |->
     IF i % 2 = 1 THEN labels[(i + 1) \div 2].k ELSE labels[i \div 2].v]
LabelLayout(fixedEnd, labels) ==
  Starts(LabelTable(fixedEnd, labels) + LabelEntry * Len(labels),
         LabelStrings(labels))[2 * Len(labels) + 1]

\* write_lookup_labels: the table's entries, its strings packed behind it.
WriteLabels(table, labels) ==
  LET at == Starts(table + LabelEntry * Len(labels), LabelStrings(labels))
  IN  [i \in DOMAIN labels |->
         [key |-> [off |-> at[2 * i - 1], len |-> labels[i].k],
          value |-> [off |-> at[2 * i], len |-> labels[i].v]]]

WriteItem(hdr, key, answer, lens) ==
  LET at     == Starts(hdr, lens)
      fixed  == at[Len(lens) + 1]
      table  == LabelTable(fixed, answer.labels)
      labels == WriteLabels(table, answer.labels)
  IN  [key |-> key, status |-> answer.status, cgroup |-> answer.cgroup,
       fields |-> answer.fields,
       strs |-> [i \in DOMAIN lens |-> [off |-> at[i], len |-> lens[i]]],
       labels |-> labels,
       nul |-> {at[i] + lens[i] : i \in DOMAIN lens} \cup (fixed..table - 1)
                 \cup {l.key.off + l.key.len : l \in ToSet(labels)}
                 \cup {l.value.off + l.value.len : l \in ToSet(labels)},
       len |-> LabelLayout(fixed, answer.labels)]

\* The strings of an item: path and name, or comm, path and name.
CgroupsStrings(key, answer) == <<key.size, answer.name>>
AppsStrings(key, answer)    == <<answer.comm, answer.path, answer.name>>
Strings(kind, key, answer)  ==
  IF kind = "cgroups" THEN CgroupsStrings(key, answer) ELSE AppsStrings(key, answer)
KnownItem(kind, key, answer) ==
  WriteItem(ItemHdr(kind), key, answer, Strings(kind, key, answer))

Blank(status) == [status |-> status, cgroup |-> "known", fields |-> FALSE,
                  comm |-> 0, path |-> 0, name |-> 0, labels |-> <<>>]
NonKnownItem(kind, status, key) == KnownItem(kind, key, Blank(status))

Statuses == {"known", "retry", "permanent", "exceeded", "oversized"}

CgroupsSemantics(status, fields, lens, labels) ==
  /\ status \in Statuses
  /\ lens[1] > 0
  /\ status # "known" => ~fields /\ lens[2] = 0 /\ labels = 0

AppsSemantics(status, cgroup, fields, lens, labels) ==
  /\ status \in {"known", "retry", "exceeded", "oversized"}  \* retry: PID_LOOKUP_UNKNOWN
  /\ cgroup \in {"known", "retry", "permanent", "host"}
  /\ lens[1] <= 15
  /\ IF status # "known"
     THEN ~fields /\ cgroup = "known" /\ lens = <<0, 0, 0>> /\ labels = 0
     ELSE /\ lens[1] > 0
          /\ cgroup \in {"known", "permanent"} => lens[2] > 0
          /\ cgroup = "host" => lens[2] = 0
          /\ cgroup # "known" => ~fields /\ lens[3] = 0 /\ labels = 0

\* lookup_string: inside the item, past its header, ended by its first NUL.
LookupString(item, hdr, s) ==
  /\ s.off >= hdr
  /\ s.off + s.len < item.len
  /\ item.nul \cap (s.off..s.off + s.len) = {s.off + s.len}
End(s) == s.off + s.len + 1
Overlap(a, b) == a.off < End(b) /\ b.off < End(a)

ValidateLabels(item, hdr, fixedEnd) ==
  LET n        == Len(item.labels)
      table    == Align8(fixedEnd)
      After(i) == IF i = 0 THEN table + LabelEntry * n ELSE End(item.labels[i].value)
  IN  IF n = 0 THEN fixedEnd = item.len
      ELSE /\ table + LabelEntry * n <= item.len
           /\ fixedEnd..table - 1 \subseteq item.nul
           /\ \A i \in 1..n :
                LET l == item.labels[i]
                IN  /\ l.key.len > 0 /\ l.key.off = After(i - 1)
                    /\ LookupString(item, hdr, l.key)
                    /\ l.value.off = End(l.key)
                    /\ LookupString(item, hdr, l.value)
           /\ After(n) = item.len

DecodeCgroupsItem(item) ==
  /\ item.len >= CgroupsHdr
  /\ CgroupsSemantics(item.status, item.fields,
                      [i \in 1..2 |-> item.strs[i].len], Len(item.labels))
  /\ \A i \in 1..2 : LookupString(item, CgroupsHdr, item.strs[i])
  /\ ~Overlap(item.strs[1], item.strs[2])
  /\ ValidateLabels(item, CgroupsHdr, Max({End(item.strs[i]) : i \in 1..2}))

DecodeAppsItem(item) ==
  /\ item.len >= AppsHdr
  /\ AppsSemantics(item.status, item.cgroup, item.fields,
                   [i \in 1..3 |-> item.strs[i].len], Len(item.labels))
  /\ \A i \in 1..3 : LookupString(item, AppsHdr, item.strs[i])
  /\ \A i, j \in 1..3 : i < j => ~Overlap(item.strs[i], item.strs[j])
  /\ ValidateLabels(item, AppsHdr, Max({End(item.strs[i]) : i \in 1..3}))

DecodeItem(kind, item) ==
  item # Garbage /\ IF kind = "cgroups" THEN DecodeCgroupsItem(item) ELSE DecodeAppsItem(item)

-----------------------------------------------------------------------------
(* Responses.                                                               *)

\* finish_lookup_response: move the items down behind the directory's actual
\* entries and make their offsets relative to the first one.
FinishLookupResponse(dir, cells, data, generation) ==
  IF dir = <<>>
  THEN [generation |-> generation, dir |-> <<>>, cells |-> {}, len |-> Hdr]
  ELSE LET first == dir[1].off
           move  == Max({first - Data(Len(dir)), 0})
       IN  [generation |-> generation,
            dir |-> [i \in DOMAIN dir |-> [dir[i] EXCEPT !.off = @ - first]],
            cells |-> {[c EXCEPT !.at = @ - move] : c \in cells},
            len |-> Data(Len(dir)) + data - first]

DecodeCgroupsResponse(p) ==
  /\ p.len >= Data(Len(p.dir))
  /\ ValidateLookupDir(p.dir, p.len - Data(Len(p.dir)), CgroupsHdr..p.len)
  /\ \A i \in DOMAIN p.dir : DecodeItem("cgroups", RawItem(p, i))

DecodeAppsResponse(p) ==
  /\ p.len >= Data(Len(p.dir))
  /\ ValidateLookupDir(p.dir, p.len - Data(Len(p.dir)), AppsHdr..p.len)
  /\ \A i \in DOMAIN p.dir : DecodeItem("apps", RawItem(p, i))

DecodeResponse(kind, p) ==
  IF kind = "cgroups" THEN DecodeCgroupsResponse(p) ELSE DecodeAppsResponse(p)

\* lookup_raw_response_size, and encode_raw_response into a buffer of that size.
RawResponseSize(items) ==
  Placed(Data(Len(items)), [i \in DOMAIN items |-> items[i].len]).ends[Len(items)]

EncodeRawResponse(items, generation) ==
  LET p == Placed(Data(Len(items)), [i \in DOMAIN items |-> items[i].len])
  IN  FinishLookupResponse(
        [i \in DOMAIN items |-> [off |-> p.at[i], len |-> items[i].len]],
        {[at |-> p.at[i], item |-> items[i]] : i \in DOMAIN items},
        p.ends[Len(items)], generation)
=============================================================================
