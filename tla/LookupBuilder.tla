--------------------------- MODULE LookupBuilder ---------------------------
(***************************************************************************)
(* CgroupsLookupBuilder and AppsLookupBuilder.  A builder that dispatch     *)
(* made knows how large every requested item is when it is only marked      *)
(* PAYLOAD_EXCEEDED, and takes a known item only while the marks of all     *)
(* that follow still fit behind it.                                         *)
(***************************************************************************)
EXTENDS LookupCodec

\* payload_exceeded_suffix_bytes_from_lens: the bytes the marks of item i and
\* its successors take; every mark but the last is padded.
SuffixBytes(lens) ==
  LET n == Len(lens)
      s[i \in 1..n + 1] ==
        IF i = n + 1 THEN 0
        ELSE s[i + 1] + IF s[i + 1] > 0 THEN Align8(lens[i]) ELSE lens[i]
  IN  s

\* Mutant: the start of the suffix is not aligned.
SuffixFitsUnaligned(buf, data, suffix, first, max) ==
  \/ Len(suffix) # max + 1
  \/ first > max
  \/ data <= buf /\ suffix[first + 1] <= buf - data

\* first counts the items in front of the suffix.
SuffixFits(buf, data, suffix, first, max) ==
  \/ Len(suffix) # max + 1
  \/ first > max
  \/ Align8(data) <= buf /\ suffix[first + 1] <= buf - Align8(data)

FixedSuffixFits(buf, data, itemLen, first, max) ==
  \/ first > max
  \/ /\ Align8(data) <= buf
     /\ \/ first = max
        \/ itemLen + (max - first - 1) * Align8(itemLen) <= buf - Align8(data)

\* reserve is payload_exceeded_suffix_bytes, or the one-element sequence with
\* payload_exceeded_fixed_item_len.
NewBuilder(buf, max, reserve) ==
  [buf |-> buf, max |-> max, reserve |-> reserve, dir |-> <<>>, cells |-> {},
   data |-> Data(max), suffix |-> FALSE, error |-> "none"]

Put(b, item) ==
  LET at == Align8(b.data)
  IN  [b EXCEPT !.dir = Append(@, [off |-> at, len |-> item.len]),
                !.cells = @ \cup {[at |-> at, item |-> item]},
                !.data = at + item.len,
                !.error = "none"]
Failed(b, error) == [b EXCEPT !.error = error]

Room(b, item) == Len(b.dir) < b.max /\ Align8(b.data) + item.len <= b.buf

AddCgroupsNonKnown(b, status, key) ==
  LET item == NonKnownItem("cgroups", status, key)
  IN  IF Room(b, item) THEN Put(b, item) ELSE Failed(b, "Overflow")

AddAppsNonKnown(b, status, key) ==
  LET item == NonKnownItem("apps", status, key)
  IN  IF Room(b, item) THEN Put(b, item) ELSE Failed(b, "Overflow")

\* Mutant: the first item is marked for a retry like any other.
CgroupsOverflowRetries(b, key) ==
  AddCgroupsNonKnown([b EXCEPT !.suffix = TRUE], "exceeded", key)

CgroupsItemOverflow(b, key) ==
  IF b.dir = <<>> THEN AddCgroupsNonKnown(b, "oversized", key)
  ELSE AddCgroupsNonKnown([b EXCEPT !.suffix = TRUE], "exceeded", key)

AppsItemOverflow(b, key) ==
  IF b.dir = <<>> THEN AddAppsNonKnown(b, "oversized", key)
  ELSE AddAppsNonKnown([b EXCEPT !.suffix = TRUE], "exceeded", key)

BadLabels(a) == \E l \in ToSet(a.labels) : l.k = 0

\* A non-known item of the handler's that overflows is noted as an overflow.
AddCgroups(b, key, a) ==
  LET item  == KnownItem("cgroups", key, a)
      plain == AddCgroupsNonKnown(b, a.status, key)
      end   == Align8(b.data) + item.len
  IN  IF b.suffix THEN AddCgroupsNonKnown(b, "exceeded", key)
      ELSE IF Len(b.dir) >= b.max THEN Failed(b, "Overflow")
      ELSE IF \/ ~CgroupsSemantics(a.status, a.fields, CgroupsStrings(key, a), Len(a.labels))
              \/ ~a.clean
           THEN Failed(b, "BadLayout")
      ELSE IF a.status # "known"
           THEN IF plain.error = "Overflow" THEN CgroupsItemOverflow(b, key) ELSE plain
      ELSE IF BadLabels(a) THEN Failed(b, "BadLayout")
      ELSE IF end > b.buf \/ ~SuffixFits(b.buf, end, b.reserve, Len(b.dir) + 1, b.max)
           THEN CgroupsItemOverflow(b, key)
      ELSE Put(b, item)

\* The same, but a non-known item's strings are not looked at.
AddApps(b, key, a) ==
  LET item  == KnownItem("apps", key, a)
      plain == AddAppsNonKnown(b, a.status, key)
      end   == Align8(b.data) + item.len
  IN  IF b.suffix THEN AddAppsNonKnown(b, "exceeded", key)
      ELSE IF Len(b.dir) >= b.max THEN Failed(b, "Overflow")
      ELSE IF ~AppsSemantics(a.status, a.cgroup, a.fields, AppsStrings(key, a), Len(a.labels))
           THEN Failed(b, "BadLayout")
      ELSE IF a.status # "known"
           THEN IF plain.error = "Overflow" THEN AppsItemOverflow(b, key) ELSE plain
      ELSE IF ~a.clean \/ BadLabels(a) THEN Failed(b, "BadLayout")
      ELSE IF end > b.buf \/ ~FixedSuffixFits(b.buf, end, b.reserve[1], Len(b.dir) + 1, b.max)
           THEN AppsItemOverflow(b, key)
      ELSE Put(b, item)

\* Up to the handler: the builder, or the error dispatch returns at once.
DispatchCgroups(p, buf) ==
  IF ~DecodeCgroupsRequest(p) THEN Failed(NewBuilder(buf, 0, <<>>), "BadEnvelope")
  ELSE IF buf < Data(Len(p.dir)) THEN Failed(NewBuilder(buf, 0, <<>>), "Overflow")
  ELSE NewBuilder(buf, Len(p.dir),
         IF p.dir = <<>> THEN <<>>
         ELSE SuffixBytes([i \in DOMAIN p.dir |-> CgroupsHdr + p.dir[i].len + 1]))

DispatchApps(p, buf) ==
  IF ~DecodeAppsRequest(p) THEN Failed(NewBuilder(buf, 0, <<>>), "BadEnvelope")
  ELSE IF buf < Data(Len(p.dir)) THEN Failed(NewBuilder(buf, 0, <<>>), "Overflow")
  ELSE NewBuilder(buf, Len(p.dir), <<AppsHdr + 3>>)

\* What dispatch makes of the handler's return value.
HandlerDone(b, fine) ==
  IF ~fine THEN IF b.error = "none" THEN "HandlerFailed" ELSE b.error
  ELSE IF b.error = "none" /\ Len(b.dir) # b.max THEN "BadItemCount"
  ELSE b.error
=============================================================================
