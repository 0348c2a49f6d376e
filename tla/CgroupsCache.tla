---------------------------- MODULE CgroupsCache ----------------------------
(***************************************************************************)
(* The Level 3 cache of cgroups snapshots (raw/cgroups_cache.rs) and the   *)
(* server's side of the call it refreshes from (raw/cgroups_snapshot.rs,   *)
(* snapshot_dispatch).  The call itself is RawClient; here it delivers an  *)
(* answer or fails.                                                        *)
(*                                                                         *)
(* An item is [key, path], a key [id, size, home]: size is the name's      *)
(* length, and home the slot (hash ^ djb2(name)) selects in the smallest   *)
(* table.  A path is its length.  The counters and timestamps of status()  *)
(* are left out.                                                           *)
(***************************************************************************)
EXTENDS SnapshotCodec

CONSTANTS
    Tables,       \* what the provider may publish: sequences of items
    Overrides,    \* max_items given to snapshot_dispatch; 0 is "estimate"
    Limits,       \* pairs: the first session's response payload limit, and
                  \* the ceiling it may grow to
    LossyNames,   \* what from_utf8_lossy makes of the keys whose name is no
    LossyPaths,   \* UTF-8, and of such paths
    MaxGenerations, MaxFaults, MaxCloses

\* What it makes of them is UTF-8.
ASSUME LossyAssumption ==
    \A f \in {LossyNames, LossyPaths} : Range(f) \cap DOMAIN f = {}

VARIABLES
    override, ceiling, buf,
    history,      \* the tables published so far; the last is the current one
    builder,      \* the handler's builder, and the table it reads
    wire,         \* the response
    fresh, slots, \* new_items and the new buckets of a refresh
    pc, result,
    items, buckets, generation, populated,
    faults, closes

call == <<builder, wire, fresh, slots, pc, result>>
cache == <<items, buckets, generation, populated>>
provider == <<override, ceiling, history>>
vars == <<provider, buf, call, cache, faults, closes>>

NoBuilder == [serving |-> 0, b |-> SnapNew(0, 0)]
NoWire == SnapFinish(SnapNew(0, 0), 0)

Init ==
    /\ override \in Overrides
    /\ \E l \in Limits : buf = l[1] /\ ceiling = l[2]
    /\ \E t \in Tables : history = <<t>>
    /\ builder = NoBuilder /\ wire = NoWire /\ fresh = <<>> /\ slots = <<>>
    /\ pc = "idle" /\ result = "none"
    /\ items = <<>> /\ buckets = <<>> /\ generation = 0 /\ populated = FALSE
    /\ faults = 0 /\ closes = 0

-----------------------------------------------------------------------------
(* refresh() *)

Refresh ==
    /\ pc = "idle"
    /\ pc' = "asked"
    /\ UNCHANGED <<provider, buf, builder, wire, fresh, slots, result, cache, faults, closes>>

\* refresh() is over; what it worked on is dropped.
Done(outcome) ==
    /\ pc' = "idle" /\ result' = outcome
    /\ builder' = NoBuilder /\ wire' = NoWire /\ fresh' = <<>> /\ slots' = <<>>

Failed == Done("failed") /\ UNCHANGED cache

\* snapshot_dispatch up to the handler.  A budget of no items is
\* LIMIT_EXCEEDED, which makes the next session's buffer larger and the call
\* try again; a directory that does not fit panics in CgroupsBuilder::new,
\* which ends the session's thread.
Serve ==
    /\ pc = "asked"
    /\ LET budget == MaxItems(buf, override) IN
       \/ /\ budget = 0 /\ buf < ceiling
          /\ buf' = Min({2 * buf, ceiling})
          /\ UNCHANGED <<call, cache>>
       \/ /\ \/ budget = 0 /\ buf >= ceiling
             \/ SnapArea(budget) > buf
          /\ Failed
          /\ UNCHANGED buf
       \/ /\ budget # 0 /\ SnapArea(budget) <= buf
          /\ builder' = [serving |-> Len(history), b |-> SnapNew(buf, budget)]
          /\ pc' = "building"
          /\ UNCHANGED <<buf, wire, fresh, slots, result, cache>>
    /\ UNCHANGED <<provider, faults, closes>>

\* The handler adds the next item of its table.  It gives up when one does not
\* fit: HandlerFailed, which the server answers with INTERNAL_ERROR.
Add ==
    /\ pc = "building"
    /\ Len(builder.b.dir) < Len(history[builder.serving])
    /\ LET it == history[builder.serving][Len(builder.b.dir) + 1] IN
       \/ /\ SnapFits(builder.b, it)
          /\ builder' = [builder EXCEPT !.b = SnapAdd(@, it)]
          /\ UNCHANGED <<wire, fresh, slots, pc, result, cache>>
       \/ ~SnapFits(builder.b, it) /\ Failed
    /\ UNCHANGED <<provider, buf, faults, closes>>

Respond ==
    /\ pc = "building"
    /\ Len(builder.b.dir) = Len(history[builder.serving])
    /\ wire' = SnapFinish(builder.b, builder.serving)
    /\ builder' = NoBuilder
    /\ pc' = "answered"
    /\ UNCHANGED <<provider, buf, fresh, slots, result, cache, faults, closes>>

Fault == faults < MaxFaults /\ faults' = faults + 1

\* The call fails on its way, whatever RawClient tried.
Lose ==
    /\ pc \in {"asked", "building", "answered"}
    /\ Fault
    /\ Failed
    /\ UNCHANGED <<provider, buf, closes>>

\* A provider whose directory or items this decoder does not accept.
Foreign ==
    /\ pc = "answered"
    /\ Fault
    /\ \/ wire.dir # <<>> /\ wire' = [wire EXCEPT !.dir[1].off = @ + 4]
       \/ \E c \in wire.cells :
          wire' = [wire EXCEPT !.cells = (@ \ {c}) \cup {[c EXCEPT !.item.flags = 1]}]
    /\ UNCHANGED <<provider, buf, builder, fresh, slots, pc, result, cache, closes>>

Receive ==
    /\ pc = "answered"
    /\ \/ /\ SnapDecode(wire)
          /\ pc' = "copying"
          /\ UNCHANGED <<builder, wire, fresh, slots, result, cache>>
       \/ ~SnapDecode(wire) /\ Failed
    /\ UNCHANGED <<provider, buf, faults, closes>>

Text(lossy, s) == IF s \in DOMAIN lossy THEN lossy[s] ELSE s

\* The item as the cache keeps it: bytes that are no UTF-8 become U+FFFD, so
\* that several names may become one.
Cached(it) == [key |-> Text(LossyNames, it.key), path |-> Text(LossyPaths, it.path)]

\* Mutant: the first bad item ends the copy, and what was copied is kept.
CopyKeepsStart ==
    /\ pc = "copying"
    /\ Len(fresh) < Len(wire.dir)
    /\ LET i == Len(fresh) + 1 IN
       \/ /\ SnapItemOK(wire, i)
          /\ fresh' = Append(fresh, Cached(SnapRaw(wire, i).it))
          /\ UNCHANGED <<builder, wire, slots, pc, result, cache>>
       \/ /\ ~SnapItemOK(wire, i)
          /\ wire' = [wire EXCEPT !.dir = SubSeq(@, 1, i - 1)]
          /\ UNCHANGED <<builder, fresh, slots, pc, result, cache>>
    /\ UNCHANGED <<provider, buf, faults, closes>>

\* One item of the view is checked and copied; the first bad one ends it.
Copy ==
    /\ pc = "copying"
    /\ Len(fresh) < Len(wire.dir)
    /\ LET i == Len(fresh) + 1 IN
       \/ /\ SnapItemOK(wire, i)
          /\ fresh' = Append(fresh, Cached(SnapRaw(wire, i).it))
          /\ UNCHANGED <<builder, wire, slots, pc, result, cache>>
       \/ ~SnapItemOK(wire, i) /\ Failed
    /\ UNCHANGED <<provider, buf, faults, closes>>

-----------------------------------------------------------------------------
(* The open-addressing table: a slot holds an index into items, or 0. *)

BucketCount(n) == Min({b \in {16, 32, 64} : b >= 2 * n})

Slot(table, key, d) == (key.home + d) % Len(table)
Distances(table) == 0..Len(table) - 1

\* The new table, empty; an empty snapshot has none.
Allocate ==
    /\ pc = "copying"
    /\ Len(fresh) = Len(wire.dir)
    /\ slots' = IF fresh = <<>> THEN <<>> ELSE [s \in 1..BucketCount(Len(fresh)) |-> 0]
    /\ pc' = "placing"
    /\ UNCHANGED <<provider, buf, builder, wire, fresh, result, cache, faults, closes>>

Indexed == Range(slots) \ {0}

\* The first free slot from the key's own on, wrapping around.
FreeSlot(key) ==
    Slot(slots, key, Min({d \in Distances(slots) : slots[Slot(slots, key, d) + 1] = 0})) + 1

Place ==
    /\ pc = "placing"
    /\ \E i \in DOMAIN fresh :
          /\ Indexed = 1..i - 1
          /\ slots' = [slots EXCEPT ![FreeSlot(fresh[i].key)] = i]
    /\ UNCHANGED <<provider, buf, builder, wire, fresh, pc, result, cache, faults, closes>>

\* Mutant: the probe does not wrap around.
LookupNoWrap(key) ==
    IF ~populated \/ buckets = <<>> THEN 0
    ELSE LET At(d)   == buckets[Slot(buckets, key, d) + 1]
             probed  == {d \in Distances(buckets) : /\ Slot(buckets, key, d) >= Slot(buckets, key, 0)
                                                    /\ \A e \in 0..d : At(e) # 0}
             matches == {d \in probed : items[At(d)].key = key}
         IN  IF matches = {} THEN 0 ELSE At(Min(matches))

\* lookup: the probe stops at the item or at a free slot; 0 is None.
Lookup(key) ==
    IF ~populated \/ buckets = <<>> THEN 0
    ELSE LET At(d)   == buckets[Slot(buckets, key, d) + 1]
             probed  == {d \in Distances(buckets) : \A e \in 0..d : At(e) # 0}
             matches == {d \in probed : items[At(d)].key = key}
         IN  IF matches = {} THEN 0 ELSE At(Min(matches))

\* The new items, their table and the header replace the old ones.
Replace ==
    /\ pc = "placing"
    /\ Indexed = DOMAIN fresh
    /\ items' = fresh
    /\ buckets' = slots
    /\ generation' = wire.generation
    /\ populated' = TRUE
    /\ Done("updated")
    /\ UNCHANGED <<provider, buf, faults, closes>>

Close ==
    /\ pc = "idle" /\ closes < MaxCloses
    /\ closes' = closes + 1
    /\ items' = <<>> /\ buckets' = <<>> /\ populated' = FALSE
    /\ UNCHANGED <<provider, buf, call, generation, faults>>

\* The provider's cgroups change.
Publish ==
    /\ Len(history) < MaxGenerations
    /\ \E t \in Tables : history' = Append(history, t)
    /\ UNCHANGED <<override, ceiling, buf, call, cache, faults, closes>>

-----------------------------------------------------------------------------
Step == Refresh \/ Serve \/ Add \/ Respond \/ Receive \/ Copy \/ Allocate \/ Place \/ Replace

Next == Step \/ Lose \/ Foreign \/ Close \/ Publish

Spec == Init /\ [][Next]_vars

\* The caller refreshes "periodically from its own loop", and calls end.
FairSpec == Spec /\ WF_vars(Step)

-----------------------------------------------------------------------------
\* The cache is at a known place of a refresh, with one slot per item.
TypeOK ==
    /\ buf \in 1..ceiling
    /\ pc \in {"idle", "asked", "building", "answered", "copying", "placing"}
    /\ result \in {"none", "updated", "failed"}
    /\ generation \in 0..Len(history)
    /\ Len(fresh) <= Len(wire.dir)
    /\ \A i \in DOMAIN items : Cardinality({s \in DOMAIN buckets : buckets[s] = i}) = 1

\* What is cached is one published snapshot as text, whole and in its order,
\* and the generation says which: refreshes that fail half way, and tables
\* published meanwhile, leave no mixture, and no name the conversion changes is
\* dropped or merged with another.  The variables keep their types.
OneSnapshot ==
    /\ TypeOK
    /\ populated =>
          items = [i \in DOMAIN history[generation] |-> Cached(history[generation][i])]

\* What a caller, who has only UTF-8, may ask for.
Keys == UNION {{Cached(t[i]).key : i \in DOMAIN t} : t \in Tables}
Holders(key) == {i \in DOMAIN items : items[i].key = key}

\* Lookup answers with the first item that has the key, and with nothing when
\* none has it, whatever collisions and wrap-arounds the table holds, and
\* whichever names the conversion has made the same.
LookupExact ==
    \A key \in Keys : Lookup(key) = IF Holders(key) = {} THEN 0 ELSE Min(Holders(key))

\* The provider's own snapshots are never rejected: an answer on which
\* nothing went wrong decodes, and gives back the table it was built from.
AnswersDecode ==
    (pc = "answered" /\ faults = 0) =>
        /\ SnapDecode(wire)
        /\ \A i \in DOMAIN wire.dir : SnapItemOK(wire, i)
        /\ [i \in DOMAIN wire.dir |-> SnapRaw(wire, i).it] = history[wire.generation]

\* The current table needs no more than the buffer of the session: every item
\* in its aligned place behind the directory.
Servable ==
    LET max    == MaxItems(buf, override)
        t      == Last(history)
        length == [i \in DOMAIN t |-> SnapItemHdr + t[i].key.size + 1 + t[i].path + 1]
        before == FoldLeft(LAMBDA sum, n : sum + Align8(n), SnapArea(max),
                           IF t = <<>> THEN <<>> ELSE Front(length))
    IN  /\ Len(t) <= max /\ max > 0
        /\ before + (IF t = <<>> THEN 0 ELSE Last(length)) <= buf

\* Once the provider's cgroups stay as they are, the cache comes to hold them
\* for good, unless they do not fit in the session's response buffer.
CatchesUp == <>[]((populated /\ generation = Len(history)) \/ ~Servable)
=============================================================================
