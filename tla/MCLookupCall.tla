---------------------------- MODULE MCLookupCall ----------------------------
(* An instance of LookupCall for TLC.  Byte counts are real ones: a path    *)
(* that fits any request, one that needs a larger grant and one that fits   *)
(* none, the same with a NUL inside, and the empty path; answers that fit a *)
(* buffer alone, together, or only after growth.                            *)
EXTENDS LookupCall

Short == [id |-> 1, size |-> 3, text |-> TRUE]
Other == [id |-> 2, size |-> 22, text |-> TRUE]
Long  == [id |-> 3, size |-> 60, text |-> TRUE]
Empty == [Other EXCEPT !.size = 0]
Nul   == [Long EXCEPT !.text = FALSE]
Two   == [id |-> 4, size |-> 4, text |-> TRUE]

MCKeySeqs(k) ==
  IF k = "cgroups"
  THEN {<<>>, <<Long>>, <<Short, Long, Other>>, <<Two, Short, Two>>, <<Other, Two, Short>>,
        <<Two, Two, Two, Two>>, <<Short, Empty>>, <<Two, Nul>>}
  ELSE {<<>>, <<Short, Two>>, <<Two, Other, Short>>, <<Short, Two, Short>>}

Known(c, fields, comm, path, name, labels) ==
  [status |-> "known", cgroup |-> c, fields |-> fields, comm |-> comm,
   path |-> path, name |-> name, labels |-> labels, clean |-> TRUE]
Unknown(s) ==
  [status |-> s, cgroup |-> "known", fields |-> FALSE, comm |-> 0, path |-> 0,
   name |-> 0, labels |-> <<>>, clean |-> TRUE]

\* The second generation renames one entry and has one the builder refuses.
MCAnswers ==
  << << Known("known", TRUE, 4, 6, 9, <<>>),
        Unknown("retry"),
        Known("known", TRUE, 5, 1, 0, <<>>),
        Known("known", TRUE, 2, 9, 12, <<[k |-> 2, v |-> 0], [k |-> 1, v |-> 5]>>) >>,
     << Known("known", TRUE, 4, 6, 10, <<>>),
        [Known("known", TRUE, 3, 3, 3, <<>>) EXCEPT !.clean = FALSE],
        Unknown("retry"),
        Known("known", TRUE, 2, 9, 12, <<[k |-> 2, v |-> 0], [k |-> 1, v |-> 5]>>) >> >>
=============================================================================
