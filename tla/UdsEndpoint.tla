---------------------------- MODULE UdsEndpoint ----------------------------
(***************************************************************************)
(* Who owns {run_dir}/{service_name}.sock: UdsListener::bind with its      *)
(* stale recovery, and the listener's Drop (transport/posix.rs).           *)
(*                                                                         *)
(* A listener object is used once: a restarted server is another element   *)
(* of Listeners.  The file system has one entry of interest, `path`: empty,*)
(* a foreign file, a foreign non-empty directory, or the socket that one   *)
(* listener bound there.  Each system call is a step, because another      *)
(* process may run between two of them, and each may fail for a reason of  *)
(* the environment: permissions, a signal, memory or descriptors.          *)
(***************************************************************************)
CONSTANTS
    Listeners    \* every listener object any process ever creates

\* A listener is not one of the other things that can be at the path.
ASSUME ListenersAssumption == {"none", "file", "dir"} \cap Listeners = {}

VARIABLES
    path, pc,
    why,         \* why bind failed
    failed,      \* history: listeners one of whose own system calls failed
    deceived,    \* history: has a probe of a listener that was up failed
    overlapped   \* history: were two starts or stops ever under way at once

vars == <<path, pc, why, failed, deceived, overlapped>>

None == "none"
Foreign == {"file", "dir"}

Starting == {"exists", "probe", "remove", "bind", "listen", "undo"}
Stopping == {"dropped", "unlink"}
Places == {"off", "up", "ended"} \cup Starting \cup Stopping
Reasons == {"none", "live", "noProbe", "notRemoved", "bindFailed", "listenFailed"}

Init ==
    /\ path \in Foreign \cup {None}
    /\ pc = [s \in Listeners |-> "off"]
    /\ why = [s \in Listeners |-> "none"]
    /\ failed = {}
    /\ deceived = FALSE
    /\ overlapped = FALSE

Goto(s, place) == pc' = [pc EXCEPT ![s] = place]

\* The kernel accepts a connection only on a socket whose listener listens.
Connectable == path \in Listeners /\ pc[path] = "up"

Busy(s) == pc[s] \in Starting \cup Stopping
Overlap == \E s, t \in Listeners : s # t /\ Busy(s) /\ Busy(t)

\* How the system call of this step ended.
Works == UNCHANGED <<failed, deceived>>
Errs(s) == failed' = failed \cup {s} /\ UNCHANGED deceived

Refuse(s, reason) ==
    /\ Goto(s, "ended")
    /\ why' = [why EXCEPT ![s] = reason]
    /\ UNCHANGED path

-----------------------------------------------------------------------------
(* check_and_recover_stale, then socket, bind, listen. *)

Start(s) ==
    /\ pc[s] = "off"
    /\ Goto(s, "exists")
    /\ Works
    /\ UNCHANGED <<path, why>>

\* Path::exists says no when stat fails.
CheckExists(s) ==
    /\ pc[s] = "exists"
    /\ \/ Goto(s, IF path = None THEN "bind" ELSE "probe") /\ Works
       \/ Goto(s, "bind") /\ Errs(s)
    /\ UNCHANGED <<path, why>>

\* connect() fails for another reason than that nobody listens: EACCES, EINTR,
\* no memory.  Whatever is there is taken for stale.
ProbeErrs(s) ==
    /\ Goto(s, "remove")
    /\ failed' = failed \cup {s}
    /\ deceived' = (deceived \/ Connectable)
    /\ UNCHANGED <<path, why>>

\* Mutant: whatever exists is reclaimed, without asking whether it listens.
ProbeReclaimsAll(s) ==
    /\ pc[s] = "probe"
    /\ Goto(s, IF path = None THEN "bind" ELSE "remove")
    /\ Works
    /\ UNCHANGED <<path, why>>

\* Mutant: whatever exists is taken for a live server.
ProbeTrustsFile(s) ==
    /\ pc[s] = "probe"
    /\ Works
    /\ \/ path # None /\ Refuse(s, "live")
       \/ path = None /\ Goto(s, "bind") /\ UNCHANGED <<path, why>>

\* connect() on the path: a listening socket accepts, a vanished entry is
\* NotExist, everything else answers with an error.
Probe(s) ==
    /\ pc[s] = "probe"
    /\ \/ Connectable /\ Refuse(s, "live") /\ Works
       \/ /\ ~Connectable
          /\ Goto(s, IF path = None THEN "bind" ELSE "remove")
          /\ Works
          /\ UNCHANGED <<path, why>>
       \/ ProbeErrs(s)

\* No descriptor left for the probe: the entry is kept, the start fails.
CannotProbe(s) == pc[s] = "probe" /\ Refuse(s, "noProbe") /\ Errs(s)

\* remove_file / remove_dir by name, whatever is there by now.
Remove(s) ==
    /\ pc[s] = "remove"
    /\ \/ path = "dir" /\ Refuse(s, "notRemoved") /\ Works
       \/ path # "dir" /\ path' = None /\ Goto(s, "bind") /\ Works /\ UNCHANGED why
       \/ Refuse(s, "notRemoved") /\ Errs(s)

\* socket() and bind(); both may fail although the path is free.
Bind(s) ==
    /\ pc[s] = "bind"
    /\ \/ path # None /\ Refuse(s, "bindFailed") /\ Works
       \/ path = None /\ path' = s /\ Goto(s, "listen") /\ Works /\ UNCHANGED why
       \/ Refuse(s, "bindFailed") /\ Errs(s)

Listen(s) == pc[s] = "listen" /\ Goto(s, "up") /\ Works /\ UNCHANGED <<path, why>>

ListenFails(s) ==
    pc[s] = "listen" /\ Goto(s, "undo") /\ Errs(s) /\ UNCHANGED <<path, why>>

\* remove_file with its result ignored.
RemoveByName(s) ==
    \/ path' = (IF path = "dir" THEN path ELSE None) /\ Works
    \/ UNCHANGED path /\ Errs(s)

UndoBind(s) ==
    /\ pc[s] = "undo"
    /\ RemoveByName(s)
    /\ Goto(s, "ended")
    /\ why' = [why EXCEPT ![s] = "listenFailed"]

-----------------------------------------------------------------------------
(* Drop: close the descriptor, then remove the path if something is there. *)

DropListener(s) ==
    /\ pc[s] = "up"
    /\ Goto(s, "dropped")
    /\ Works
    /\ UNCHANGED <<path, why>>

DropCheck(s) ==
    /\ pc[s] = "dropped"
    /\ \/ Goto(s, IF path = None THEN "ended" ELSE "unlink") /\ Works
       \/ Goto(s, "ended") /\ Errs(s)
    /\ UNCHANGED <<path, why>>

DropUnlink(s) ==
    /\ pc[s] = "unlink"
    /\ RemoveByName(s)
    /\ Goto(s, "ended")
    /\ UNCHANGED why

\* The process dies; the kernel closes its socket and leaves the entry.
Crash(s) ==
    /\ pc[s] \notin {"off", "ended"}
    /\ Goto(s, "ended")
    /\ Works
    /\ UNCHANGED <<path, why>>

-----------------------------------------------------------------------------
Step(s) ==
    \/ Start(s) \/ CheckExists(s) \/ Probe(s) \/ CannotProbe(s)
    \/ Remove(s) \/ Bind(s) \/ Listen(s) \/ ListenFails(s) \/ UndoBind(s)
    \/ DropListener(s) \/ DropCheck(s) \/ DropUnlink(s)
    \/ Crash(s)

Next ==
    /\ \E s \in Listeners : Step(s)
    /\ overlapped' = (overlapped \/ Overlap')

Spec == Init /\ [][Next]_vars

-----------------------------------------------------------------------------
\* Every listener is at a known place and fails only with an error that bind
\* returns.
TypeOK ==
    /\ path \in Listeners \cup Foreign \cup {None}
    /\ pc \in [Listeners -> Places]
    /\ why \in [Listeners -> Reasons]
    /\ failed \subseteq Listeners
    /\ {deceived, overlapped} \subseteq BOOLEAN

\* Crashes and failing system calls at any moment, a listener that is up is
\* the one clients reach: no other start took its socket for a stale one, no
\* other stop removed it.  It holds as long as starts and stops come one at a
\* time and no probe's connect() failed on a listener that was up: the code
\* takes every such failure for a stale socket, and keeps nobody else out of
\* the time between its probe and its unlink.  The variables keep their types.
UpIsReachable ==
    /\ TypeOK
    /\ ~overlapped /\ ~deceived => \A s \in Listeners : pc[s] = "up" => path = s

\* A start none of whose own system calls failed is refused for a listener
\* that is up, for a directory that is not empty or, when starts overlap, for
\* the socket another one bound first.  What another start or stop left, at
\* whatever step it crashed or whichever of its calls failed, never keeps the
\* next server out.
RefusalIsJustified ==
    [][\A s \in Listeners : why'[s] # why[s] =>
          \/ s \in failed'
          \/ why'[s] = "live" /\ \E t \in Listeners \ {s} : path = t /\ pc[t] = "up"
          \/ why'[s] = "notRemoved" /\ path = "dir"
          \/ why'[s] = "bindFailed" /\ overlapped /\ path \in Listeners \ {s}]_vars
=============================================================================
