---------------------------- MODULE SensordStart ----------------------------
(***************************************************************************)
(* What the sensor daemon leaves on disk: the landmark with its pid, which  *)
(* keeps a second instance from running (singletonize, mark_land_owner),    *)
(* and the calibration profile, which is written by four calls of write()   *)
(* and read back when the process starts.  A process can end at any moment. *)
(***************************************************************************)
EXTENDS Naturals, FiniteSets

CONSTANTS Pids,         \* the processes that are started
          Profiles      \* the profiles the library can come to

VARIABLES
    pc,         \* where each process is
    another,    \* pid_another, what it read from the landmark
    landmark,   \* the content of the landmark, 0 for none
    file,       \* the profile file
    mem,        \* g_profile_calib of each process
    lib,        \* the profile its library works with
    computed,   \* the profiles some library has come to
    overlap,    \* a process was started before another had put up its landmark
    cut         \* a process ended in the save that replaces a file of another version

process == <<pc, another, overlap>>
disk    == <<landmark, file>>
memory  == <<mem, lib, computed>>
vars    == <<process, disk, memory, cut>>

\* The save is one of three states of a running process: after the magic, after
\* the version, after the size.
Saving == {"magic", "version", "size"}
Running == {"running"} \cup Saving
Alive(p) == pc[p] \in Running \cup {"check", "init", "truncated"}

\* head counts the bytes of the header that are right for this version; old is
\* a profile in the layout of another one.
Files == {[head |-> 0, body |-> "none"], [head |-> 1, body |-> "old"]}
         \cup [head : {3}, body : Profiles]

Init ==
    /\ pc = [p \in Pids |-> "off"] /\ another = [p \in Pids |-> 0]
    /\ landmark = 0 /\ file \in Files
    /\ mem = [p \in Pids |-> "none"] /\ lib = [p \in Pids |-> "none"]
    /\ computed = {file.body} \cap Profiles
    /\ overlap = FALSE /\ cut = FALSE

-----------------------------------------------------------------------------
\* Start.

Goto(p, l) == pc' = [pc EXCEPT ![p] = l]

\* The process reads the landmark.
Started(p) ==
    /\ pc[p] = "off"
    /\ another' = [another EXCEPT ![p] = landmark]
    /\ overlap' = (overlap \/ \E q \in Pids \ {p} : pc[q] \in {"check", "init", "truncated"})
    /\ Goto(p, "check")
    /\ UNCHANGED <<disk, memory, cut>>

\* The pid is that of another process of this program, and not a zombie.
OtherRuns(p, q) == q # 0 /\ q # p /\ Alive(q)

singletonize(p) ==
    /\ pc[p] = "check"
    /\ Goto(p, IF OtherRuns(p, another[p]) THEN "zombie" ELSE "init")
    /\ UNCHANGED <<another, overlap, disk, memory, cut>>

\* The landmark is emptied when it is opened and written then.
mark_land_owner(p) ==
    /\ pc[p] = "init"
    /\ landmark' = 0
    /\ Goto(p, "truncated")
    /\ UNCHANGED <<another, overlap, file, memory, cut>>

\* The header is not looked at.
restoreUnchecked(p) == [mem EXCEPT ![p] = IF file.body = "none" THEN @ ELSE file.body]

\* A profile counts if the whole header is right and the body is there.
restore_sensor_profile(p) ==
    [mem EXCEPT ![p] = IF file.head = 3 /\ file.body # "none" THEN file.body ELSE "none"]

\* The pid is written, then algo_init_bst hands the profile to the library.
algo_init_bst(p) ==
    /\ pc[p] = "truncated"
    /\ landmark' = p
    /\ mem' = restore_sensor_profile(p)
    /\ lib' = [lib EXCEPT ![p] = mem'[p]]
    /\ Goto(p, "running")
    /\ UNCHANGED <<another, overlap, file, computed, cut>>

-----------------------------------------------------------------------------
\* The profile.

\* The library comes to a profile.
Calibrated(p) ==
    /\ pc[p] = "running"
    /\ \E c \in Profiles : /\ lib' = [lib EXCEPT ![p] = c]
                           /\ computed' = computed \cup {c}
    /\ UNCHANGED <<process, disk, mem, cut>>

\* The module is switched on: the profile in memory goes back to the library.
algo_load_calib_profile(p) ==
    /\ pc[p] = "running" /\ mem[p] # "none"
    /\ lib' = [lib EXCEPT ![p] = mem[p]]
    /\ UNCHANGED <<process, disk, mem, computed, cut>>

\* It is switched off: the profile goes to memory and, write by write, to the
\* file.  The first write sets the magic.
algo_save_calib_profile(p) ==
    /\ \/ /\ pc[p] = "running" /\ lib[p] # "none"
          /\ mem' = [mem EXCEPT ![p] = lib[p]]
          /\ file' = [file EXCEPT !.head = IF @ < 1 THEN 1 ELSE @]
          /\ Goto(p, "magic")
       \/ /\ pc[p] = "magic"
          /\ file' = [file EXCEPT !.head = IF @ < 2 THEN 2 ELSE @]
          /\ Goto(p, "version") /\ UNCHANGED mem
       \/ /\ pc[p] = "version"
          /\ file' = [file EXCEPT !.head = 3]
          /\ Goto(p, "size") /\ UNCHANGED mem
       \/ /\ pc[p] = "size"
          /\ file' = [file EXCEPT !.body = mem[p]]
          /\ Goto(p, "running") /\ UNCHANGED mem
    /\ UNCHANGED <<another, overlap, landmark, lib, computed, cut>>

\* A process ends, and is waited for.
Ends(p) ==
    /\ Alive(p)
    /\ cut' = (cut \/ (pc[p] \in Saving /\ file.body = "old"))
    /\ mem' = [mem EXCEPT ![p] = "none"] /\ lib' = [lib EXCEPT ![p] = "none"]
    /\ Goto(p, "zombie")
    /\ UNCHANGED <<another, overlap, disk, computed>>

Reaped(p) ==
    /\ pc[p] = "zombie" /\ Goto(p, "off")
    /\ another' = [another EXCEPT ![p] = 0]
    /\ UNCHANGED <<overlap, disk, memory, cut>>

Next == \E p \in Pids : \/ Started(p) \/ singletonize(p) \/ mark_land_owner(p)
                        \/ algo_init_bst(p) \/ Calibrated(p)
                        \/ algo_load_calib_profile(p) \/ algo_save_calib_profile(p)
                        \/ Ends(p) \/ Reaped(p)

Spec == Init /\ [][Next]_vars

-----------------------------------------------------------------------------
\* Properties.

TypeOK ==
    /\ pc \in [Pids -> Running \cup {"off", "check", "init", "truncated", "zombie"}]
    /\ another \in [Pids -> Pids \cup {0}] /\ landmark \in Pids \cup {0}
    /\ file \in [head : 0 .. 3, body : Profiles \cup {"none", "old"}]
    /\ mem \in [Pids -> Profiles \cup {"none", "old"}]
    /\ lib \in [Pids -> Profiles \cup {"none", "old"}]
    /\ computed \subseteq Profiles
    /\ overlap \in BOOLEAN /\ cut \in BOOLEAN

\* Two instances run at the same time only if one was started while the other
\* was between its look at the landmark and putting up its own, a window that
\* singletonize leaves open.
OneDaemon == Cardinality({p \in Pids : pc[p] \in Running}) > 1 => overlap

\* A library works with a profile some library came to, also after a process
\* ended between two writes; the exception is the save that replaces a file of
\* another version, whose new header stands before an old body for two writes:
\* a process that ends there, or an instance started beside it, lets it pass.
ProfileWhole ==
    \A p \in Pids : lib[p] \in computed \cup {"none"} \/ (lib[p] = "old" /\ (cut \/ overlap))

-----------------------------------------------------------------------------
\* The inductive invariant.

Launching == {"check", "init", "truncated"}

\* Without the overlap one process at a time is on its way up; while a daemon
\* runs, the landmark is its, and a process on its way up has read it there.
LandmarkShows ==
    ~overlap =>
        \A p, q \in Pids : p # q =>
            /\ ~(pc[p] \in Launching /\ pc[q] \in Launching)
            /\ pc[q] \in Running =>
                   /\ landmark = q
                   /\ pc[p] \notin Running \cup {"init", "truncated"}
                   /\ pc[p] = "check" => another[p] = q

\* What a profile may be: one some library came to, or, after the exception of
\* ProfileWhole, one of another version.
Whole(c) == c \in computed \cup {"none"} \/ (c = "old" /\ (cut \/ overlap))

\* The profiles in memory are whole, and so is that of the file under a header
\* that is right, but for the process that is writing it.
ProfilesKept ==
    /\ \A p \in Pids : Whole(lib[p]) /\ Whole(mem[p])
    /\ file.body = "old" \/ Whole(file.body)
    /\ file.body = "old" /\ file.head >= 2 =>
           cut \/ overlap \/ \E p \in Pids : pc[p] \in {"version", "size"}

StartInv == TypeOK /\ LandmarkShows /\ ProfilesKept
=============================================================================
