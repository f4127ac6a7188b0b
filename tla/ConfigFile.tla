------------------------------- MODULE ConfigFile ------------------------------
(***************************************************************************)
(* The configuration file: create_config of src/config.rs, and what        *)
(* load_config makes of the file that create_config leaves.                *)
(*                                                                         *)
(* Each process that runs "create-config" looks whether the file exists    *)
(* and later opens it, which truncates it, and writes it: other processes  *)
(* run in between, and the process may be killed between any two steps.    *)
(***************************************************************************)
EXTENDS Naturals

CONSTANTS
    Creators,  \* processes that run create-config; each has its own token
    Absent,    \* there is no file
    Garbled    \* the file does not parse: the rest of a longer configuration
               \* follows a shorter one

(* What a file can hold, as far as load_config tells it apart: its version  *)
(* entry, whether the base and runtime sections are complete, and whose     *)
(* token it has.                                                            *)
Versions == {"none", "v0.1.0", "other", "no_string"}

Content == [version : Versions, base : BOOLEAN, runtime : BOOLEAN,
            token : Creators \cup {"none"}]

Empty == [version |-> "none", base |-> FALSE, runtime |-> FALSE, token |-> "none"]

ASSUME CreatorsAssumption == 
    /\ "none" \notin Creators
    /\ Absent \notin Content /\ Garbled \notin Content /\ Absent # Garbled

VARIABLES
    file,     \* the file's content, or Absent
    pc,       \* where each creator is
    force,    \* does the creator run with --force?
    first,    \* history: what the file held at the start
    last,     \* history: the creator that truncated the file last, or "none"
    overlap   \* history: two creators had the file open at the same time

historyVars == <<first, last, overlap>>

vars == <<file, pc, force, historyVars>>

-------------------------------------------------------------------------------
(* Configuration::new                                                       *)
NewConfig(c) == [version |-> "v0.1.0", base |-> TRUE, runtime |-> TRUE, token |-> c]

(* Files of before: none, of this version, of another, or edited by hand.   *)
OldFiles == {Absent} \cup [version : Versions, base : BOOLEAN, runtime : BOOLEAN,
                           token : {"none"}]

Init ==
    /\ file \in OldFiles
    /\ pc = [c \in Creators |-> "start"]
    /\ force \in [Creators -> BOOLEAN]
    /\ first = file /\ last = "none" /\ overlap = FALSE

Goto(c, label) == pc' = [pc EXCEPT ![c] = label]

(* Fault: an existing file never stops it.                                  *)
NeverRefuses(c) == FALSE

Refuses(c) == file # Absent /\ ~force[c]

(* The test for an existing file; the configuration is built in between.    *)
Check(c) ==
    /\ pc[c] = "start"
    /\ Goto(c, IF Refuses(c) THEN "refused" ELSE "checked")
    /\ UNCHANGED <<file, force, historyVars>>

(* The directory cannot be created or the file not opened.                  *)
Fail(c) ==
    /\ pc[c] = "checked"
    /\ Goto(c, "failed")
    /\ UNCHANGED <<file, force, historyVars>>

(* fs::write opens the file and truncates it ...                            *)
Truncate(c) ==
    /\ pc[c] = "checked"
    /\ Goto(c, "opened")
    /\ file' = Empty
    /\ last' = c
    /\ overlap' = (overlap \/ \E d \in Creators : pc[d] = "opened")
    /\ UNCHANGED <<force, first>>

(* Fault: a section is left out of what is written.                         *)
WithoutRuntime(c) == [NewConfig(c) EXCEPT !.runtime = FALSE]

ToWrite(c) == NewConfig(c)

(* ... and then writes all of it from its beginning.  If another creator    *)
(* wrote in between, what of that is longer stays behind.                   *)
Write(c) ==
    /\ pc[c] = "opened"
    /\ Goto(c, "done")
    /\ \/ file' = ToWrite(c)
       \/ file # Empty /\ file' = Garbled
    /\ UNCHANGED <<force, historyVars>>

(* The process is killed, perhaps with the file truncated and not written;  *)
(* a write that fails leaves the same behind.                               *)
Kill(c) ==
    /\ \/ pc[c] \in {"start", "checked"} /\ Goto(c, "killed")
       \/ pc[c] = "opened" /\ Goto(c, "torn")
    /\ UNCHANGED <<file, force, historyVars>>

-------------------------------------------------------------------------------
(* What load_config makes of a file: the configuration, an error (also for  *)
(* a file it can migrate), or a panic in the assertion of the migration.    *)
Load(f) ==
    IF f \in {Absent, Garbled} THEN "error"
    ELSE IF f.version = "no_string" THEN "panic"
    ELSE IF f.version = "v0.1.0" /\ f.base /\ f.runtime THEN "ok"
    ELSE "error"

Next ==
    \E c \in Creators : Check(c) \/ Fail(c) \/ Truncate(c) \/ Write(c) \/ Kill(c)

Spec == Init /\ [][Next]_vars

-------------------------------------------------------------------------------
(* Properties.                                                              *)

(* Every variable has its type; the file is only ever absent, garbled,      *)
(* empty, from before or a new configuration.                               *)
TypeOK ==
    /\ file \in {Absent, Garbled, Empty} \cup OldFiles \cup {NewConfig(c) : c \in Creators}
    /\ pc \in [Creators -> {"start", "refused", "failed", "checked", "opened",
                            "done", "killed", "torn"}]
    /\ force \in [Creators -> BOOLEAN]
    /\ first \in OldFiles
    /\ last \in Creators \cup {"none"}
    /\ overlap \in BOOLEAN

(* Without --force nobody touches a file that was there from the start, in  *)
(* whatever order the creators look and write, and whoever is killed.       *)
ExistingFileKept ==
    first # Absent /\ (\A c \in Creators : ~force[c]) => file = first

(* Unless two creators had the file open at once, a creator that succeeded  *)
(* after every other that truncated the file left its own configuration,    *)
(* and it loads: also when an earlier one was killed in the middle.         *)
SucceededLoads ==
    ~overlap /\ last \in Creators =>
        (pc[last] = "done" => file = NewConfig(last) /\ Load(file) = "ok")
================================================================================
